----------------------------- MODULE ApiClasses -----------------------------
(***************************************************************************)
(* All API classes of the api_template by name.  The two                   *)
(* hand-written classes user/get_session_token/{v0,v1_3} are not among     *)
(* them: SessionMaintainer models the call for a session token.            *)
(***************************************************************************)
EXTENDS ApiBilling, ApiContact, ApiDevice, ApiFile, ApiFolder, ApiSystem,
        ApiUpload, ApiUser

Api == BillingClasses @@ ContactClasses @@ DeviceClasses @@ FileClasses
       @@ FolderClasses @@ SystemClasses @@ UploadClasses @@ UserClasses
=============================================================================
