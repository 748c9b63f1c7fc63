----------------------------- MODULE ApiUpload ------------------------------
(***************************************************************************)
(* Uploads: the API classes under src/mediafire_sdk/api/upload             *)
(* each as the tables that ApiSteps describes.                             *)
(***************************************************************************)
EXTENDS ApiSteps, TLC

\* upload/add_web_upload/v1_3
upload_add_web_upload_v1_3_Parse == Req(<<"upload_key">>)
upload_add_web_upload_v1_3_Response == [ Response |-> Members({"upload_key"}, {}, {}) ]
upload_add_web_upload_v1_3_Impl ==
    Impl("SessionToken", "Post", {{"url", "filename"}}, {"folder_key"})
upload_add_web_upload_v1_3_Post == Post(Same({"url", "filename"}), Same({"folder_key"}))

\* upload/check/v0
upload_check_v0_ResumableData ==
    Preset(<<"all_units_ready">>) \o Req(<<"number_of_units">>)
    \o OptEnum(<<"all_units_ready">>) \o Req(<<"unit_size">>) \o Opt(<<"bitmap_count">>)
    \o List(<<"words">>)
upload_check_v0_Parse ==
    Preset(<<"hash_exists", "hash_in_account", "hash_in_folder", "file_exists",
             "hash_different", "available_space", "used_storage_size", "storage_limit",
             "storage_limit_exceeded">>)
    \o OptEnum(<<"hash_exists", "hash_in_account", "hash_in_folder", "file_exists",
                "hash_different">>) \o Opt(<<"duplicate_quickkey">>)
    \o Def(<<"available_space", "used_storage_size", "storage_limit">>)
    \o OptEnum(<<"storage_limit_exceeded">>) \o OptStruct("resumable", "ResumableData")
upload_check_v0_Response ==
    [ Response |-> Members({"hash_exists", "hash_in_account", "hash_in_folder",
                "file_exists", "hash_different", "available_space", "used_storage_size",
                "storage_limit", "storage_limit_exceeded"}, {"duplicate_quickkey",
                "resumable"}, {})
    , ResumableData |-> Members({"number_of_units", "all_units_ready", "unit_size"},
                {"bitmap_count"}, {"words"}) ]
upload_check_v0_Impl ==
    Impl("SessionToken", "Post", {{"filename"}}, {"hash", "filesize",
           "target_parent_folderkey", "target_filedrop", "path", "resumable"})
upload_check_v0_Post ==
    Post(Same({"filename"}), Same({"hash", "path", "resumable"}) @@ [size |-> "filesize",
           folder_key |-> "target_parent_folderkey", filedrop_key |-> "target_filedrop"])

\* upload/check/v1_2
upload_check_v1_2_ResumableData ==
    Preset(<<"all_units_ready">>) \o Req(<<"number_of_units">>)
    \o OptEnum(<<"all_units_ready">>) \o Req(<<"unit_size">>) \o Opt(<<"bitmap_count">>)
    \o List(<<"words">>) \o Opt(<<"upload_key">>)
upload_check_v1_2_Parse == upload_check_v0_Parse
upload_check_v1_2_Response ==
    [ Response |-> Members({"hash_exists", "hash_in_account", "hash_in_folder",
                "file_exists", "hash_different", "available_space", "used_storage_size",
                "storage_limit", "storage_limit_exceeded"}, {"duplicate_quickkey",
                "resumable"}, {})
    , ResumableData |-> Members({"number_of_units", "all_units_ready", "unit_size"},
                {"bitmap_count", "upload_key"}, {"words"}) ]
upload_check_v1_2_Impl == upload_check_v0_Impl
upload_check_v1_2_Post == upload_check_v0_Post

\* upload/check/v1_3
upload_check_v1_3_ResumableData == upload_check_v1_2_ResumableData
upload_check_v1_3_Parse == upload_check_v0_Parse
upload_check_v1_3_Response == upload_check_v1_2_Response
upload_check_v1_3_Impl == upload_check_v0_Impl
upload_check_v1_3_Post == upload_check_v0_Post

\* upload/get_web_uploads/v1_3
upload_get_web_uploads_v1_3_WebUpload ==
    Preset(<<"status_code", "status_text", "error_code", "percent_complete">>)
    \o Req(<<"uploadkey">>) \o Enum(<<"activity">>) \o Opt(<<"quickkey">>)
    \o Req(<<"filename">>) \o Opt(<<"created_datetime">>) \o OptEnum(<<"status_code">>)
    \o Def(<<"status_text", "error_code">>) \o Req(<<"url", "eta">>) \o Opt(<<"filesize">>)
    \o Def(<<"percent_complete">>)
upload_get_web_uploads_v1_3_Parse == Array("web_uploads", "WebUpload")
upload_get_web_uploads_v1_3_Response ==
    [ Response |-> Members({}, {}, {"web_uploads"})
    , WebUpload |-> Members({"uploadkey", "activity", "filename", "status_code",
                "status_text", "error_code", "url", "eta", "percent_complete"}, {"quickkey",
                "created_datetime", "filesize"}, {}) ]
upload_get_web_uploads_v1_3_Impl ==
    Impl("SessionToken", "Post", {{}}, {"filter", "upload_key"})
upload_get_web_uploads_v1_3_Post ==
    Post(Same({}), Same({"upload_key"}) @@ [all_web_uploads |-> "filter"])

\* upload/instant/v0
upload_instant_v0_Parse == Req(<<"quickkey", "filename">>)
upload_instant_v0_Response == [ Response |-> Members({"quickkey", "filename"}, {}, {}) ]
upload_instant_v0_Impl ==
    Impl("SessionToken", "Post", {{"filename", "hash", "filesize"}}, {"quickkey",
           "target_parent_folderkey", "target_filedrop", "target_path", "mtime",
           "action_on_duplicate", "previous_hash"})
upload_instant_v0_Post ==
    Post(Same({"filename", "hash"}) @@ [size |-> "filesize"], Same({"quickkey", "mtime",
           "action_on_duplicate", "previous_hash"}) @@ [folder_key |->
           "target_parent_folderkey", filedrop_key |-> "target_filedrop", path |->
           "target_path"])

\* upload/instant/v1_3
upload_instant_v1_3_Parse == Req(<<"quickkey", "filename", "new_device_revision">>)
upload_instant_v1_3_Response ==
    [ Response |-> Members({"quickkey", "filename", "new_device_revision"}, {}, {}) ]
upload_instant_v1_3_Impl == upload_instant_v0_Impl
upload_instant_v1_3_Post == upload_instant_v0_Post

\* upload/poll_upload/v0
upload_poll_upload_v0_Parse ==
    Preset(<<"fileerror">>) \o Req(<<"result">>) \o Opt(<<"status">>)
    \o Def(<<"fileerror">>)
    \o Opt(<<"filename", "description", "quickkey", "filesize", "revision">>)
upload_poll_upload_v0_Response ==
    [ Response |-> Members({"result", "fileerror"}, {"status", "filename", "description",
                "quickkey", "filesize", "revision"}, {}) ]
upload_poll_upload_v0_Impl == Impl("SessionToken", "Post", {{"key"}}, {})
upload_poll_upload_v0_Post == Post(Same({"key"}), Same({}))

\* upload/poll_upload/v1_3
upload_poll_upload_v1_3_ResumableData == upload_check_v1_2_ResumableData
upload_poll_upload_v1_3_Parse ==
    Preset(<<"fileerror">>) \o Req(<<"result">>) \o Def(<<"fileerror">>)
    \o Opt(<<"created", "description", "filename", "hash", "quickkey">>)
    \o OptStruct("resumable", "ResumableData") \o Opt(<<"revision", "filesize", "status">>)
upload_poll_upload_v1_3_Response ==
    [ Response |-> Members({"result", "fileerror"}, {"created", "description", "filename",
                "hash", "quickkey", "resumable", "revision", "filesize", "status"}, {})
    , ResumableData |-> Members({"number_of_units", "all_units_ready", "unit_size"},
                {"bitmap_count", "upload_key"}, {"words"}) ]
upload_poll_upload_v1_3_Impl == upload_poll_upload_v0_Impl
upload_poll_upload_v1_3_Post == Post(Same({"key"}), Same({}))

\* upload/pre_upload/v0
upload_pre_upload_v0_Parse ==
    OptEnum(<<"storage_limit_exceeded">>) \o Opt(<<"storage_limit", "used_storage_size">>)
    \o OptEnum(<<"known_by_cloud">>) \o Opt(<<"quickkey", "duplicate_quickkey">>)
    \o OptEnum(<<"duplicate_name">>) \o Opt(<<"upload_key">>)
    \o OptEnum(<<"all_units_ready">>)
    \o Opt(<<"number_of_units", "unit_size", "bitmap_count">>)
    \o OptList(<<"bitmap_words">>)
upload_pre_upload_v0_Response ==
    [ Response |-> Members({}, {"storage_limit_exceeded", "storage_limit",
                "used_storage_size", "known_by_cloud", "quickkey", "duplicate_quickkey",
                "duplicate_name", "upload_key", "all_units_ready", "number_of_units",
                "unit_size", "bitmap_count"}, {"bitmap_words"}) ]
upload_pre_upload_v0_Impl ==
    Impl("SessionToken", "Post", {{}}, {"resumable", "filename", "quickkey", "hash",
           "filesize", "upload_folder_key", "relative_path", "action_on_duplicate",
           "mtime"})
upload_pre_upload_v0_Post ==
    Post(Same({}), Same({"resumable", "filename", "hash", "upload_folder_key",
           "action_on_duplicate", "mtime"}) @@ [quick_key |-> "quickkey", size |->
           "filesize", path |-> "relative_path"])

\* The classes of this group by name.
UploadClasses == [
    upload_add_web_upload_v1_3 |->
        Class([Response |-> upload_add_web_upload_v1_3_Parse],
              upload_add_web_upload_v1_3_Response, upload_add_web_upload_v1_3_Impl, upload_add_web_upload_v1_3_Post),
    upload_check_v0 |->
        Class([Response |-> upload_check_v0_Parse,
               ResumableData |-> upload_check_v0_ResumableData],
              upload_check_v0_Response, upload_check_v0_Impl, upload_check_v0_Post),
    upload_check_v1_2 |->
        Class([Response |-> upload_check_v1_2_Parse,
               ResumableData |-> upload_check_v1_2_ResumableData],
              upload_check_v1_2_Response, upload_check_v1_2_Impl, upload_check_v1_2_Post),
    upload_check_v1_3 |->
        Class([Response |-> upload_check_v1_3_Parse,
               ResumableData |-> upload_check_v1_3_ResumableData],
              upload_check_v1_3_Response, upload_check_v1_3_Impl, upload_check_v1_3_Post),
    upload_get_web_uploads_v1_3 |->
        Class([Response |-> upload_get_web_uploads_v1_3_Parse,
               WebUpload |-> upload_get_web_uploads_v1_3_WebUpload],
              upload_get_web_uploads_v1_3_Response, upload_get_web_uploads_v1_3_Impl, upload_get_web_uploads_v1_3_Post),
    upload_instant_v0 |->
        Class([Response |-> upload_instant_v0_Parse],
              upload_instant_v0_Response, upload_instant_v0_Impl, upload_instant_v0_Post),
    upload_instant_v1_3 |->
        Class([Response |-> upload_instant_v1_3_Parse],
              upload_instant_v1_3_Response, upload_instant_v1_3_Impl, upload_instant_v1_3_Post),
    upload_poll_upload_v0 |->
        Class([Response |-> upload_poll_upload_v0_Parse],
              upload_poll_upload_v0_Response, upload_poll_upload_v0_Impl, upload_poll_upload_v0_Post),
    upload_poll_upload_v1_3 |->
        Class([Response |-> upload_poll_upload_v1_3_Parse,
               ResumableData |-> upload_poll_upload_v1_3_ResumableData],
              upload_poll_upload_v1_3_Response, upload_poll_upload_v1_3_Impl, upload_poll_upload_v1_3_Post),
    upload_pre_upload_v0 |->
        Class([Response |-> upload_pre_upload_v0_Parse],
              upload_pre_upload_v0_Response, upload_pre_upload_v0_Impl, upload_pre_upload_v0_Post) ]
=============================================================================
