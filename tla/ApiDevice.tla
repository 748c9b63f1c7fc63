----------------------------- MODULE ApiDevice ------------------------------
(***************************************************************************)
(* Devices and synchronisation: the API classes under src/mediafire_sdk/api/device*)
(* each as the tables that ApiSteps describes.                             *)
(***************************************************************************)
EXTENDS ApiSteps, TLC

\* device/get_changes/v0
device_get_changes_v0_File ==
    Preset(<<"created_datetime">>) \o Req(<<"quickkey">>) \o Opt(<<"parent_folderkey">>)
    \o Req(<<"revision">>) \o Def(<<"created_datetime">>)
device_get_changes_v0_Folder ==
    Preset(<<"created_datetime">>) \o Req(<<"folderkey">>) \o Opt(<<"parent_folderkey">>)
    \o Req(<<"revision">>) \o Def(<<"created_datetime">>)
device_get_changes_v0_Parse ==
    Req(<<"device_revision", "changes_list_block">>) \o OptArray("updated_files", "File")
    \o OptArray("deleted_files", "File") \o OptArray("updated_folders", "Folder")
    \o OptArray("deleted_folders", "Folder")
device_get_changes_v0_Response ==
    [ Response |-> Members({"device_revision", "changes_list_block"}, {}, {"updated_files",
                "deleted_files", "updated_folders", "deleted_folders"})
    , File |-> Members({"quickkey", "revision", "created_datetime"}, {"parent_folderkey"},
                {})
    , Folder |-> Members({"folderkey", "revision", "created_datetime"},
                {"parent_folderkey"}, {}) ]
device_get_changes_v0_Impl == Impl("SessionToken", "Post", {{"revision"}}, {})
device_get_changes_v0_Post == Post(Same({"revision"}), Same({}))

\* device/get_foreign_changes/v0
device_get_foreign_changes_v0_File == device_get_changes_v0_File
device_get_foreign_changes_v0_Folder == device_get_changes_v0_Folder
device_get_foreign_changes_v0_Parse == device_get_changes_v0_Parse
device_get_foreign_changes_v0_Response == device_get_changes_v0_Response
device_get_foreign_changes_v0_Impl ==
    Impl("SessionToken", "Post", {{"revision", "contact_key"}}, {})
device_get_foreign_changes_v0_Post == Post(Same({"revision", "contact_key"}), Same({}))

\* device/get_foreign_changes/v1_3
device_get_foreign_changes_v1_3_File == device_get_changes_v0_File
device_get_foreign_changes_v1_3_Folder == device_get_changes_v0_Folder
device_get_foreign_changes_v1_3_Parse == device_get_changes_v0_Parse
device_get_foreign_changes_v1_3_Response == device_get_changes_v0_Response
device_get_foreign_changes_v1_3_Impl == device_get_foreign_changes_v0_Impl
device_get_foreign_changes_v1_3_Post == device_get_foreign_changes_v0_Post

\* device/get_foreign_resources/v0
device_get_foreign_resources_v0_File ==
    Preset(<<"mimetype", "share_link_enabled">>)
    \o Req(<<"attributes", "created_datetime", "shared_datetime">>)
    \o Opt(<<"description">>) \o Req(<<"filename", "filetype", "hash">>)
    \o Def(<<"mimetype">>) \o Req(<<"options">>) \o Opt(<<"permissions">>)
    \o Req(<<"quickkey", "revision">>) \o OptEnum(<<"share_link_enabled">>)
    \o Req(<<"sharer", "filesize">>)
device_get_foreign_resources_v0_Folder ==
    Preset(<<"share_link_enabled">>)
    \o Req(<<"attributes", "created_datetime", "shared_datetime">>)
    \o Opt(<<"description">>) \o Req(<<"folderkey", "name", "options">>)
    \o Opt(<<"permissions", "resource_key">>) \o Req(<<"revision">>)
    \o OptEnum(<<"share_link_enabled">>) \o Req(<<"sharer">>)
device_get_foreign_resources_v0_Parse ==
    OptArray("files", "File") \o OptArray("folders", "Folder")
device_get_foreign_resources_v0_Response ==
    [ Response |-> Members({}, {}, {"files", "folders"})
    , File |-> Members({"attributes", "created_datetime", "shared_datetime", "filename",
                "filetype", "hash", "mimetype", "options", "quickkey", "revision",
                "share_link_enabled", "sharer", "filesize"}, {"description", "permissions"},
                {})
    , Folder |-> Members({"attributes", "created_datetime", "shared_datetime", "folderkey",
                "name", "options", "revision", "share_link_enabled", "sharer"},
                {"description", "permissions", "resource_key"}, {}) ]
device_get_foreign_resources_v0_Impl ==
    Impl("SessionToken", "Post", {{}, {"chunk_number", "content_type"}}, {"chunk_number",
           "content_type", "filter", "sync_to_desktop_filter"})
device_get_foreign_resources_v0_Post ==
    Post(Same({}), Same({"filter"}) @@ [chunk |-> "chunk_number", type |-> "content_type",
           sync |-> "sync_to_desktop_filter"])

\* device/get_patch/v0
device_get_patch_v0_Parse == Req(<<"patch_link", "patch_hash">>)
device_get_patch_v0_Response ==
    [ Response |-> Members({"patch_link", "patch_hash"}, {}, {}) ]
device_get_patch_v0_Impl ==
    Impl("SessionToken", "Post", {{"quickkey", "source_revision", "target_revision"}}, {})
device_get_patch_v0_Post ==
    Post(Same({"source_revision", "target_revision"}) @@ [quick_key |-> "quickkey"],
           Same({}))

\* device/get_resource_shares/v0
device_get_resource_shares_v0_Share ==
    Req(<<"contact_key", "contact_type", "contact_indirect", "display_name">>)
    \o Opt(<<"avatar">>) \o Enum(<<"share_permissions">>)
device_get_resource_shares_v0_Parse == OptArray("shares", "Share")
device_get_resource_shares_v0_Response ==
    [ Response |-> Members({}, {}, {"shares"})
    , Share |-> Members({"contact_key", "contact_type", "contact_indirect", "display_name",
                "share_permissions"}, {"avatar"}, {}) ]
device_get_resource_shares_v0_Impl == device_get_patch_v0_Impl
device_get_resource_shares_v0_Post == device_get_patch_v0_Post

\* device/get_status/v0
device_get_status_v0_Parse ==
    Enum(<<"async_jobs_in_progress">>) \o Req(<<"device_revision">>)
device_get_status_v0_Response ==
    [ Response |-> Members({"async_jobs_in_progress", "device_revision"}, {}, {}) ]
device_get_status_v0_Impl == Impl("SessionToken", "Post", {{}}, {"device_id"})
device_get_status_v0_Post == Post(Same({}), Same({"device_id"}))

\* device/get_updates/v0
device_get_updates_v0_Update ==
    Req(<<"source_revision", "source_hash", "target_revision", "target_hash", "timestamp">>)
device_get_updates_v0_Parse == Req(<<"current_revision">>) \o OptArray("updates", "Update")
device_get_updates_v0_Response ==
    [ Response |-> Members({"current_revision"}, {}, {"updates"})
    , Update |-> Members({"source_revision", "source_hash", "target_revision",
                "target_hash", "timestamp"}, {}, {}) ]
device_get_updates_v0_Impl ==
    Impl("SessionToken", "Post", {{"quickkey", "revision"}}, {"target_revision"})
device_get_updates_v0_Post ==
    Post(Same({"revision"}) @@ [quick_key |-> "quickkey"], Same({"target_revision"}))

\* device/get_user_shares/v0
device_get_user_shares_v0_Share ==
    Req(<<"contact_key">>) \o Enum(<<"contact_indirect">>)
    \o Req(<<"contact_type", "display_name">>) \o Opt(<<"avatar">>)
    \o Req(<<"resource_key", "attributes">>) \o Enum(<<"share_permissions">>)
device_get_user_shares_v0_Parse == device_get_resource_shares_v0_Parse
device_get_user_shares_v0_Response ==
    [ Response |-> Members({}, {}, {"shares"})
    , Share |-> Members({"contact_key", "contact_indirect", "contact_type", "display_name",
                "resource_key", "attributes", "share_permissions"}, {"avatar"}, {}) ]
device_get_user_shares_v0_Impl == Impl("SessionToken", "Post", {{}}, {"contacts", "limit"})
device_get_user_shares_v0_Post == Post(Same({}), Same({"contacts", "limit"}))

\* device/share_resources/v0
device_share_resources_v0_Parse == Req(<<"device_revision">>)
device_share_resources_v0_Response == [ Response |-> Members({"device_revision"}, {}, {}) ]
device_share_resources_v0_Impl ==
    Impl("SessionToken", "Post", {{"resources", "contacts"}}, {"permissions", "message",
           "fb_access_token", "tw_oauth_token", "tw_oauth_token_secret"})
device_share_resources_v0_Post ==
    Post(Same({"resources", "contacts"}), Same({"permissions", "message", "fb_access_token",
           "tw_oauth_token", "tw_oauth_token_secret"}))

\* device/unshare_resource/v0
device_unshare_resource_v0_Parse == device_share_resources_v0_Parse
device_unshare_resource_v0_Response == device_share_resources_v0_Response
device_unshare_resource_v0_Impl == Impl("SessionToken", "Post", {{"resource"}}, {"contact"})
device_unshare_resource_v0_Post == Post(Same({"resource"}), Same({"contact"}))

\* The classes of this group by name.
DeviceClasses == [
    device_get_changes_v0 |->
        Class([Response |-> device_get_changes_v0_Parse,
               File |-> device_get_changes_v0_File,
               Folder |-> device_get_changes_v0_Folder],
              device_get_changes_v0_Response, device_get_changes_v0_Impl, device_get_changes_v0_Post),
    device_get_foreign_changes_v0 |->
        Class([Response |-> device_get_foreign_changes_v0_Parse,
               File |-> device_get_foreign_changes_v0_File,
               Folder |-> device_get_foreign_changes_v0_Folder],
              device_get_foreign_changes_v0_Response, device_get_foreign_changes_v0_Impl, device_get_foreign_changes_v0_Post),
    device_get_foreign_changes_v1_3 |->
        Class([Response |-> device_get_foreign_changes_v1_3_Parse,
               File |-> device_get_foreign_changes_v1_3_File,
               Folder |-> device_get_foreign_changes_v1_3_Folder],
              device_get_foreign_changes_v1_3_Response, device_get_foreign_changes_v1_3_Impl, device_get_foreign_changes_v1_3_Post),
    device_get_foreign_resources_v0 |->
        Class([Response |-> device_get_foreign_resources_v0_Parse,
               File |-> device_get_foreign_resources_v0_File,
               Folder |-> device_get_foreign_resources_v0_Folder],
              device_get_foreign_resources_v0_Response, device_get_foreign_resources_v0_Impl, device_get_foreign_resources_v0_Post),
    device_get_patch_v0 |->
        Class([Response |-> device_get_patch_v0_Parse],
              device_get_patch_v0_Response, device_get_patch_v0_Impl, device_get_patch_v0_Post),
    device_get_resource_shares_v0 |->
        Class([Response |-> device_get_resource_shares_v0_Parse,
               Share |-> device_get_resource_shares_v0_Share],
              device_get_resource_shares_v0_Response, device_get_resource_shares_v0_Impl, device_get_resource_shares_v0_Post),
    device_get_status_v0 |->
        Class([Response |-> device_get_status_v0_Parse],
              device_get_status_v0_Response, device_get_status_v0_Impl, device_get_status_v0_Post),
    device_get_updates_v0 |->
        Class([Response |-> device_get_updates_v0_Parse,
               Update |-> device_get_updates_v0_Update],
              device_get_updates_v0_Response, device_get_updates_v0_Impl, device_get_updates_v0_Post),
    device_get_user_shares_v0 |->
        Class([Response |-> device_get_user_shares_v0_Parse,
               Share |-> device_get_user_shares_v0_Share],
              device_get_user_shares_v0_Response, device_get_user_shares_v0_Impl, device_get_user_shares_v0_Post),
    device_share_resources_v0 |->
        Class([Response |-> device_share_resources_v0_Parse],
              device_share_resources_v0_Response, device_share_resources_v0_Impl, device_share_resources_v0_Post),
    device_unshare_resource_v0 |->
        Class([Response |-> device_unshare_resource_v0_Parse],
              device_unshare_resource_v0_Response, device_unshare_resource_v0_Impl, device_unshare_resource_v0_Post) ]
=============================================================================
