------------------------------ MODULE ApiFile -------------------------------
(***************************************************************************)
(* Files: the API classes under src/mediafire_sdk/api/file                 *)
(* each as the tables that ApiSteps describes.                             *)
(***************************************************************************)
EXTENDS ApiSteps, TLC

\* file/configure_one_time_key/v1_1
file_configure_one_time_key_v1_1_Parse ==
    Preset(<<"one_time_key_request_count">>) \o Def(<<"one_time_key_request_count">>)
file_configure_one_time_key_v1_1_Response ==
    [ Response |-> Members({"one_time_key_request_count"}, {}, {}) ]
file_configure_one_time_key_v1_1_Impl ==
    Impl("SessionToken", "Post", {{"token"}}, {"duration_minutes", "email_notification",
           "success_callback_url", "error_callback_url", "bind_ip", "burn_after_use"})
file_configure_one_time_key_v1_1_Post ==
    Post(Same({"token"}), Same({"email_notification", "success_callback_url",
           "error_callback_url", "bind_ip", "burn_after_use"}) @@ [duration |->
           "duration_minutes"])

\* file/configure_one_time_key/v1_3
file_configure_one_time_key_v1_3_Parse == file_configure_one_time_key_v1_1_Parse
file_configure_one_time_key_v1_3_Response == file_configure_one_time_key_v1_1_Response
file_configure_one_time_key_v1_3_Impl == file_configure_one_time_key_v1_1_Impl
file_configure_one_time_key_v1_3_Post == file_configure_one_time_key_v1_1_Post

\* file/copy/v0
file_copy_v0_Parse == Req(<<"device_revision">>) \o Front(<<"quickkey">>)
file_copy_v0_Response == [ Response |-> Members({"device_revision", "quickkey"}, {}, {}) ]
file_copy_v0_Impl ==
    Impl("SessionToken", "Post", {{"quickkey"}}, {"target_parent_folderkey"})
file_copy_v0_Post ==
    Post([quick_key |-> "quickkey"], [folder_key |-> "target_parent_folderkey"])

\* file/copy/v1_3
file_copy_v1_3_Parse == Opt(<<"new_device_revision">>) \o Front(<<"quickkey">>)
file_copy_v1_3_Response ==
    [ Response |-> Members({"quickkey"}, {"new_device_revision"}, {}) ]
file_copy_v1_3_Impl == file_copy_v0_Impl
file_copy_v1_3_Post == file_copy_v0_Post

\* file/create/v0
file_create_v0_Links == Opt(<<"edit", "normal_download", "view">>)
file_create_v0_Parse ==
    Req(<<"device_revision", "quickkey", "filename", "created_datetime", "filesize",
          "filetype", "flag">>) \o Struct("links", "Links")
file_create_v0_Response ==
    [ Response |-> Members({"device_revision", "quickkey", "filename", "created_datetime",
                "filesize", "filetype", "flag", "links"}, {}, {})
    , Links |-> Members({}, {"edit", "normal_download", "view"}, {}) ]
file_create_v0_Impl ==
    Impl("SessionToken", "Post", {{}}, {"filename", "file_extension", "parent_folderkey",
           "mtime"})
file_create_v0_Post ==
    Post(Same({}), Same({"filename", "file_extension", "mtime"}) @@ [parent_key |->
           "parent_folderkey"])

\* file/create/v1_2
file_create_v1_2_Links ==
    Opt(<<"direct_download", "edit", "listen", "normal_download", "one_time_download",
          "one_time_listen", "one_time_watch", "one_time_view", "read", "streaming", "view",
          "watch">>)
file_create_v1_2_Parse ==
    Preset(<<"description", "mimetype">>) \o Req(<<"created_datetime">>)
    \o Def(<<"description">>)
    \o Req(<<"device_revision", "downloads", "filehash", "filename", "filesize", "filetype",
             "file_revision", "flag">>) \o Struct("links", "Links") \o Def(<<"mimetype">>)
    \o Enum(<<"password_protected", "privacy">>) \o Req(<<"quickkey">>)
file_create_v1_2_Response ==
    [ Response |-> Members({"created_datetime", "description", "device_revision",
                "downloads", "filehash", "filename", "filesize", "filetype",
                "file_revision", "flag", "links", "mimetype", "password_protected",
                "privacy", "quickkey"}, {}, {})
    , Links |-> Members({}, {"direct_download", "edit", "listen", "normal_download",
                "one_time_download", "one_time_listen", "one_time_watch", "one_time_view",
                "read", "streaming", "view", "watch"}, {}) ]
file_create_v1_2_Impl ==
    Impl("SessionToken", "Post", {{}}, {"filename", "file_extension", "parent_folderkey",
           "mtime", "file_type"})
file_create_v1_2_Post ==
    Post(Same({}), Same({"filename", "file_extension", "mtime"}) @@ [parent_key |->
           "parent_folderkey", type |-> "file_type"])

\* file/create/v1_3
file_create_v1_3_Links == file_create_v1_2_Links
file_create_v1_3_Parse ==
    Preset(<<"description", "mimetype">>) \o Req(<<"created_datetime">>)
    \o Def(<<"description">>) \o Opt(<<"new_device_revision">>)
    \o Req(<<"downloads", "filehash", "filename", "filesize", "filetype", "file_revision",
             "flag">>) \o Struct("links", "Links") \o Def(<<"mimetype">>)
    \o Enum(<<"password_protected", "privacy">>) \o Req(<<"quickkey">>)
file_create_v1_3_Response ==
    [ Response |-> Members({"created_datetime", "description", "downloads", "filehash",
                "filename", "filesize", "filetype", "file_revision", "flag", "links",
                "mimetype", "password_protected", "privacy", "quickkey"},
                {"new_device_revision"}, {})
    , Links |-> Members({}, {"direct_download", "edit", "listen", "normal_download",
                "one_time_download", "one_time_listen", "one_time_watch", "one_time_view",
                "read", "streaming", "view", "watch"}, {}) ]
file_create_v1_3_Impl == file_create_v1_2_Impl
file_create_v1_3_Post == file_create_v1_2_Post

\* file/file_delete/v0
file_file_delete_v0_Parse == Req(<<"device_revision">>)
file_file_delete_v0_Response == [ Response |-> Members({"device_revision"}, {}, {}) ]
file_file_delete_v0_Impl == Impl("SessionToken", "Post", {{"quickkey"}}, {})
file_file_delete_v0_Post == Post([quick_key |-> "quickkey"], Same({}))

\* file/file_delete/v1_3
file_file_delete_v1_3_Parse == Opt(<<"new_device_revision">>)
file_file_delete_v1_3_Response == [ Response |-> Members({}, {"new_device_revision"}, {}) ]
file_file_delete_v1_3_Impl == file_file_delete_v0_Impl
file_file_delete_v1_3_Post == file_file_delete_v0_Post

\* file/get_info/v0
file_get_info_v0_Permissions ==
    Req(<<"value">>) \o Enum(<<"explicit_share", "read_permission", "write_permission">>)
file_get_info_v0_Parse ==
    Preset(<<"deleted_datetime", "mimetype", "shared_by_user">>)
    \o Req(<<"quickkey", "filename", "created_datetime">>) \o Def(<<"deleted_datetime">>)
    \o Opt(<<"download_count">>) \o Req(<<"filesize">>)
    \o Enum(<<"privacy", "password_protected">>) \o Req(<<"hash", "filetype">>)
    \o Def(<<"mimetype">>) \o Req(<<"owner_name">>) \o OptEnum(<<"shared_by_user">>)
    \o OptStruct("permissions", "Permissions") \o Opt(<<"parent_folderkey">>)
    \o Req(<<"revision", "flag">>)
file_get_info_v0_Response ==
    [ Response |-> Members({"quickkey", "filename", "created_datetime", "deleted_datetime",
                "filesize", "privacy", "password_protected", "hash", "filetype", "mimetype",
                "owner_name", "shared_by_user", "revision", "flag"}, {"download_count",
                "permissions", "parent_folderkey"}, {})
    , Permissions |-> Members({"value", "explicit_share", "read_permission",
                "write_permission"}, {}, {}) ]
file_get_info_v0_Impl == file_file_delete_v0_Impl
file_get_info_v0_Post == file_file_delete_v0_Post

\* file/get_info/v1_1
file_get_info_v1_1_Links == file_create_v1_2_Links
file_get_info_v1_1_Permissions == file_get_info_v0_Permissions
file_get_info_v1_1_Parse ==
    Preset(<<"deleted_datetime", "mimetype", "shared_by_user">>)
    \o Req(<<"quickkey", "filename", "created_datetime">>) \o Def(<<"deleted_datetime">>)
    \o Opt(<<"download_count">>) \o Req(<<"filesize">>)
    \o Enum(<<"privacy", "password_protected">>) \o Req(<<"hash", "filetype">>)
    \o Def(<<"mimetype">>) \o Req(<<"owner_name">>) \o OptEnum(<<"shared_by_user">>)
    \o OptStruct("permissions", "Permissions") \o Opt(<<"parent_folderkey">>)
    \o Req(<<"revision", "flag">>) \o Struct("links", "Links")
file_get_info_v1_1_Response ==
    [ Response |-> Members({"quickkey", "filename", "created_datetime", "deleted_datetime",
                "filesize", "privacy", "password_protected", "hash", "filetype", "mimetype",
                "owner_name", "shared_by_user", "revision", "flag", "links"},
                {"download_count", "permissions", "parent_folderkey"}, {})
    , Links |-> Members({}, {"direct_download", "edit", "listen", "normal_download",
                "one_time_download", "one_time_listen", "one_time_watch", "one_time_view",
                "read", "streaming", "view", "watch"}, {})
    , Permissions |-> Members({"value", "explicit_share", "read_permission",
                "write_permission"}, {}, {}) ]
file_get_info_v1_1_Impl == file_file_delete_v0_Impl
file_get_info_v1_1_Post == file_file_delete_v0_Post

\* file/get_links/v0
file_get_links_v0_Links ==
    Opt(<<"direct_download", "direct_download_error_message", "direct_download_error",
          "edit", "edit_error_message", "listen", "normal_download", "one_time_download",
          "one_time_download_error_message">>) \o Req(<<"quickkey">>)
    \o Opt(<<"view", "watch", "error">>)
file_get_links_v0_Parse ==
    Preset(<<"one_time_download_request_count", "direct_download_free_bandwidth">>)
    \o Array("links", "Links")
    \o Def(<<"one_time_download_request_count", "direct_download_free_bandwidth">>)
file_get_links_v0_Response ==
    [ Response |-> Members({"one_time_download_request_count",
                "direct_download_free_bandwidth"}, {}, {"links"})
    , Links |-> Members({"quickkey"}, {"direct_download", "direct_download_error_message",
                "direct_download_error", "edit", "edit_error_message", "listen",
                "normal_download", "one_time_download", "one_time_download_error_message",
                "view", "watch", "error"}, {}) ]
file_get_links_v0_Impl == Impl("SessionToken", "Post", {{"quickkeys"}}, {"link_types"})
file_get_links_v0_Post == Post([quick_key |-> "quickkeys"], [link_type |-> "link_types"])

\* file/get_links/v1_3
file_get_links_v1_3_Links ==
    Req(<<"quickkey">>)
    \o Opt(<<"direct_download", "direct_download_error_message", "direct_download_error",
             "edit", "edit_error_message", "listen", "normal_download", "one_time_download",
             "one_time_download_error_message", "one_time_listen", "one_time_watch",
             "one_time_view", "read", "streaming", "view", "watch">>)
file_get_links_v1_3_Parse == file_get_links_v0_Parse
file_get_links_v1_3_Response ==
    [ Response |-> Members({"one_time_download_request_count",
                "direct_download_free_bandwidth"}, {}, {"links"})
    , Links |-> Members({"quickkey"}, {"direct_download", "direct_download_error_message",
                "direct_download_error", "edit", "edit_error_message", "listen",
                "normal_download", "one_time_download", "one_time_download_error_message",
                "one_time_listen", "one_time_watch", "one_time_view", "read", "streaming",
                "view", "watch"}, {}) ]
file_get_links_v1_3_Impl == file_get_links_v0_Impl
file_get_links_v1_3_Post == file_get_links_v0_Post

\* file/get_versions/v0
file_get_versions_v0_FileVersion ==
    Preset(<<"at_head">>) \o Req(<<"revision", "date">>) \o OptEnum(<<"at_head">>)
file_get_versions_v0_Parse == OptArray("file_versions", "FileVersion")
file_get_versions_v0_Response ==
    [ Response |-> Members({}, {}, {"file_versions"})
    , FileVersion |-> Members({"revision", "date", "at_head"}, {}, {}) ]
file_get_versions_v0_Impl == file_file_delete_v0_Impl
file_get_versions_v0_Post == file_file_delete_v0_Post

\* file/get_versions/v1_3
file_get_versions_v1_3_FileVersion == file_get_versions_v0_FileVersion
file_get_versions_v1_3_Parse == file_get_versions_v0_Parse
file_get_versions_v1_3_Response == file_get_versions_v0_Response
file_get_versions_v1_3_Impl == file_file_delete_v0_Impl
file_get_versions_v1_3_Post == file_file_delete_v0_Post

\* file/move/v0
file_move_v0_Parse == Opt(<<"device_revision">>)
file_move_v0_Response == [ Response |-> Members({}, {"device_revision"}, {}) ]
file_move_v0_Impl ==
    Impl("SessionToken", "Post", {{"quickkey", "target_parent_folderkey"}}, {})
file_move_v0_Post ==
    Post([quick_key |-> "quickkey", folder_key |-> "target_parent_folderkey"], Same({}))

\* file/move/v1_3
file_move_v1_3_Parse == file_file_delete_v1_3_Parse
file_move_v1_3_Response == file_file_delete_v1_3_Response
file_move_v1_3_Impl == file_move_v0_Impl
file_move_v1_3_Post == file_move_v0_Post

\* file/one_time_key/v1_1
file_one_time_key_v1_1_Parse ==
    Preset(<<"one_time_key_request_count", "one_time_key_request_max_count">>)
    \o Def(<<"one_time_key_request_count", "one_time_key_request_max_count">>)
    \o Req(<<"token">>)
    \o Opt(<<"download_link", "view_link", "watch_link", "listen_link">>)
file_one_time_key_v1_1_Response ==
    [ Response |-> Members({"one_time_key_request_count", "one_time_key_request_max_count",
                "token"}, {"download_link", "view_link", "watch_link", "listen_link"}, {}) ]
file_one_time_key_v1_1_Impl ==
    Impl("SessionToken", "Post", {{}}, {"quickkey", "get_counts_only", "duration_minutes",
           "nofify_owner_on_access", "success_callback_url", "error_callback_url",
           "bind_ip", "burn_after_use"})
file_one_time_key_v1_1_Post ==
    Post(Same({}), Same({"get_counts_only", "success_callback_url", "error_callback_url",
           "bind_ip", "burn_after_use"}) @@ [quick_key |-> "quickkey", duration |->
           "duration_minutes", email_notification |-> "nofify_owner_on_access"])

\* file/one_time_key/v1_3
file_one_time_key_v1_3_Parse == file_one_time_key_v1_1_Parse
file_one_time_key_v1_3_Response == file_one_time_key_v1_1_Response
file_one_time_key_v1_3_Impl == file_one_time_key_v1_1_Impl
file_one_time_key_v1_3_Post == file_one_time_key_v1_1_Post

\* file/purge/v0
file_purge_v0_Parse == Opt(<<"device_revision">>)
file_purge_v0_Response == file_move_v0_Response
file_purge_v0_Impl == Impl("SessionToken", "Post", {{"quickkeys"}}, {})
file_purge_v0_Post == Post([quick_key |-> "quickkeys"], Same({}))

\* file/purge/v1_3
file_purge_v1_3_Parse == file_file_delete_v1_3_Parse
file_purge_v1_3_Response == file_file_delete_v1_3_Response
file_purge_v1_3_Impl == file_purge_v0_Impl
file_purge_v1_3_Post == file_purge_v0_Post

\* file/recently_modified/v0
file_recently_modified_v0_Parse == OptList(<<"quickkeys">>)
file_recently_modified_v0_Response == [ Response |-> Members({}, {}, {"quickkeys"}) ]
file_recently_modified_v0_Impl == Impl("SessionToken", "Post", {{}}, {"number_of_files"})
file_recently_modified_v0_Post == Post(Same({}), Same({"number_of_files"}))

\* file/recently_modified/v1_3
file_recently_modified_v1_3_Parse == OptList(<<"quickkeys">>)
file_recently_modified_v1_3_Response == file_recently_modified_v0_Response
file_recently_modified_v1_3_Impl == file_recently_modified_v0_Impl
file_recently_modified_v1_3_Post == file_recently_modified_v0_Post

\* file/restore/v0
file_restore_v0_Parse == Preset(<<"asynchronous">>) \o OptEnum(<<"asynchronous">>)
file_restore_v0_Response == [ Response |-> Members({"asynchronous"}, {}, {}) ]
file_restore_v0_Impl == Impl("SessionToken", "Post", {{"quickkey", "revision"}}, {})
file_restore_v0_Post == Post(Same({"revision"}) @@ [quick_key |-> "quickkey"], Same({}))

\* file/restore/v1_3
file_restore_v1_3_Parse == file_restore_v0_Parse
file_restore_v1_3_Response == file_restore_v0_Response
file_restore_v1_3_Impl == file_restore_v0_Impl
file_restore_v1_3_Post == file_restore_v0_Post

\* file/update/v0
file_update_v0_Parse == Opt(<<"device_revision">>)
file_update_v0_Response == file_move_v0_Response
file_update_v0_Impl ==
    Impl("SessionToken", "Post", {{"quickkey"}}, {"filename", "description", "privacy",
           "mtime"})
file_update_v0_Post ==
    Post([quick_key |-> "quickkey"], Same({"filename", "description", "privacy", "mtime"}))

\* file/update/v1_3
file_update_v1_3_Parse == file_file_delete_v1_3_Parse
file_update_v1_3_Response == file_file_delete_v1_3_Response
file_update_v1_3_Impl == file_update_v0_Impl
file_update_v1_3_Post == file_update_v0_Post

\* file/update_file/v0
file_update_file_v0_Parse == Opt(<<"device_revision">>)
file_update_file_v0_Response == file_move_v0_Response
file_update_file_v0_Impl ==
    Impl("SessionToken", "Post", {{"from_quickkey", "to_quickkey"}}, {})
file_update_file_v0_Post == Post(Same({"from_quickkey", "to_quickkey"}), Same({}))

\* file/update_file/v1_3
file_update_file_v1_3_Parse == file_file_delete_v1_3_Parse
file_update_file_v1_3_Response == file_file_delete_v1_3_Response
file_update_file_v1_3_Impl == file_update_file_v0_Impl
file_update_file_v1_3_Post == file_update_file_v0_Post

\* The classes of this group by name.
FileClasses == [
    file_configure_one_time_key_v1_1 |->
        Class([Response |-> file_configure_one_time_key_v1_1_Parse],
              file_configure_one_time_key_v1_1_Response, file_configure_one_time_key_v1_1_Impl, file_configure_one_time_key_v1_1_Post),
    file_configure_one_time_key_v1_3 |->
        Class([Response |-> file_configure_one_time_key_v1_3_Parse],
              file_configure_one_time_key_v1_3_Response, file_configure_one_time_key_v1_3_Impl, file_configure_one_time_key_v1_3_Post),
    file_copy_v0 |->
        Class([Response |-> file_copy_v0_Parse],
              file_copy_v0_Response, file_copy_v0_Impl, file_copy_v0_Post),
    file_copy_v1_3 |->
        Class([Response |-> file_copy_v1_3_Parse],
              file_copy_v1_3_Response, file_copy_v1_3_Impl, file_copy_v1_3_Post),
    file_create_v0 |->
        Class([Response |-> file_create_v0_Parse,
               Links |-> file_create_v0_Links],
              file_create_v0_Response, file_create_v0_Impl, file_create_v0_Post),
    file_create_v1_2 |->
        Class([Response |-> file_create_v1_2_Parse,
               Links |-> file_create_v1_2_Links],
              file_create_v1_2_Response, file_create_v1_2_Impl, file_create_v1_2_Post),
    file_create_v1_3 |->
        Class([Response |-> file_create_v1_3_Parse,
               Links |-> file_create_v1_3_Links],
              file_create_v1_3_Response, file_create_v1_3_Impl, file_create_v1_3_Post),
    file_file_delete_v0 |->
        Class([Response |-> file_file_delete_v0_Parse],
              file_file_delete_v0_Response, file_file_delete_v0_Impl, file_file_delete_v0_Post),
    file_file_delete_v1_3 |->
        Class([Response |-> file_file_delete_v1_3_Parse],
              file_file_delete_v1_3_Response, file_file_delete_v1_3_Impl, file_file_delete_v1_3_Post),
    file_get_info_v0 |->
        Class([Response |-> file_get_info_v0_Parse,
               Permissions |-> file_get_info_v0_Permissions],
              file_get_info_v0_Response, file_get_info_v0_Impl, file_get_info_v0_Post),
    file_get_info_v1_1 |->
        Class([Response |-> file_get_info_v1_1_Parse,
               Links |-> file_get_info_v1_1_Links,
               Permissions |-> file_get_info_v1_1_Permissions],
              file_get_info_v1_1_Response, file_get_info_v1_1_Impl, file_get_info_v1_1_Post),
    file_get_links_v0 |->
        Class([Response |-> file_get_links_v0_Parse,
               Links |-> file_get_links_v0_Links],
              file_get_links_v0_Response, file_get_links_v0_Impl, file_get_links_v0_Post),
    file_get_links_v1_3 |->
        Class([Response |-> file_get_links_v1_3_Parse,
               Links |-> file_get_links_v1_3_Links],
              file_get_links_v1_3_Response, file_get_links_v1_3_Impl, file_get_links_v1_3_Post),
    file_get_versions_v0 |->
        Class([Response |-> file_get_versions_v0_Parse,
               FileVersion |-> file_get_versions_v0_FileVersion],
              file_get_versions_v0_Response, file_get_versions_v0_Impl, file_get_versions_v0_Post),
    file_get_versions_v1_3 |->
        Class([Response |-> file_get_versions_v1_3_Parse,
               FileVersion |-> file_get_versions_v1_3_FileVersion],
              file_get_versions_v1_3_Response, file_get_versions_v1_3_Impl, file_get_versions_v1_3_Post),
    file_move_v0 |->
        Class([Response |-> file_move_v0_Parse],
              file_move_v0_Response, file_move_v0_Impl, file_move_v0_Post),
    file_move_v1_3 |->
        Class([Response |-> file_move_v1_3_Parse],
              file_move_v1_3_Response, file_move_v1_3_Impl, file_move_v1_3_Post),
    file_one_time_key_v1_1 |->
        Class([Response |-> file_one_time_key_v1_1_Parse],
              file_one_time_key_v1_1_Response, file_one_time_key_v1_1_Impl, file_one_time_key_v1_1_Post),
    file_one_time_key_v1_3 |->
        Class([Response |-> file_one_time_key_v1_3_Parse],
              file_one_time_key_v1_3_Response, file_one_time_key_v1_3_Impl, file_one_time_key_v1_3_Post),
    file_purge_v0 |->
        Class([Response |-> file_purge_v0_Parse],
              file_purge_v0_Response, file_purge_v0_Impl, file_purge_v0_Post),
    file_purge_v1_3 |->
        Class([Response |-> file_purge_v1_3_Parse],
              file_purge_v1_3_Response, file_purge_v1_3_Impl, file_purge_v1_3_Post),
    file_recently_modified_v0 |->
        Class([Response |-> file_recently_modified_v0_Parse],
              file_recently_modified_v0_Response, file_recently_modified_v0_Impl, file_recently_modified_v0_Post),
    file_recently_modified_v1_3 |->
        Class([Response |-> file_recently_modified_v1_3_Parse],
              file_recently_modified_v1_3_Response, file_recently_modified_v1_3_Impl, file_recently_modified_v1_3_Post),
    file_restore_v0 |->
        Class([Response |-> file_restore_v0_Parse],
              file_restore_v0_Response, file_restore_v0_Impl, file_restore_v0_Post),
    file_restore_v1_3 |->
        Class([Response |-> file_restore_v1_3_Parse],
              file_restore_v1_3_Response, file_restore_v1_3_Impl, file_restore_v1_3_Post),
    file_update_v0 |->
        Class([Response |-> file_update_v0_Parse],
              file_update_v0_Response, file_update_v0_Impl, file_update_v0_Post),
    file_update_v1_3 |->
        Class([Response |-> file_update_v1_3_Parse],
              file_update_v1_3_Response, file_update_v1_3_Impl, file_update_v1_3_Post),
    file_update_file_v0 |->
        Class([Response |-> file_update_file_v0_Parse],
              file_update_file_v0_Response, file_update_file_v0_Impl, file_update_file_v0_Post),
    file_update_file_v1_3 |->
        Class([Response |-> file_update_file_v1_3_Parse],
              file_update_file_v1_3_Response, file_update_file_v1_3_Impl, file_update_file_v1_3_Post) ]
=============================================================================
