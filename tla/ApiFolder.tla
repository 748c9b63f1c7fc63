----------------------------- MODULE ApiFolder ------------------------------
(***************************************************************************)
(* Folders: the API classes under src/mediafire_sdk/api/folder             *)
(* each as the tables that ApiSteps describes.                             *)
(***************************************************************************)
EXTENDS ApiSteps, TLC

\* folder/copy/v0
folder_copy_v0_Parse ==
    Preset(<<"asynchronous">>) \o OptEnum(<<"asynchronous">>) \o Req(<<"device_revision">>)
    \o Front(<<"folderkey">>)
folder_copy_v0_Response ==
    [ Response |-> Members({"asynchronous", "device_revision", "folderkey"}, {}, {}) ]
folder_copy_v0_Impl ==
    Impl("SessionToken", "Post", {{"folderkey", "target_parent_folderkey"}}, {})
folder_copy_v0_Post ==
    Post([folder_key_src |-> "folderkey", folder_key_dst |-> "target_parent_folderkey"],
           Same({}))

\* folder/create/v0
folder_create_v0_Parse ==
    Req(<<"folderkey", "uploadkey", "name", "created_datetime">>) \o Enum(<<"privacy">>)
    \o Req(<<"revision">>)
folder_create_v0_Response ==
    [ Response |-> Members({"folderkey", "uploadkey", "name", "created_datetime", "privacy",
                "revision"}, {}, {}) ]
folder_create_v0_Impl ==
    Impl("SessionToken", "Post", {{"foldername"}}, {"parent_folderkey", "mtime",
           "rename_on_name_collision"})
folder_create_v0_Post ==
    Post(Same({"foldername"}), Same({"mtime"}) @@ [parent_key |-> "parent_folderkey",
           allow_duplicate_name |-> "rename_on_name_collision"])

\* folder/folder_delete/v0
folder_folder_delete_v0_Parse ==
    Preset(<<"asynchronous">>) \o OptEnum(<<"asynchronous">>) \o Req(<<"device_revision">>)
folder_folder_delete_v0_Response ==
    [ Response |-> Members({"asynchronous", "device_revision"}, {}, {}) ]
folder_folder_delete_v0_Impl == Impl("SessionToken", "Post", {{"folderkeys"}}, {})
folder_folder_delete_v0_Post == Post([folder_key |-> "folderkeys"], Same({}))

\* folder/get_content/v0
folder_get_content_v0_Links ==
    Opt(<<"direct_download", "edit", "normal_download", "one_time_download", "view">>)
folder_get_content_v0_Permissions ==
    Req(<<"value">>) \o Enum(<<"explicit_share", "read_permission", "write_permission">>)
folder_get_content_v0_File ==
    Preset(<<"deleted_datetime", "mimetype", "shared_by_user", "shared_with_user">>)
    \o Req(<<"created_datetime">>) \o Def(<<"deleted_datetime">>) \o Opt(<<"description">>)
    \o Req(<<"download_count", "filename", "filesize", "filetype", "flag", "hash">>)
    \o Struct("links", "Links") \o Def(<<"mimetype">>) \o Enum(<<"password_protected">>)
    \o OptStruct("permissions", "Permissions") \o Enum(<<"privacy">>)
    \o Req(<<"quickkey", "revision">>) \o OptEnum(<<"shared_by_user", "shared_with_user">>)
    \o Req(<<"views">>)
folder_get_content_v0_Folder ==
    Preset(<<"deleted_datetime", "shared_by_user", "shared_with_user">>)
    \o Req(<<"created_datetime">>) \o Def(<<"deleted_datetime">>) \o Opt(<<"description">>)
    \o Req(<<"file_count">>) \o Enum(<<"filedrop">>)
    \o Req(<<"flag", "folder_count", "folderkey", "name">>)
    \o OptStruct("permissions", "Permissions") \o Enum(<<"privacy">>) \o Req(<<"revision">>)
    \o OptEnum(<<"shared_by_user", "shared_with_user">>)
    \o Opt(<<"tags", "total_files", "total_folders", "total_size">>)
folder_get_content_v0_Parse ==
    Req(<<"chunk_size">>) \o Enum(<<"content_type">>) \o Req(<<"chunk_number">>)
    \o OptArray("files", "File") \o OptArray("folders", "Folder")
folder_get_content_v0_Response ==
    [ Response |-> Members({"chunk_size", "content_type", "chunk_number"}, {}, {"files",
                "folders"})
    , Links |-> Members({}, {"direct_download", "edit", "normal_download",
                "one_time_download", "view"}, {})
    , Permissions |-> Members({"value", "explicit_share", "read_permission",
                "write_permission"}, {}, {})
    , File |-> Members({"created_datetime", "deleted_datetime", "download_count",
                "filename", "filesize", "filetype", "flag", "hash", "links", "mimetype",
                "password_protected", "privacy", "quickkey", "revision", "shared_by_user",
                "shared_with_user", "views"}, {"description", "permissions"}, {})
    , Folder |-> Members({"created_datetime", "deleted_datetime", "file_count", "filedrop",
                "flag", "folder_count", "folderkey", "name", "privacy", "revision",
                "shared_by_user", "shared_with_user"}, {"description", "permissions",
                "tags", "total_files", "total_folders", "total_size"}, {}) ]
folder_get_content_v0_Impl ==
    Impl("SessionToken", "Post", {{"folder_key", "chunk_number", "content_type"}},
           {"device_id", "order_by", "order_direction", "filter", "details"})
folder_get_content_v0_Post ==
    Post(Same({"folder_key", "content_type"}) @@ [chunk |-> "chunk_number"],
           Same({"device_id", "order_by", "order_direction", "filter", "details"}))

\* folder/get_content/v1_0
folder_get_content_v1_0_Links == folder_get_content_v0_Links
folder_get_content_v1_0_Permissions == folder_get_content_v0_Permissions
folder_get_content_v1_0_File == folder_get_content_v0_File
folder_get_content_v1_0_Folder == folder_get_content_v0_Folder
folder_get_content_v1_0_Parse == folder_get_content_v0_Parse
folder_get_content_v1_0_Response == folder_get_content_v0_Response
folder_get_content_v1_0_Impl == folder_get_content_v0_Impl
folder_get_content_v1_0_Post == folder_get_content_v0_Post

\* folder/get_content/v1_2
folder_get_content_v1_2_Links == folder_get_content_v0_Links
folder_get_content_v1_2_Permissions == folder_get_content_v0_Permissions
folder_get_content_v1_2_File == folder_get_content_v0_File
folder_get_content_v1_2_Folder == folder_get_content_v0_Folder
folder_get_content_v1_2_Parse ==
    Req(<<"chunk_size">>) \o Enum(<<"content_type">>) \o Req(<<"chunk_number">>)
    \o Enum(<<"chunks_remaining">>) \o OptArray("files", "File")
    \o OptArray("folders", "Folder")
folder_get_content_v1_2_Response ==
    [ Response |-> Members({"chunk_size", "content_type", "chunk_number",
                "chunks_remaining"}, {}, {"files", "folders"})
    , Links |-> Members({}, {"direct_download", "edit", "normal_download",
                "one_time_download", "view"}, {})
    , Permissions |-> Members({"value", "explicit_share", "read_permission",
                "write_permission"}, {}, {})
    , File |-> Members({"created_datetime", "deleted_datetime", "download_count",
                "filename", "filesize", "filetype", "flag", "hash", "links", "mimetype",
                "password_protected", "privacy", "quickkey", "revision", "shared_by_user",
                "shared_with_user", "views"}, {"description", "permissions"}, {})
    , Folder |-> Members({"created_datetime", "deleted_datetime", "file_count", "filedrop",
                "flag", "folder_count", "folderkey", "name", "privacy", "revision",
                "shared_by_user", "shared_with_user"}, {"description", "permissions",
                "tags", "total_files", "total_folders", "total_size"}, {}) ]
folder_get_content_v1_2_Impl ==
    Impl("SessionToken", "Post", {{"folder_key", "chunk_number", "content_type"}},
           {"device_id", "order_by", "order_direction", "filter", "details", "chunk_size"})
folder_get_content_v1_2_Post ==
    Post(Same({"folder_key", "content_type"}) @@ [chunk |-> "chunk_number"],
           Same({"device_id", "order_by", "order_direction", "filter", "details",
           "chunk_size"}))

\* folder/get_info/v0
folder_get_info_v0_Permissions == folder_get_content_v0_Permissions
folder_get_info_v0_Parse ==
    Preset(<<"created_datetime", "deleted_datetime", "shared_by_user">>)
    \o Req(<<"folderkey", "name">>) \o Opt(<<"description">>)
    \o Def(<<"created_datetime", "deleted_datetime">>)
    \o Opt(<<"parent_folderkey", "custom_url">>) \o OptEnum(<<"filedrop">>)
    \o Req(<<"file_count", "folder_count">>)
    \o Opt(<<"size", "total_folders", "total_files", "total_size">>)
    \o OptEnum(<<"shared_by_user">>) \o OptStruct("permissions", "Permissions")
    \o Opt(<<"owner_name", "avatar">>) \o Req(<<"flag", "revision">>)
folder_get_info_v0_Response ==
    [ Response |-> Members({"folderkey", "name", "created_datetime", "deleted_datetime",
                "file_count", "folder_count", "shared_by_user", "flag", "revision"},
                {"description", "parent_folderkey", "custom_url", "filedrop", "size",
                "total_folders", "total_files", "total_size", "permissions", "owner_name",
                "avatar"}, {})
    , Permissions |-> Members({"value", "explicit_share", "read_permission",
                "write_permission"}, {}, {}) ]
folder_get_info_v0_Impl ==
    Impl("SessionToken", "Post", {{"folderkey"}}, {"details", "device_id"})
folder_get_info_v0_Post ==
    Post([folder_key |-> "folderkey"], Same({"details", "device_id"}))

\* folder/move/v0
folder_move_v0_Parse ==
    Preset(<<"asynchronous">>) \o OptEnum(<<"asynchronous">>) \o Opt(<<"device_revision">>)
folder_move_v0_Response ==
    [ Response |-> Members({"asynchronous"}, {"device_revision"}, {}) ]
folder_move_v0_Impl == folder_copy_v0_Impl
folder_move_v0_Post == folder_copy_v0_Post

\* folder/update/v0
folder_update_v0_Parse == folder_move_v0_Parse
folder_update_v0_Response == folder_move_v0_Response
folder_update_v0_Impl ==
    Impl("SessionToken", "Post", {{"folderkey"}}, {"foldername", "description", "privacy",
           "privacy_recursive", "mtime"})
folder_update_v0_Post ==
    Post([folder_key |-> "folderkey"], Same({"foldername", "description", "privacy",
           "privacy_recursive", "mtime"}))

\* The classes of this group by name.
FolderClasses == [
    folder_copy_v0 |->
        Class([Response |-> folder_copy_v0_Parse],
              folder_copy_v0_Response, folder_copy_v0_Impl, folder_copy_v0_Post),
    folder_create_v0 |->
        Class([Response |-> folder_create_v0_Parse],
              folder_create_v0_Response, folder_create_v0_Impl, folder_create_v0_Post),
    folder_folder_delete_v0 |->
        Class([Response |-> folder_folder_delete_v0_Parse],
              folder_folder_delete_v0_Response, folder_folder_delete_v0_Impl, folder_folder_delete_v0_Post),
    folder_get_content_v0 |->
        Class([Response |-> folder_get_content_v0_Parse,
               Links |-> folder_get_content_v0_Links,
               Permissions |-> folder_get_content_v0_Permissions,
               File |-> folder_get_content_v0_File,
               Folder |-> folder_get_content_v0_Folder],
              folder_get_content_v0_Response, folder_get_content_v0_Impl, folder_get_content_v0_Post),
    folder_get_content_v1_0 |->
        Class([Response |-> folder_get_content_v1_0_Parse,
               Links |-> folder_get_content_v1_0_Links,
               Permissions |-> folder_get_content_v1_0_Permissions,
               File |-> folder_get_content_v1_0_File,
               Folder |-> folder_get_content_v1_0_Folder],
              folder_get_content_v1_0_Response, folder_get_content_v1_0_Impl, folder_get_content_v1_0_Post),
    folder_get_content_v1_2 |->
        Class([Response |-> folder_get_content_v1_2_Parse,
               Links |-> folder_get_content_v1_2_Links,
               Permissions |-> folder_get_content_v1_2_Permissions,
               File |-> folder_get_content_v1_2_File,
               Folder |-> folder_get_content_v1_2_Folder],
              folder_get_content_v1_2_Response, folder_get_content_v1_2_Impl, folder_get_content_v1_2_Post),
    folder_get_info_v0 |->
        Class([Response |-> folder_get_info_v0_Parse,
               Permissions |-> folder_get_info_v0_Permissions],
              folder_get_info_v0_Response, folder_get_info_v0_Impl, folder_get_info_v0_Post),
    folder_move_v0 |->
        Class([Response |-> folder_move_v0_Parse],
              folder_move_v0_Response, folder_move_v0_Impl, folder_move_v0_Post),
    folder_update_v0 |->
        Class([Response |-> folder_update_v0_Parse],
              folder_update_v0_Response, folder_update_v0_Impl, folder_update_v0_Post) ]
=============================================================================
