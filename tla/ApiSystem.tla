----------------------------- MODULE ApiSystem ------------------------------
(***************************************************************************)
(* What the server tells about itself: the API classes under src/mediafire_sdk/api/system*)
(* each as the tables that ApiSteps describes.                             *)
(***************************************************************************)
EXTENDS ApiSteps, TLC

\* system/get_editable_media/v0
system_get_editable_media_v0_Parse == List(<<"editable_extensions">>)
system_get_editable_media_v0_Response ==
    [ Response |-> Members({}, {}, {"editable_extensions"}) ]
system_get_editable_media_v0_Impl == Impl("Tokenless", "Get", {{}}, {})
system_get_editable_media_v0_Post == Post(Same({}), Same({}))

\* system/get_info/v0
system_get_info_v0_ImageSize == Req(<<"width", "height", "thumbnail_designation">>)
system_get_info_v0_TermsOfService == Req(<<"revision", "terms", "date">>)
system_get_info_v0_Parse ==
    Req(<<"current_api_version", "timezone", "timezone_offset">>)
    \o List(<<"viewable_extensions", "editable_extensions">>)
    \o Array("image_sizes", "ImageSize") \o Struct("terms_of_service", "TermsOfService")
    \o Req(<<"max_keys", "max_objects", "max_image_size">>)
system_get_info_v0_Response ==
    [ Response |-> Members({"current_api_version", "timezone", "timezone_offset",
                "terms_of_service", "max_keys", "max_objects", "max_image_size"}, {},
                {"viewable_extensions", "editable_extensions", "image_sizes"})
    , ImageSize |-> Members({"width", "height", "thumbnail_designation"}, {}, {})
    , TermsOfService |-> Members({"revision", "terms", "date"}, {}, {}) ]
system_get_info_v0_Impl == system_get_editable_media_v0_Impl
system_get_info_v0_Post == system_get_editable_media_v0_Post

\* system/get_limits/v0
system_get_limits_v0_Parse ==
    Req(<<"max_objects", "max_keys", "max_image_size", "zip_max_filesize",
          "zip_max_total_filesize", "folder_content_chunk_size", "folder_depth_limit",
          "limit_search_results", "daily_shares_limit", "device_changes_list_limit">>)
system_get_limits_v0_Response ==
    [ Response |-> Members({"max_objects", "max_keys", "max_image_size", "zip_max_filesize",
                "zip_max_total_filesize", "folder_content_chunk_size", "folder_depth_limit",
                "limit_search_results", "daily_shares_limit", "device_changes_list_limit"},
                {}, {}) ]
system_get_limits_v0_Impl == system_get_editable_media_v0_Impl
system_get_limits_v0_Post == system_get_editable_media_v0_Post

\* system/get_mime_types/v0
system_get_mime_types_v0_MimeType ==
    Req(<<"mimetype", "extension">>)
    \o OptEnum(<<"category", "view_system", "edit_system">>)
system_get_mime_types_v0_Parse == Array("mimetypes", "MimeType")
system_get_mime_types_v0_Response ==
    [ Response |-> Members({}, {}, {"mimetypes"})
    , MimeType |-> Members({"mimetype", "extension"}, {"category", "view_system",
                "edit_system"}, {}) ]
system_get_mime_types_v0_Impl == system_get_editable_media_v0_Impl
system_get_mime_types_v0_Post == system_get_editable_media_v0_Post

\* system/get_status/v0
system_get_status_v0_Parse == Req(<<"database", "memcache">>)
system_get_status_v0_Response == [ Response |-> Members({"database", "memcache"}, {}, {}) ]
system_get_status_v0_Impl == system_get_editable_media_v0_Impl
system_get_status_v0_Post == system_get_editable_media_v0_Post

\* system/get_supported_media/v0
system_get_supported_media_v0_Parse == List(<<"viewable_extensions">>)
system_get_supported_media_v0_Response ==
    [ Response |-> Members({}, {}, {"viewable_extensions"}) ]
system_get_supported_media_v0_Impl == system_get_editable_media_v0_Impl
system_get_supported_media_v0_Post == system_get_editable_media_v0_Post

\* system/get_version/v0
system_get_version_v0_Parse == Req(<<"current_api_version">>)
system_get_version_v0_Response == [ Response |-> Members({"current_api_version"}, {}, {}) ]
system_get_version_v0_Impl == system_get_editable_media_v0_Impl
system_get_version_v0_Post == system_get_editable_media_v0_Post

\* The classes of this group by name.
SystemClasses == [
    system_get_editable_media_v0 |->
        Class([Response |-> system_get_editable_media_v0_Parse],
              system_get_editable_media_v0_Response, system_get_editable_media_v0_Impl, system_get_editable_media_v0_Post),
    system_get_info_v0 |->
        Class([Response |-> system_get_info_v0_Parse,
               ImageSize |-> system_get_info_v0_ImageSize,
               TermsOfService |-> system_get_info_v0_TermsOfService],
              system_get_info_v0_Response, system_get_info_v0_Impl, system_get_info_v0_Post),
    system_get_limits_v0 |->
        Class([Response |-> system_get_limits_v0_Parse],
              system_get_limits_v0_Response, system_get_limits_v0_Impl, system_get_limits_v0_Post),
    system_get_mime_types_v0 |->
        Class([Response |-> system_get_mime_types_v0_Parse,
               MimeType |-> system_get_mime_types_v0_MimeType],
              system_get_mime_types_v0_Response, system_get_mime_types_v0_Impl, system_get_mime_types_v0_Post),
    system_get_status_v0 |->
        Class([Response |-> system_get_status_v0_Parse],
              system_get_status_v0_Response, system_get_status_v0_Impl, system_get_status_v0_Post),
    system_get_supported_media_v0 |->
        Class([Response |-> system_get_supported_media_v0_Parse],
              system_get_supported_media_v0_Response, system_get_supported_media_v0_Impl, system_get_supported_media_v0_Post),
    system_get_version_v0 |->
        Class([Response |-> system_get_version_v0_Parse],
              system_get_version_v0_Response, system_get_version_v0_Impl, system_get_version_v0_Post) ]
=============================================================================
