------------------------------ MODULE ApiUser -------------------------------
(***************************************************************************)
(* The user: the API classes under src/mediafire_sdk/api/user              *)
(* each as the tables that ApiSteps describes.                             *)
(***************************************************************************)
EXTENDS ApiSteps, TLC

\* user/accept_tos/v1_3
user_accept_tos_v1_3_Parse == << >>
user_accept_tos_v1_3_Response == [ Response |-> Members({}, {}, {}) ]
user_accept_tos_v1_3_Impl == Impl("SessionToken", "Post", {{"acceptance_token"}}, {})
user_accept_tos_v1_3_Post == Post(Same({"acceptance_token"}), Same({}))

\* user/destroy_action_token/v1_0
user_destroy_action_token_v1_0_Parse == << >>
user_destroy_action_token_v1_0_Response == user_accept_tos_v1_3_Response
user_destroy_action_token_v1_0_Impl == Impl("SessionToken", "Post", {{"action_token"}}, {})
user_destroy_action_token_v1_0_Post == Post(Same({"action_token"}), Same({}))

\* user/destroy_action_token/v1_3
user_destroy_action_token_v1_3_Parse == << >>
user_destroy_action_token_v1_3_Response == user_accept_tos_v1_3_Response
user_destroy_action_token_v1_3_Impl == user_destroy_action_token_v1_0_Impl
user_destroy_action_token_v1_3_Post == user_destroy_action_token_v1_0_Post

\* user/fetch_tos/v1_3
user_fetch_tos_v1_3_Parse ==
    Preset(<<"user_accepted_terms">>) \o Req(<<"revision", "terms", "date">>)
    \o OptEnum(<<"user_accepted_terms">>) \o Req(<<"acceptance_token">>)
user_fetch_tos_v1_3_Response ==
    [ Response |-> Members({"revision", "terms", "date", "user_accepted_terms",
                "acceptance_token"}, {}, {}) ]
user_fetch_tos_v1_3_Impl == Impl("SessionToken", "Post", {{}}, {})
user_fetch_tos_v1_3_Post == Post(Same({}), Same({}))

\* user/get_action_token/v1_0
user_get_action_token_v1_0_Parse == Req(<<"action_token">>)
user_get_action_token_v1_0_Response == [ Response |-> Members({"action_token"}, {}, {}) ]
user_get_action_token_v1_0_Impl == Impl("SessionToken", "Post", {{"type"}}, {"lifespan"})
user_get_action_token_v1_0_Post == Post(Same({"type"}), Same({"lifespan"}))

\* user/get_action_token/v1_3
user_get_action_token_v1_3_Parse == Req(<<"action_token">>)
user_get_action_token_v1_3_Response == user_get_action_token_v1_0_Response
user_get_action_token_v1_3_Impl == user_get_action_token_v1_0_Impl
user_get_action_token_v1_3_Post == user_get_action_token_v1_0_Post

\* user/get_avatar/v1_3
user_get_avatar_v1_3_Parse == Req(<<"avatar_url">>)
user_get_avatar_v1_3_Response == [ Response |-> Members({"avatar_url"}, {}, {}) ]
user_get_avatar_v1_3_Impl == user_fetch_tos_v1_3_Impl
user_get_avatar_v1_3_Post == Post(Same({}), Same({}))

\* user/get_info/v0
user_get_info_v0_Parse ==
    Preset(<<"first_name", "last_name", "gender", "birth_date", "created_datetime">>)
    \o Req(<<"ekey", "email">>) \o Def(<<"first_name", "last_name">>)
    \o Req(<<"display_name">>) \o OptEnum(<<"gender">>) \o Def(<<"birth_date">>)
    \o Opt(<<"location", "website">>) \o Enum(<<"account_type">>) \o Req(<<"bandwidth">>)
    \o Def(<<"created_datetime">>) \o Enum(<<"validated">>)
    \o Req(<<"max_upload_size", "max_instant_upload_size">>) \o Opt(<<"tos_accepted">>)
    \o Req(<<"used_storage_size", "base_storage", "bonus_storage", "storage_limit">>)
    \o Enum(<<"storage_limit_exceeded">>) \o Req(<<"options">>)
    \o Opt(<<"facebook_id", "facebook_date_created", "facebook_url", "facebook_name",
             "facebook_firstname", "facebook_lastname", "facebook_hometown",
             "facebook_location", "facebook_i18n", "facebook_timezone">>)
    \o OptEnum(<<"facebook_linked">>)
    \o Opt(<<"twitter_id", "twitter_date_created", "twitter_screen_name", "twitter_name",
             "twitter_i18n">>) \o OptEnum(<<"twitter_linked">>)
user_get_info_v0_Response ==
    [ Response |-> Members({"ekey", "email", "first_name", "last_name", "display_name",
                "gender", "birth_date", "account_type", "bandwidth", "created_datetime",
                "validated", "max_upload_size", "max_instant_upload_size",
                "used_storage_size", "base_storage", "bonus_storage", "storage_limit",
                "storage_limit_exceeded", "options"}, {"location", "website",
                "tos_accepted", "facebook_id", "facebook_date_created", "facebook_url",
                "facebook_name", "facebook_firstname", "facebook_lastname",
                "facebook_hometown", "facebook_location", "facebook_i18n",
                "facebook_timezone", "facebook_linked", "twitter_id",
                "twitter_date_created", "twitter_screen_name", "twitter_name",
                "twitter_i18n", "twitter_linked"}, {}) ]
user_get_info_v0_Impl == user_fetch_tos_v1_3_Impl
user_get_info_v0_Post == Post(Same({}), Same({}))

\* user/get_info/v1_3
user_get_info_v1_3_Facebook ==
    Opt(<<"id", "date_created", "url", "name", "firstname", "lastname", "hometown",
          "location", "i18n", "timezone">>) \o OptEnum(<<"linked">>)
user_get_info_v1_3_Twitter ==
    Opt(<<"id", "date_created", "screen_name", "name", "i18n">>) \o OptEnum(<<"linked">>)
user_get_info_v1_3_Gmail ==
    Opt(<<"id", "created", "email", "url", "name", "first_name", "last_name", "i18n",
          "synced">>) \o OptEnum(<<"linked">>)
user_get_info_v1_3_Parse ==
    Preset(<<"first_name", "last_name", "gender", "birth_date", "created_datetime">>)
    \o Req(<<"ekey", "email">>) \o Def(<<"first_name", "last_name">>)
    \o Req(<<"display_name">>) \o OptEnum(<<"gender">>) \o Def(<<"birth_date">>)
    \o Opt(<<"location", "website">>) \o Enum(<<"account_type">>) \o Req(<<"bandwidth">>)
    \o Def(<<"created_datetime">>) \o Enum(<<"validated">>) \o Opt(<<"tos_accepted">>)
    \o Req(<<"used_storage_size", "base_storage", "bonus_storage", "storage_limit">>)
    \o Enum(<<"storage_limit_exceeded">>) \o Req(<<"options">>)
    \o OptStruct("facebook", "Facebook") \o OptStruct("twitter", "Twitter")
    \o OptStruct("gmail", "Gmail")
user_get_info_v1_3_Response ==
    [ Response |-> Members({"ekey", "email", "first_name", "last_name", "display_name",
                "gender", "birth_date", "account_type", "bandwidth", "created_datetime",
                "validated", "used_storage_size", "base_storage", "bonus_storage",
                "storage_limit", "storage_limit_exceeded", "options"}, {"location",
                "website", "tos_accepted", "facebook", "twitter", "gmail"}, {})
    , Facebook |-> Members({}, {"id", "date_created", "url", "name", "firstname",
                "lastname", "hometown", "location", "i18n", "timezone", "linked"}, {})
    , Twitter |-> Members({}, {"id", "date_created", "screen_name", "name", "i18n",
                "linked"}, {})
    , Gmail |-> Members({}, {"id", "created", "email", "url", "name", "first_name",
                "last_name", "i18n", "synced", "linked"}, {}) ]
user_get_info_v1_3_Impl == user_fetch_tos_v1_3_Impl
user_get_info_v1_3_Post == Post(Same({}), Same({}))

\* user/get_limits/v0
user_get_limits_v0_Parse ==
    Req(<<"storage_base", "storage_bonus", "storage_limit", "storage_used",
          "bandwidth_limit", "bandwidth_used", "collaboration_limit", "collaboration_today",
          "one_time_downloads_limit", "one_time_downloads_today",
          "streaming_bandwidth_limit", "streaming_bandwidth_today", "upload_size_limit">>)
user_get_limits_v0_Response ==
    [ Response |-> Members({"storage_base", "storage_bonus", "storage_limit",
                "storage_used", "bandwidth_limit", "bandwidth_used", "collaboration_limit",
                "collaboration_today", "one_time_downloads_limit",
                "one_time_downloads_today", "streaming_bandwidth_limit",
                "streaming_bandwidth_today", "upload_size_limit"}, {}, {}) ]
user_get_limits_v0_Impl == user_fetch_tos_v1_3_Impl
user_get_limits_v0_Post == Post(Same({}), Same({}))

\* user/get_limits/v1_3
user_get_limits_v1_3_Parse ==
    Preset(<<"storage_base", "storage_bonus", "storage_limit", "storage_used",
             "bandwidth_limit", "bandwidth_used", "collaboration_limit",
             "collaboration_today", "one_time_downloads_limit", "one_time_downloads_today",
             "streaming_bandwidth_limit", "streaming_bandwidth_today",
             "upload_size_limit">>)
    \o Def(<<"storage_base", "storage_bonus", "storage_limit", "storage_used",
             "bandwidth_limit", "bandwidth_used", "collaboration_limit",
             "collaboration_today", "one_time_downloads_limit", "one_time_downloads_today",
             "streaming_bandwidth_limit", "streaming_bandwidth_today",
             "upload_size_limit">>)
user_get_limits_v1_3_Response == user_get_limits_v0_Response
user_get_limits_v1_3_Impl == user_fetch_tos_v1_3_Impl
user_get_limits_v1_3_Post == Post(Same({}), Same({}))

\* user/get_settings/v1_3
user_get_settings_v1_3_Parse ==
    Preset(<<"email_address_validated", "instant_uploads", "show_download_page_me_from_me",
             "show_download_page_me_from_others", "show_download_page_others_from_me",
             "auto_bandwidth", "used_storage_size", "storage_limit",
             "storage_limit_exceeded", "previous_file_versions", "share_link_status",
             "collect_metadata">>)
    \o OptEnum(<<"email_address_validated", "instant_uploads",
                "show_download_page_me_from_me", "show_download_page_me_from_others",
                "show_download_page_others_from_me", "auto_bandwidth">>)
    \o Def(<<"used_storage_size", "storage_limit">>)
    \o OptEnum(<<"storage_limit_exceeded">>) \o Def(<<"previous_file_versions">>)
    \o OptEnum(<<"share_link_status", "collect_metadata">>)
user_get_settings_v1_3_Response ==
    [ Response |-> Members({"email_address_validated", "instant_uploads",
                "show_download_page_me_from_me", "show_download_page_me_from_others",
                "show_download_page_others_from_me", "auto_bandwidth", "used_storage_size",
                "storage_limit", "storage_limit_exceeded", "previous_file_versions",
                "share_link_status", "collect_metadata"}, {}, {}) ]
user_get_settings_v1_3_Impl == user_fetch_tos_v1_3_Impl
user_get_settings_v1_3_Post == Post(Same({}), Same({}))

\* user/link_facebook/v0
user_link_facebook_v0_Parse == << >>
user_link_facebook_v0_Response == user_accept_tos_v1_3_Response
user_link_facebook_v0_Impl == Impl("SessionToken", "Post", {{"access_token"}}, {})
user_link_facebook_v0_Post == Post([fb_access_token |-> "access_token"], Same({}))

\* user/link_facebook/v1_3
user_link_facebook_v1_3_Parse == << >>
user_link_facebook_v1_3_Response == user_accept_tos_v1_3_Response
user_link_facebook_v1_3_Impl == user_link_facebook_v0_Impl
user_link_facebook_v1_3_Post == user_link_facebook_v0_Post

\* user/link_gmail/v1_3
user_link_gmail_v1_3_Parse == << >>
user_link_gmail_v1_3_Response == user_accept_tos_v1_3_Response
user_link_gmail_v1_3_Impl == user_link_facebook_v0_Impl
user_link_gmail_v1_3_Post == Post([gm_access_token |-> "access_token"], Same({}))

\* user/link_twitter/v0
user_link_twitter_v0_Parse == << >>
user_link_twitter_v0_Response == user_accept_tos_v1_3_Response
user_link_twitter_v0_Impl ==
    Impl("SessionToken", "Post", {{"oauth_token", "oauth_token_secret"}}, {})
user_link_twitter_v0_Post ==
    Post([tw_oauth_token |-> "oauth_token", tw_oauth_token_secret |-> "oauth_token_secret"],
           Same({}))

\* user/link_twitter/v1_3
user_link_twitter_v1_3_Parse == << >>
user_link_twitter_v1_3_Response == user_accept_tos_v1_3_Response
user_link_twitter_v1_3_Impl == user_link_twitter_v0_Impl
user_link_twitter_v1_3_Post == user_link_twitter_v0_Post

\* user/set_avatar/v1_3
user_set_avatar_v1_3_Parse == Opt(<<"quickkey", "new_device_revision">>)
user_set_avatar_v1_3_Response ==
    [ Response |-> Members({}, {"quickkey", "new_device_revision"}, {}) ]
user_set_avatar_v1_3_Impl ==
    Impl("SessionToken", "Post", {{}}, {"action", "quickkey", "url"})
user_set_avatar_v1_3_Post ==
    Post(Same({}), Same({"action", "url"}) @@ [quick_key |-> "quickkey"])

\* user/set_settings/v1_3
user_set_settings_v1_3_Parse == << >>
user_set_settings_v1_3_Response == user_accept_tos_v1_3_Response
user_set_settings_v1_3_Impl ==
    Impl("SessionToken", "Post", {{}}, {"previous_file_versions",
           "default_share_link_status", "collect_metadata"})
user_set_settings_v1_3_Post ==
    Post(Same({}), Same({"previous_file_versions", "default_share_link_status",
           "collect_metadata"}))

\* user/unlink_facebook/v0
user_unlink_facebook_v0_Parse == << >>
user_unlink_facebook_v0_Response == user_accept_tos_v1_3_Response
user_unlink_facebook_v0_Impl == user_fetch_tos_v1_3_Impl
user_unlink_facebook_v0_Post == Post(Same({}), Same({}))

\* user/unlink_facebook/v1_3
user_unlink_facebook_v1_3_Parse == << >>
user_unlink_facebook_v1_3_Response == user_accept_tos_v1_3_Response
user_unlink_facebook_v1_3_Impl == user_fetch_tos_v1_3_Impl
user_unlink_facebook_v1_3_Post == Post(Same({}), Same({}))

\* user/unlink_twitter/v0
user_unlink_twitter_v0_Parse == << >>
user_unlink_twitter_v0_Response == user_accept_tos_v1_3_Response
user_unlink_twitter_v0_Impl == user_fetch_tos_v1_3_Impl
user_unlink_twitter_v0_Post == Post(Same({}), Same({}))

\* user/unlink_twitter/v1_3
user_unlink_twitter_v1_3_Parse == << >>
user_unlink_twitter_v1_3_Response == user_accept_tos_v1_3_Response
user_unlink_twitter_v1_3_Impl == user_fetch_tos_v1_3_Impl
user_unlink_twitter_v1_3_Post == Post(Same({}), Same({}))

\* user/update/v1_3
user_update_v1_3_Parse == << >>
user_update_v1_3_Response == user_accept_tos_v1_3_Response
user_update_v1_3_Impl ==
    Impl("SessionToken", "Post", {{}}, {"current_password", "subdomain", "company_name",
           "email", "password", "first_name", "last_name", "display_name", "birth_date",
           "gender", "website", "location", "receive_newsletter", "primary_usage",
           "timezone"})
user_update_v1_3_Post ==
    Post(Same({}), Same({"current_password", "subdomain", "company_name", "email",
           "password", "first_name", "last_name", "display_name", "birth_date", "gender",
           "website", "location", "receive_newsletter", "primary_usage", "timezone"}))

\* user/user_register/v0
user_user_register_v0_Parse ==
    Req(<<"email", "created_datetime", "pkey">>) \o Opt(<<"temporary_password">>)
user_user_register_v0_Response ==
    [ Response |-> Members({"email", "created_datetime", "pkey"}, {"temporary_password"},
                {}) ]
user_user_register_v0_Impl ==
    Impl("Tokenless", "Post", {{"application_id"}}, {"email", "password", "fb_access_token",
           "first_name", "last_name", "display_name"})
user_user_register_v0_Post ==
    Post(Same({"application_id"}), Same({"email", "password", "fb_access_token",
           "first_name", "last_name", "display_name"}))

\* user/user_register/v1_3
user_user_register_v1_3_Parse == user_user_register_v0_Parse
user_user_register_v1_3_Response == user_user_register_v0_Response
user_user_register_v1_3_Impl == user_user_register_v0_Impl
user_user_register_v1_3_Post == user_user_register_v0_Post

\* The classes of this group by name.
UserClasses == [
    user_accept_tos_v1_3 |->
        Class([Response |-> user_accept_tos_v1_3_Parse],
              user_accept_tos_v1_3_Response, user_accept_tos_v1_3_Impl, user_accept_tos_v1_3_Post),
    user_destroy_action_token_v1_0 |->
        Class([Response |-> user_destroy_action_token_v1_0_Parse],
              user_destroy_action_token_v1_0_Response, user_destroy_action_token_v1_0_Impl, user_destroy_action_token_v1_0_Post),
    user_destroy_action_token_v1_3 |->
        Class([Response |-> user_destroy_action_token_v1_3_Parse],
              user_destroy_action_token_v1_3_Response, user_destroy_action_token_v1_3_Impl, user_destroy_action_token_v1_3_Post),
    user_fetch_tos_v1_3 |->
        Class([Response |-> user_fetch_tos_v1_3_Parse],
              user_fetch_tos_v1_3_Response, user_fetch_tos_v1_3_Impl, user_fetch_tos_v1_3_Post),
    user_get_action_token_v1_0 |->
        Class([Response |-> user_get_action_token_v1_0_Parse],
              user_get_action_token_v1_0_Response, user_get_action_token_v1_0_Impl, user_get_action_token_v1_0_Post),
    user_get_action_token_v1_3 |->
        Class([Response |-> user_get_action_token_v1_3_Parse],
              user_get_action_token_v1_3_Response, user_get_action_token_v1_3_Impl, user_get_action_token_v1_3_Post),
    user_get_avatar_v1_3 |->
        Class([Response |-> user_get_avatar_v1_3_Parse],
              user_get_avatar_v1_3_Response, user_get_avatar_v1_3_Impl, user_get_avatar_v1_3_Post),
    user_get_info_v0 |->
        Class([Response |-> user_get_info_v0_Parse],
              user_get_info_v0_Response, user_get_info_v0_Impl, user_get_info_v0_Post),
    user_get_info_v1_3 |->
        Class([Response |-> user_get_info_v1_3_Parse,
               Facebook |-> user_get_info_v1_3_Facebook,
               Twitter |-> user_get_info_v1_3_Twitter,
               Gmail |-> user_get_info_v1_3_Gmail],
              user_get_info_v1_3_Response, user_get_info_v1_3_Impl, user_get_info_v1_3_Post),
    user_get_limits_v0 |->
        Class([Response |-> user_get_limits_v0_Parse],
              user_get_limits_v0_Response, user_get_limits_v0_Impl, user_get_limits_v0_Post),
    user_get_limits_v1_3 |->
        Class([Response |-> user_get_limits_v1_3_Parse],
              user_get_limits_v1_3_Response, user_get_limits_v1_3_Impl, user_get_limits_v1_3_Post),
    user_get_settings_v1_3 |->
        Class([Response |-> user_get_settings_v1_3_Parse],
              user_get_settings_v1_3_Response, user_get_settings_v1_3_Impl, user_get_settings_v1_3_Post),
    user_link_facebook_v0 |->
        Class([Response |-> user_link_facebook_v0_Parse],
              user_link_facebook_v0_Response, user_link_facebook_v0_Impl, user_link_facebook_v0_Post),
    user_link_facebook_v1_3 |->
        Class([Response |-> user_link_facebook_v1_3_Parse],
              user_link_facebook_v1_3_Response, user_link_facebook_v1_3_Impl, user_link_facebook_v1_3_Post),
    user_link_gmail_v1_3 |->
        Class([Response |-> user_link_gmail_v1_3_Parse],
              user_link_gmail_v1_3_Response, user_link_gmail_v1_3_Impl, user_link_gmail_v1_3_Post),
    user_link_twitter_v0 |->
        Class([Response |-> user_link_twitter_v0_Parse],
              user_link_twitter_v0_Response, user_link_twitter_v0_Impl, user_link_twitter_v0_Post),
    user_link_twitter_v1_3 |->
        Class([Response |-> user_link_twitter_v1_3_Parse],
              user_link_twitter_v1_3_Response, user_link_twitter_v1_3_Impl, user_link_twitter_v1_3_Post),
    user_set_avatar_v1_3 |->
        Class([Response |-> user_set_avatar_v1_3_Parse],
              user_set_avatar_v1_3_Response, user_set_avatar_v1_3_Impl, user_set_avatar_v1_3_Post),
    user_set_settings_v1_3 |->
        Class([Response |-> user_set_settings_v1_3_Parse],
              user_set_settings_v1_3_Response, user_set_settings_v1_3_Impl, user_set_settings_v1_3_Post),
    user_unlink_facebook_v0 |->
        Class([Response |-> user_unlink_facebook_v0_Parse],
              user_unlink_facebook_v0_Response, user_unlink_facebook_v0_Impl, user_unlink_facebook_v0_Post),
    user_unlink_facebook_v1_3 |->
        Class([Response |-> user_unlink_facebook_v1_3_Parse],
              user_unlink_facebook_v1_3_Response, user_unlink_facebook_v1_3_Impl, user_unlink_facebook_v1_3_Post),
    user_unlink_twitter_v0 |->
        Class([Response |-> user_unlink_twitter_v0_Parse],
              user_unlink_twitter_v0_Response, user_unlink_twitter_v0_Impl, user_unlink_twitter_v0_Post),
    user_unlink_twitter_v1_3 |->
        Class([Response |-> user_unlink_twitter_v1_3_Parse],
              user_unlink_twitter_v1_3_Response, user_unlink_twitter_v1_3_Impl, user_unlink_twitter_v1_3_Post),
    user_update_v1_3 |->
        Class([Response |-> user_update_v1_3_Parse],
              user_update_v1_3_Response, user_update_v1_3_Impl, user_update_v1_3_Post),
    user_user_register_v0 |->
        Class([Response |-> user_user_register_v0_Parse],
              user_user_register_v0_Response, user_user_register_v0_Impl, user_user_register_v0_Post),
    user_user_register_v1_3 |->
        Class([Response |-> user_user_register_v1_3_Parse],
              user_user_register_v1_3_Response, user_user_register_v1_3_Impl, user_user_register_v1_3_Post) ]
=============================================================================
