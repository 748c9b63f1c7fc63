----------------------------- MODULE ApiContact -----------------------------
(***************************************************************************)
(* Contacts and notifications: the API classes under src/mediafire_sdk/api/contact and*)
(* notifications, each as the tables that ApiSteps describes.              *)
(***************************************************************************)
EXTENDS ApiSteps, TLC

\* contact/add/v1_1
contact_add_v1_1_Parse == << >>
contact_add_v1_1_Response == [ Response |-> Members({}, {}, {}) ]
contact_add_v1_1_Impl ==
    Impl("SessionToken", "Post", {{}}, {"contact_type", "contact_key", "display_name",
           "first_name", "last_name", "avatar_url", "source_user_id", "email",
           "phone_number", "birthdate", "location", "gender", "website", "group_id"})
contact_add_v1_1_Post ==
    Post(Same({}), Same({"contact_type", "contact_key", "display_name", "first_name",
           "last_name", "email", "birthdate", "location", "gender", "website", "group_id"})
           @@ [avatar |-> "avatar_url", source_uid |-> "source_user_id", phone |->
           "phone_number"])

\* contact/fetch/v0
contact_fetch_v0_Contact == Req(<<"contact_key">>)
contact_fetch_v0_Parse == OptArray("contacts", "Contact")
contact_fetch_v0_Response ==
    [ Response |-> Members({}, {}, {"contacts"})
    , Contact |-> Members({"contact_key"}, {}, {}) ]
contact_fetch_v0_Impl == Impl("SessionToken", "Post", {{}}, {})
contact_fetch_v0_Post == Post(Same({}), Same({}))

\* notifications/get_cache/v0
notifications_get_cache_v0_Notification ==
    Preset(<<"timestamp", "viewable">>) \o Req(<<"actor">>) \o Def(<<"timestamp">>)
    \o Req(<<"message">>) \o Opt(<<"resource">>) \o OptEnum(<<"viewable">>)
notifications_get_cache_v0_Parse ==
    OptArray("notifications", "Notification") \o Req(<<"number_older">>)
notifications_get_cache_v0_Response ==
    [ Response |-> Members({"number_older"}, {}, {"notifications"})
    , Notification |-> Members({"actor", "timestamp", "message", "viewable"}, {"resource"},
                {}) ]
notifications_get_cache_v0_Impl == Impl("SessionToken", "Post", {{}}, {"start", "limit"})
notifications_get_cache_v0_Post == Post(Same({}), Same({"start", "limit"}))

\* notifications/peek_cache/v0
notifications_peek_cache_v0_Parse == Req(<<"total", "unread", "last_timestamp">>)
notifications_peek_cache_v0_Response ==
    [ Response |-> Members({"total", "unread", "last_timestamp"}, {}, {}) ]
notifications_peek_cache_v0_Impl == contact_fetch_v0_Impl
notifications_peek_cache_v0_Post == Post(Same({}), Same({}))

\* The classes of this group by name.
ContactClasses == [
    contact_add_v1_1 |->
        Class([Response |-> contact_add_v1_1_Parse],
              contact_add_v1_1_Response, contact_add_v1_1_Impl, contact_add_v1_1_Post),
    contact_fetch_v0 |->
        Class([Response |-> contact_fetch_v0_Parse,
               Contact |-> contact_fetch_v0_Contact],
              contact_fetch_v0_Response, contact_fetch_v0_Impl, contact_fetch_v0_Post),
    notifications_get_cache_v0 |->
        Class([Response |-> notifications_get_cache_v0_Parse,
               Notification |-> notifications_get_cache_v0_Notification],
              notifications_get_cache_v0_Response, notifications_get_cache_v0_Impl, notifications_get_cache_v0_Post),
    notifications_peek_cache_v0 |->
        Class([Response |-> notifications_peek_cache_v0_Parse],
              notifications_peek_cache_v0_Response, notifications_peek_cache_v0_Impl, notifications_peek_cache_v0_Post) ]
=============================================================================
