----------------------------- MODULE ApiBilling -----------------------------
(***************************************************************************)
(* Billing and plans: the API classes under src/mediafire_sdk/api/billing  *)
(* each as the tables that ApiSteps describes.                             *)
(***************************************************************************)
EXTENDS ApiSteps, TLC

\* billing/cancel_plan/v1_1
billing_cancel_plan_v1_1_Parse ==
    Req(<<"cancel_date", "confirmation">>) \o Opt(<<"last_invoice">>)
billing_cancel_plan_v1_1_Response ==
    [ Response |-> Members({"cancel_date", "confirmation"}, {"last_invoice"}, {}) ]
billing_cancel_plan_v1_1_Impl ==
    Impl("SessionToken", "Post", {{}}, {"comments", "uploading_problems",
           "downloading_problems", "switching_to_other_service",
           "download_speed_insufficient", "out_of_money", "too_expensive",
           "no_longer_needed", "lacking_features", "lacking_service", "cc_expiration"})
billing_cancel_plan_v1_1_Post ==
    Post(Same({}), Same({"comments"}) @@ [x_uploading |-> "uploading_problems",
           x_downloading |-> "downloading_problems", x_switching |->
           "switching_to_other_service", x_speed |-> "download_speed_insufficient",
           x_money_problems |-> "out_of_money", x_too_expensive |-> "too_expensive",
           x_technophobe |-> "no_longer_needed", x_lacking_features |-> "lacking_features",
           x_lacking_service |-> "lacking_service", x_other |-> "cc_expiration"])

\* billing/change_plan/v1_1
billing_change_plan_v1_1_Parse ==
    Opt(<<"next_billing">>) \o Enum(<<"info_only">>)
    \o Req(<<"new_pid", "amount", "interval">>)
billing_change_plan_v1_1_Response ==
    [ Response |-> Members({"info_only", "new_pid", "amount", "interval"}, {"next_billing"},
                {}) ]
billing_change_plan_v1_1_Impl ==
    Impl("SessionToken", "Post", {{"product_id", "info_only"}}, {"subdomain", "company"})
billing_change_plan_v1_1_Post ==
    Post(Same({"product_id", "info_only"}), Same({"subdomain", "company"}))

\* billing/get_invoice/v1_1
billing_get_invoice_v1_1_Product ==
    Preset(<<"is_recurring", "recurring_units", "free_months", "trial", "active",
             "frequency_text", "uses_credits", "reseller_entitlement", "interval", "legacy",
             "base_storage">>)
    \o Req(<<"product_id", "description", "short_description", "initial_amount",
             "initial_units">>) \o OptEnum(<<"is_recurring">>)
    \o Req(<<"recurring_amount">>) \o Def(<<"recurring_units", "free_months">>)
    \o OptEnum(<<"trial", "active">>) \o Def(<<"frequency_text">>)
    \o OptEnum(<<"uses_credits", "reseller_entitlement">>) \o Req(<<"payment_methods">>)
    \o Def(<<"interval">>) \o OptEnum(<<"legacy">>)
    \o Req(<<"product_class", "product_family">>) \o Def(<<"base_storage">>)
billing_get_invoice_v1_1_Parse ==
    Preset(<<"recurring_startdate", "recurring_enddate", "next_bandwidth">>)
    \o Req(<<"invoice_id", "invoice_num", "payment_method", "recurring_status",
             "recurring_profile_id", "created_datetime">>) \o Opt(<<"company_id">>)
    \o Req(<<"product_id", "product_description", "country", "initial_amount",
             "initial_tax", "initial_total", "recurring_amount", "recurring_tax",
             "recurring_total">>)
    \o Def(<<"recurring_startdate", "recurring_enddate", "next_bandwidth">>)
    \o Opt(<<"previous_invoice_id">>) \o Req(<<"promo_code">>)
    \o Struct("product", "Product")
billing_get_invoice_v1_1_Response ==
    [ Response |-> Members({"invoice_id", "invoice_num", "payment_method",
                "recurring_status", "recurring_profile_id", "created_datetime",
                "product_id", "product_description", "country", "initial_amount",
                "initial_tax", "initial_total", "recurring_amount", "recurring_tax",
                "recurring_total", "recurring_startdate", "recurring_enddate",
                "next_bandwidth", "promo_code", "product"}, {"company_id",
                "previous_invoice_id"}, {})
    , Product |-> Members({"product_id", "description", "short_description",
                "initial_amount", "initial_units", "is_recurring", "recurring_amount",
                "recurring_units", "free_months", "trial", "active", "frequency_text",
                "uses_credits", "reseller_entitlement", "payment_methods", "interval",
                "legacy", "product_class", "product_family", "base_storage"}, {}, {}) ]
billing_get_invoice_v1_1_Impl == Impl("SessionToken", "Post", {{}}, {})
billing_get_invoice_v1_1_Post == Post(Same({}), Same({}))

\* billing/get_plans/v1_1
billing_get_plans_v1_1_Plan ==
    Preset(<<"is_recurring", "recurring_units", "frequency_text", "product_class",
             "free_months", "base_storage">>)
    \o Req(<<"product_id", "description", "short_description", "initial_amount",
             "initial_units">>) \o OptEnum(<<"is_recurring">>)
    \o Req(<<"recurring_amount">>)
    \o Def(<<"recurring_units", "frequency_text", "product_class", "free_months",
             "base_storage">>)
billing_get_plans_v1_1_Parse == Array("plans", "Plan")
billing_get_plans_v1_1_Response ==
    [ Response |-> Members({}, {}, {"plans"})
    , Plan |-> Members({"product_id", "description", "short_description", "initial_amount",
                "initial_units", "is_recurring", "recurring_amount", "recurring_units",
                "frequency_text", "product_class", "free_months", "base_storage"}, {}, {}) ]
billing_get_plans_v1_1_Impl == Impl("Tokenless", "Post", {{}}, {"product_id", "family"})
billing_get_plans_v1_1_Post == Post(Same({}), Same({"product_id", "family"}))

\* billing/get_products/v1_1
billing_get_products_v1_1_Product ==
    Preset(<<"is_recurring", "recurring_units", "trial", "active", "frequency_text",
             "uses_credits", "reseller_entitlement", "yearly_only", "legacy",
             "product_class", "product_family", "base_storage">>)
    \o Req(<<"product_id", "description", "short_description", "initial_amount",
             "initial_units">>) \o OptEnum(<<"is_recurring">>)
    \o Req(<<"recurring_amount">>) \o Def(<<"recurring_units">>) \o Req(<<"free_months">>)
    \o OptEnum(<<"trial", "active">>) \o Def(<<"frequency_text">>)
    \o OptEnum(<<"uses_credits">>) \o Def(<<"reseller_entitlement">>)
    \o Req(<<"payment_methods">>) \o OptEnum(<<"yearly_only">>) \o Req(<<"interval">>)
    \o OptEnum(<<"legacy">>) \o Def(<<"product_class", "product_family", "base_storage">>)
billing_get_products_v1_1_Parse == Array("products", "Product")
billing_get_products_v1_1_Response ==
    [ Response |-> Members({}, {}, {"products"})
    , Product |-> Members({"product_id", "description", "short_description",
                "initial_amount", "initial_units", "is_recurring", "recurring_amount",
                "recurring_units", "free_months", "trial", "active", "frequency_text",
                "uses_credits", "reseller_entitlement", "payment_methods", "yearly_only",
                "interval", "legacy", "product_class", "product_family", "base_storage"},
                {}, {}) ]
billing_get_products_v1_1_Impl ==
    Impl("Tokenless", "Post", {{}}, {"active", "legacy", "interval", "recurring",
           "product_class", "product_family", "product_id"})
billing_get_products_v1_1_Post ==
    Post(Same({}), Same({"active", "legacy", "interval", "recurring", "product_class",
           "product_family", "product_id"}))

\* billing/purchase_plan/v1_1
billing_purchase_plan_v1_1_Parse ==
    Preset(<<"created_datetime", "previous_invoice_datetime">>) \o Req(<<"invoice">>)
    \o Def(<<"created_datetime">>) \o Req(<<"total", "product_id", "premium">>)
    \o Def(<<"previous_invoice_datetime">>)
billing_purchase_plan_v1_1_Response ==
    [ Response |-> Members({"invoice", "created_datetime", "total", "product_id", "premium",
                "previous_invoice_datetime"}, {}, {}) ]
billing_purchase_plan_v1_1_Impl ==
    Impl("SessionToken", "Post", {{}}, {"product_id", "payment_method", "first_name_info",
           "last_name_info", "address1_info", "city_info", "zip_info", "state_info",
           "country_info", "region_info", "postal_code_info", "card_number", "card_code",
           "exp_month", "exp_year", "keep_card", "prev_card_code", "subdomain", "company"})
billing_purchase_plan_v1_1_Post ==
    Post(Same({}), Same({"payment_method", "first_name_info", "last_name_info",
           "address1_info", "city_info", "zip_info", "state_info", "country_info",
           "region_info", "postal_code_info", "card_number", "card_code", "exp_month",
           "exp_year", "keep_card", "prev_card_code", "subdomain", "company"}) @@ [pid |->
           "product_id"])

\* The classes of this group by name.
BillingClasses == [
    billing_cancel_plan_v1_1 |->
        Class([Response |-> billing_cancel_plan_v1_1_Parse],
              billing_cancel_plan_v1_1_Response, billing_cancel_plan_v1_1_Impl, billing_cancel_plan_v1_1_Post),
    billing_change_plan_v1_1 |->
        Class([Response |-> billing_change_plan_v1_1_Parse],
              billing_change_plan_v1_1_Response, billing_change_plan_v1_1_Impl, billing_change_plan_v1_1_Post),
    billing_get_invoice_v1_1 |->
        Class([Response |-> billing_get_invoice_v1_1_Parse,
               Product |-> billing_get_invoice_v1_1_Product],
              billing_get_invoice_v1_1_Response, billing_get_invoice_v1_1_Impl, billing_get_invoice_v1_1_Post),
    billing_get_plans_v1_1 |->
        Class([Response |-> billing_get_plans_v1_1_Parse,
               Plan |-> billing_get_plans_v1_1_Plan],
              billing_get_plans_v1_1_Response, billing_get_plans_v1_1_Impl, billing_get_plans_v1_1_Post),
    billing_get_products_v1_1 |->
        Class([Response |-> billing_get_products_v1_1_Parse,
               Product |-> billing_get_products_v1_1_Product],
              billing_get_products_v1_1_Response, billing_get_products_v1_1_Impl, billing_get_products_v1_1_Post),
    billing_purchase_plan_v1_1 |->
        Class([Response |-> billing_purchase_plan_v1_1_Parse],
              billing_purchase_plan_v1_1_Response, billing_purchase_plan_v1_1_Impl, billing_purchase_plan_v1_1_Post) ]
=============================================================================
