------------------------------- MODULE MCSettings -------------------------------
(* A small instance of Settings for TLC: eight of the page's fields. *)
EXTENDS Settings, TLC

CONSTANTS b1, b2

Symmetric == Permutations({b1, b2})

MCFieldList == <<"IMAP_PORT", "IMAP_USE_SSL", "IMAP_USE_STARTTLS", "EMAIL_PASSWORD",
                 "IMAP_STARTUP_EMAIL_LIMIT", "TRUSTED_SENDERS", "NOTIFICATION_EMAIL",
                 "DASHBOARD_ADMIN_PASSWORD">>

MCKind == "IMAP_PORT" :> "number" @@ "IMAP_STARTUP_EMAIL_LIMIT" :> "number"
          @@ "IMAP_USE_SSL" :> "bool" @@ "IMAP_USE_STARTTLS" :> "bool"
          @@ "TRUSTED_SENDERS" :> "text" @@ "NOTIFICATION_EMAIL" :> "text"
          @@ "EMAIL_PASSWORD" :> "secret" @@ "DASHBOARD_ADMIN_PASSWORD" :> "secret"

MCDefault == "IMAP_USE_SSL" :> "on" @@ "IMAP_USE_STARTTLS" :> "off"
             @@ "IMAP_STARTUP_EMAIL_LIMIT" :> "10" @@ [k \in Fields |-> ""]

MCLegacy == [k \in Fields |-> IF k = "TRUSTED_SENDERS" THEN "TRUSTED_SENDER" ELSE k]

MCTyped == "IMAP_PORT" :> {"143", "70000"} @@ "IMAP_STARTUP_EMAIL_LIMIT" :> {"20", "0"}
           @@ "TRUSTED_SENDERS" :> {"soc"} @@ "NOTIFICATION_EMAIL" :> {"a,b", ","}
           @@ "EMAIL_PASSWORD" :> {"new"} @@ "DASHBOARD_ADMIN_PASSWORD" :> {"new", ""}

\* parse_notification_emails joins the addresses again; "," holds none.
MCStored(k, v) ==
    IF k # "NOTIFICATION_EMAIL" THEN v
    ELSE CASE v = "a,b" -> "a, b" [] v = "," -> Blank [] OTHER -> v

\* A limit that is no positive number falls back to the default.
MCParsed(k, v) ==
    IF k = "IMAP_STARTUP_EMAIL_LIMIT" /\ v \notin {"10", "20"} THEN "10" ELSE MCStored(k, v)

MCMalformed == "IMAP_STARTUP_EMAIL_LIMIT" :> {"0", "many"} @@ [k \in DOMAIN Typed |-> {}]

MCUnusable == "IMAP_PORT" :> {"70000", Blank} @@ "DASHBOARD_ADMIN_PASSWORD" :> {}
              @@ "IMAP_STARTUP_EMAIL_LIMIT" :> {} @@ [k \in DOMAIN Typed |-> {Blank}]

Line(k, v) == [key |-> k, value |-> v]
Comment    == Line(NoKey, "comment")

\* The boxes at their defaults and the older key for the senders; a key that occurs
\* twice, and a limit that is no number; a box written in another way, and a limit
\* that is blank.
MCInitial ==
    {<<Comment, Line("IMAP_PORT", "993"), Line("EMAIL_PASSWORD", "old"),
       Line("TRUSTED_SENDER", "alerts"), Line("NOTIFICATION_EMAIL", "ops"),
       Line("DATABASE_PATH", "db")>>,
     <<Line("IMAP_PORT", "143"), Line("EMAIL_PASSWORD", "old"), Comment,
       Line("IMAP_STARTUP_EMAIL_LIMIT", "many"), Line("TRUSTED_SENDERS", "alerts"),
       Line("NOTIFICATION_EMAIL", "ops"), Line("IMAP_PORT", "993"), EmptyLine>>,
     <<Line("IMAP_USE_SSL", "yes"), Line("TRUSTED_SENDERS", "alerts"),
       Line("IMAP_PORT", "993"), Line("EMAIL_PASSWORD", "old"),
       Line("IMAP_STARTUP_EMAIL_LIMIT", Blank), Line("NOTIFICATION_EMAIL", "a,b")>>}
===============================================================================
