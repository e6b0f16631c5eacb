-------------------------- MODULE MCComponentsLive --------------------------
(* The values that MCComponentsLive.cfg gives the constants of LiveComponents. *)
EXTENDS LiveComponents, TLC

\* A token file of two entries, one of which is also posted by hand; one sign-in.
Entry(origin, catalog) == [origin |-> origin, catalog |-> catalog]
TokenFile == <<Entry("f1", FALSE), Entry("f2", TRUE)>>
PostedTokens == <<Entry("f1", FALSE), Entry("p1", FALSE)>>

\* One of the plain settings and the webhook.
TwoSettings == <<"atmos_mode", "discord_webhook_url">>

=============================================================================
