--------------------------- MODULE AlertThrottle ---------------------------
(***************************************************************************)
(* The Discord notifier (notifier.rs).  Any task of the process may raise  *)
(* an alert of some kind; each kind goes to a webhook at most once per     *)
(* interval.  A task reads the webhook of the settings, then takes a lock  *)
(* to look up and record the time of the last alert, and posts after it    *)
(* let go of the lock; the owner may change the webhook at any moment.     *)
(* The owner's reports and tests go past the throttle and leave it alone.      *)
(***************************************************************************)
EXTENDS Naturals

CONSTANTS Alerters, Kinds, Webhooks,
          Interval,                                 \* MIN_INTERVAL_SECS
          MaxTime, MaxAlerts, MaxChanges

VARIABLES webhook,    \* of the settings; Disabled when there is none
          lastSent,   \* [kind and webhook -> when the last alert was let through, or Never]
          lock,       \* who holds the mutex of lastSent, or Free
          alert,      \* [Alerters -> the alert it is sending, and where it is with it]
          posted,     \* history: every alert let through, with its time
          clock, alerts, changes

vars == <<webhook, lastSent, lock, alert, posted, clock, alerts, changes>>

Disabled == "disabled"
Free == "free"
Never == MaxTime + 1
NoAlert == [pc |-> "none", kind |-> "none", url |-> Disabled, passed |-> FALSE]

\* send_throttled: the webhook is read first; without one there is nothing to do.
Raise(t, k) ==
  /\ alert[t].pc = "none"
  /\ alerts < MaxAlerts /\ alerts' = alerts + 1
  /\ webhook # Disabled
  /\ alert' = [alert EXCEPT ![t] = [pc |-> "wait", kind |-> k, url |-> webhook, passed |-> FALSE]]
  /\ UNCHANGED <<webhook, lastSent, lock, posted, clock, changes>>

MayEnter_Unlocked == TRUE
MayEnter == lock = Free

\* Under the lock: look the last one up ...
LookUp(t) ==
  LET last == lastSent[<<alert[t].kind, alert[t].url>>]
  IN  /\ alert[t].pc = "wait" /\ MayEnter
      /\ lock' = t
      /\ alert' = [alert EXCEPT ![t].pc = "record",
                                ![t].passed = last = Never \/ clock - last >= Interval]
      /\ UNCHANGED <<webhook, lastSent, posted, clock, alerts, changes>>

\* ... and record this one, whether or not its post will succeed.
Record(t) ==
  LET key == <<alert[t].kind, alert[t].url>>
  IN  /\ alert[t].pc = "record"
      /\ lock' = Free
      /\ IF alert[t].passed
         THEN /\ lastSent' = [lastSent EXCEPT ![key] = clock]
              /\ posted' = posted \cup {[kind |-> key[1], url |-> key[2], by |-> t, at |-> clock]}
              /\ alert' = [alert EXCEPT ![t].pc = "post"]
         ELSE /\ alert' = [alert EXCEPT ![t] = NoAlert]
              /\ UNCHANGED <<lastSent, posted>>
      /\ UNCHANGED <<webhook, clock, alerts, changes>>

\* send_to_discord answers or fails; a failure is logged and no more.
Post(t) ==
  /\ alert[t].pc = "post"
  /\ alert' = [alert EXCEPT ![t] = NoAlert]
  /\ UNCHANGED <<webhook, lastSent, lock, posted, clock, alerts, changes>>

\* update_webhook, delete_webhook.
ChangeWebhook ==
  /\ changes < MaxChanges /\ changes' = changes + 1
  /\ \E u \in (Webhooks \cup {Disabled}) \ {webhook} : webhook' = u
  /\ UNCHANGED <<lastSent, lock, alert, posted, clock, alerts>>

TimePasses ==
  /\ clock < MaxTime /\ clock' = clock + 1
  /\ \A t \in Alerters : alert[t].pc # "record"      \* nothing is awaited under the lock
  /\ UNCHANGED <<webhook, lastSent, lock, alert, posted, alerts, changes>>

Init == /\ webhook \in Webhooks
        /\ lastSent = [key \in Kinds \X Webhooks |-> Never]
        /\ lock = Free
        /\ alert = [t \in Alerters |-> NoAlert]
        /\ posted = {}
        /\ clock = 0 /\ alerts = 0 /\ changes = 0

Next == \/ \E t \in Alerters, k \in Kinds : Raise(t, k)
        \/ \E t \in Alerters : LookUp(t) \/ Record(t) \/ Post(t)
        \/ ChangeWebhook \/ TimePasses
Spec == Init /\ [][Next]_vars

---------------------------------------------------------------------------
TypeOK == /\ webhook \in Webhooks \cup {Disabled}
          /\ lastSent \in [Kinds \X Webhooks -> 0..Never]
          /\ lock \in Alerters \cup {Free}
          /\ \A t \in Alerters : alert[t].pc \in {"none", "wait", "record", "post"}
          /\ clock \in 0..MaxTime

\* However many tasks raise the same alert at once, and though the webhook is changed
\* and changed back meanwhile, a webhook gets one alert of a kind per interval.
OnePerInterval ==
  \A p, q \in posted : p # q /\ p.kind = q.kind /\ p.url = q.url =>
    p.at + Interval <= q.at \/ q.at + Interval <= p.at

=============================================================================
