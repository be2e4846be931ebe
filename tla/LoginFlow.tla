------------------------------ MODULE LoginFlow ------------------------------
(***************************************************************************)
(* The config flow (config_flow.py) over the data-center routing           *)
(* (region.py) and the login calls of api.py: setup and reauthentication,  *)
(* each a credentials form, a probe of the data centers, a code sent by    *)
(* mail, and the entry that is stored.  "pc" is the form shown, or the     *)
(* cloud call awaited; every call may fail with a Tuya code or for want of *)
(* a network.  One flow at a time, and any number one after the other.     *)
(* The cloud is external: each account lives in one data center, gateways  *)
(* accept the login of any account and name its own data center.           *)
(***************************************************************************)
EXTENDS Sequences, CameraDiscovery

CONSTANTS Centers, ProbeOrder,   \* the data centers, and PROBE_ORDER
          Countries, Routing,    \* COUNTRY_ROUTING: the center, or None if unknown
          Accounts, Home, Gateways,
          None

ASSUME LoginAssumption ==
  /\ ProbeOrder \in Seq(Centers) /\ Centers = {ProbeOrder[i] : i \in DOMAIN ProbeOrder}
  /\ \A i, j \in DOMAIN ProbeOrder : ProbeOrder[i] = ProbeOrder[j] => i = j
  /\ Routing \in [Countries -> Centers \cup {None}] /\ None \notin Centers
  /\ Home \in [Accounts -> Centers] /\ Gateways \subseteq Centers
  /\ None \notin Accounts

VARIABLES
  kind,      \* "none", "setup" or "reauth"
  target,    \* the entry (by unique id) a reauthentication updates
  pc,        \* "credentials" or "code", the forms; or the call: "first", "send",
             \* "complete", "info", "discover"
  account, right,    \* what the user typed: whose credentials, and the password
  todo,      \* the data centers left to probe, the current one first
  firstError, error, \* first_error; the error the form shows, by the class of its
             \* code: "elsewhere" is wrong_region on the form of the code
  api, host, \* the center self._api talks to, and that of self._api_host
  sid,       \* self._api.sid: the account and the center of the session, or None
  typed,     \* the code typed is the one in the mail
  mailed,    \* mailed[a]: the code mailed to a is still good
  entries,   \* entries[u]: the stored entry of unique id u, or None
  refused    \* in this attempt a data center has answered that the password is wrong

Session == [uid : Accounts, at : Centers]
Entry == [sid : Session, uid : Accounts, host : Centers]
Errors == {"none", "password", "elsewhere", "code", "other"}

input   == <<account, right>>
probe   == <<todo, firstError>>
client  == <<api, host, sid>>
vars == <<kind, target, pc, input, probe, error, client, typed, mailed, entries,
          refused, discovery>>

TypeOK ==
  /\ DiscoveryOK
  /\ kind \in {"none", "setup", "reauth"} /\ target \in Accounts \cup {None}
  /\ pc \in {"credentials", "code", "first", "send", "complete", "info", "discover"}
  /\ account \in Accounts /\ right \in BOOLEAN
  /\ todo \in Seq(Centers) /\ Len(todo) <= Len(ProbeOrder)
  /\ firstError \in Errors /\ error \in Errors
  /\ api \in Centers /\ host \in Centers /\ sid \in Session \cup {None}
  /\ typed \in BOOLEAN /\ mailed \in [Accounts -> BOOLEAN]
  /\ entries \in [Accounts -> Entry \cup {None}]
  /\ refused \in BOOLEAN

Init ==
  /\ DiscoveryInit
  /\ kind = "none" /\ target = None /\ pc = "credentials"
  /\ account \in Accounts /\ right = TRUE
  /\ todo = <<>> /\ firstError = "none" /\ error = "none"
  /\ api = ProbeOrder[1] /\ host = ProbeOrder[1] /\ sid = None
  /\ typed = FALSE /\ mailed = [a \in Accounts |-> FALSE]
  /\ entries = [u \in Accounts |-> None] /\ refused = FALSE

-----------------------------------------------------------------------------
(* region.py *)

OnlyTheGuess(country) ==
  IF Routing[country] = None THEN ProbeOrder ELSE <<Routing[country]>>

Others(c) == LET i == CHOOSE j \in DOMAIN ProbeOrder : ProbeOrder[j] = c
             IN  SubSeq(ProbeOrder, 1, i - 1) \o SubSeq(ProbeOrder, i + 1, Len(ProbeOrder))

LoginCandidates(country) ==
  IF Routing[country] = None THEN ProbeOrder
  ELSE <<Routing[country]>> \o Others(Routing[country])

AnyError(code) == code # "none"

IsWrongDataCenter(code) == code = "elsewhere"

\* What data center c answers to the password of this account.
Accepts(c) == c = Home[account] \/ c \in Gateways
Refusals(c) == IF ~Accepts(c) THEN {"elsewhere", "other"}
               ELSE IF right THEN {"other"} ELSE {"password", "other"}

-----------------------------------------------------------------------------
(* The user, and Home Assistant, start and leave flows. *)

Begin(k, u) ==
  /\ kind = "none" /\ kind' = k /\ target' = u
  /\ k = "reauth" => u \in Accounts /\ entries[u] # None
  /\ k = "setup" => u = None
  /\ pc' = "credentials" /\ error' = "none" /\ refused' = FALSE /\ sid' = None
  /\ ask' = Idle /\ cameras' = {} /\ failed' = FALSE
  /\ UNCHANGED <<input, probe, api, host, typed, mailed, entries, layout>>

Leave ==
  /\ kind # "none" /\ pc \in {"credentials", "code"} /\ kind' = "none"
  /\ UNCHANGED <<target, pc, input, probe, error, client, typed, mailed, entries,
                 refused, discovery>>

\* async_step_user and async_step_reauth_confirm
SubmitCredentials(a, good, country) ==
  /\ kind # "none" /\ pc = "credentials" /\ pc' = "first"
  /\ account' = a /\ right' = good
  /\ todo' = LoginCandidates(country) /\ firstError' = "none"
  /\ error' = "none" /\ refused' = FALSE
  /\ UNCHANGED <<kind, target, client, typed, mailed, entries, discovery>>

-----------------------------------------------------------------------------
(* _async_begin_login: _async_request_mfa_code at one center after another. *)

\* The first password submission is to be answered with MFA_NEED_SEND_CODE.
FirstLogin ==
  /\ pc = "first" /\ Accepts(Head(todo)) /\ right /\ pc' = "send"
  /\ UNCHANGED <<kind, target, input, probe, error, client, typed, mailed, entries,
                 refused, discovery>>

SendCode ==
  /\ pc = "send" /\ pc' = "code"
  /\ mailed' = [mailed EXCEPT ![account] = TRUE]
  /\ api' = Head(todo) /\ host' = Head(todo) /\ sid' = None
  /\ UNCHANGED <<kind, target, input, probe, error, typed, entries, refused, discovery>>

\* A center that says the account is not there is passed over; any other
\* refusal ends the probe.  With none left the first error is raised.
Refuse ==
  /\ pc \in {"first", "send"}
  /\ \E code \in Refusals(Head(todo)) :
       LET first == IF firstError = "none" THEN code ELSE firstError
           next  == IsWrongDataCenter(code)
       IN /\ firstError' = first
          /\ todo' = IF next THEN Tail(todo) ELSE todo
          /\ IF next /\ Len(todo) > 1
               THEN pc' = "first" /\ UNCHANGED error
               ELSE pc' = "credentials" /\ error' = IF next THEN first ELSE code
          /\ refused' = (refused \/ code = "password")
  /\ UNCHANGED <<kind, target, input, client, typed, mailed, entries, discovery>>

\* No answer at all: the form is shown again, as after an unknown error.  The
\* session id that login_password has cleared stays cleared.
Lost ==
  /\ pc \in {"first", "send", "complete", "info"}
  /\ pc' = IF pc \in {"first", "send"} THEN "credentials" ELSE "code"
  /\ error' = "other"
  /\ sid' \in IF pc = "complete" THEN {sid, None} ELSE {sid}
  /\ UNCHANGED <<kind, target, input, probe, api, host, typed, mailed, entries, refused,
                 discovery>>

-----------------------------------------------------------------------------
(* async_step_mfa, async_step_reauth_mfa *)

SubmitCode(ok) ==
  /\ kind # "none" /\ pc = "code" /\ pc' = "complete" /\ typed' = ok /\ error' = "none"
  /\ UNCHANGED <<kind, target, input, probe, client, mailed, entries, refused, discovery>>

\* hosts_from_domain: the response names the account's own endpoints, or none.
AdoptHost(reported) == IF reported = None THEN UNCHANGED <<api, host>>
                       ELSE api' = reported /\ host' = reported

KeepsHost(u) == [sid |-> sid', uid |-> account, host |-> entries[u].host]

\* What _region_data and the login result put into the entry.
StoredEntry(u) == [sid |-> sid', uid |-> account, host |-> host']

\* _async_complete_login.  A gateway always names the account's center.  The code
\* is good for one login, also if a later call fails.  Setup goes on to the user
\* info; a reauthentication stores the new session in its entry and is done.
CompleteLogin ==
  /\ pc = "complete" /\ typed /\ mailed[account] /\ Accepts(api)
  /\ mailed' = [mailed EXCEPT ![account] = FALSE]
  /\ sid' = [uid |-> account, at |-> Home[account]]
  /\ \E reported \in {Home[account]} \cup (IF api = Home[account] THEN {None} ELSE {}) :
       AdoptHost(reported)
  /\ IF kind = "setup"
       THEN pc' = "info" /\ UNCHANGED <<kind, entries>>
       ELSE /\ entries' = [entries EXCEPT ![target] = StoredEntry(target)]
            /\ kind' = "none" /\ pc' = "credentials"
  /\ UNCHANGED <<target, input, probe, error, typed, refused, discovery>>

\* What the form of the code reports of a call that Tuya refuses, whichever
\* center was found: also here a code may say that the account is elsewhere.
CodeFormErrors == {"elsewhere", "other"}

\* login_password puts the session id back when the login is refused.
RejectCode ==
  /\ pc = "complete" /\ pc' = "code"
  /\ error' \in CodeFormErrors \cup (IF typed /\ mailed[account] THEN {} ELSE {"code"})
  /\ UNCHANGED <<kind, target, input, probe, client, typed, mailed, entries, refused,
                 discovery>>

UserInfo ==
  /\ pc = "info"
  /\ \/ pc' = "discover" /\ UNCHANGED error
     \/ pc' = "code" /\ error' \in CodeFormErrors
  /\ ask' = Idle /\ cameras' = {} /\ failed' = FALSE
  /\ UNCHANGED <<kind, target, input, probe, client, typed, mailed, entries, refused,
                 layout>>

\* Discovery is best effort: what is no TuyaAPIError ends it without a camera.
DiscoverCameras ==
  /\ pc = "discover" /\ ask # Done
  /\ \/ Discover
     \/ ask' = Done /\ cameras' = {} /\ failed' = TRUE /\ UNCHANGED layout
  /\ UNCHANGED <<kind, target, pc, input, probe, error, client, typed, mailed, entries,
                 refused>>

\* async_set_unique_id, _abort_if_unique_id_configured, async_create_entry
CreateEntry ==
  /\ pc = "discover" /\ ask = Done
  /\ entries' = IF entries[account] # None THEN entries
                ELSE [entries EXCEPT ![account] =
                        [sid |-> sid, uid |-> account, host |-> host]]
  /\ kind' = "none" /\ pc' = "credentials"
  /\ UNCHANGED <<target, input, probe, error, client, typed, mailed, refused, discovery>>

RemoveEntry(u) ==
  /\ kind = "none" /\ entries[u] # None
  /\ entries' = [entries EXCEPT ![u] = None]
  /\ UNCHANGED <<kind, target, pc, input, probe, error, client, typed, mailed, refused,
                 discovery>>

Next ==
  \/ \E k \in {"setup", "reauth"}, u \in Accounts \cup {None} : Begin(k, u)
  \/ \E a \in Accounts, good \in BOOLEAN, c \in Countries : SubmitCredentials(a, good, c)
  \/ FirstLogin \/ SendCode \/ Refuse \/ Lost
  \/ \E ok \in BOOLEAN : SubmitCode(ok)
  \/ CompleteLogin \/ RejectCode \/ UserInfo \/ DiscoverCameras \/ CreateEntry
  \/ Leave \/ \E u \in Accounts : RemoveEntry(u)

Spec == Init /\ [][Next]_vars

-----------------------------------------------------------------------------
(* Once the data center that owns the account has said that the password   *)
(* is wrong, it is not tried anywhere else: a typing error costs one       *)
(* failed login, not one in every region.                                  *)
PasswordNotSpread == refused => pc \notin {"first", "send"}

(* Whatever country the user picks, the probe does not report an account   *)
(* that exists as unknown, for before that its own data center has been    *)
(* asked (#44, #58); a report of that kind comes only from the form of the *)
(* code, after a center that takes this account's login has been found.    *)
ProbeFindsAccount == error = "elsewhere" => pc # "credentials" /\ Accepts(api)

(* The session id, the user id and the API host of an entry stem from one  *)
(* login: the integration and the bridge never present a session to a data *)
(* center that did not issue it, also after a reauthentication and when a  *)
(* gateway accepted the password.                                          *)
EntryIsOneLogin ==
  \A u \in Accounts : entries[u] # None =>
    entries[u].uid = entries[u].sid.uid /\ entries[u].host = entries[u].sid.at
=============================================================================
