------------------------------- MODULE Sessions -------------------------------
(***************************************************************************)
(* The sessions of one account: refresh tokens that rotate at every use,   *)
(* the clients that hold them, and everything that ends them.              *)
(*                                                                         *)
(* A token that comes back after its rotation is either a race of tabs and *)
(* retries, answered with a new token while the rotation is recent, or a   *)
(* replay, answered by ending every session.  The row of a token is read,  *)
(* revoked and succeeded in statements of their own.                       *)
(***************************************************************************)
EXTENDS Naturals, FiniteSets

CONSTANTS
  Devices,     \* clients, each with one token for all its tabs
  Phones,      \* those that drop their tokens when a refresh is refused
  Refreshes,   \* refresh calls in flight
  Tokens,      \* refresh tokens that can be issued
  NoToken

ASSUME SessionConstants ==
  /\ Devices # {} /\ Phones \subseteq Devices
  /\ NoToken \notin Tokens

VARIABLES
  token,     \* refresh_tokens.revokedAt
  jar,       \* the token each client holds
  refresh,   \* the calls
  account,   \* users.status and users.deletedAt
  leaving,   \* deletionRequestedAt is set, its deadline passed at any moment
  purge,     \* the daily purge has listed the account
  calm,      \* history: no fault, and nobody ended a session
  alone      \* history: the client that last ended all other sessions

sessionVars == << token, jar, refresh, account, leaving, purge, calm, alone >>

\* "recent": revoked less than ROTATION_GRACE_MS ago.
TokenStates == { "unused", "live", "recent", "old" }

Refresh ==
  [ at : { "idle", "sent", "rotating", "checking", "minting", "issued", "refused" },
    by : Devices, with : Tokens \cup { NoToken }, got : Tokens \cup { NoToken } ]

Accounts == { "ACTIVE", "SUSPENDED", "deleted" }

Revoked(ts) == [t \in Tokens |-> IF t \in ts /\ token[t] = "live" THEN "recent" ELSE token[t]]

\* An issued token is new; which of the new ones makes no difference.
FreshTokens ==
  LET unused == { t \in Tokens : token[t] = "unused" } IN
  IF unused = {} THEN {} ELSE { CHOOSE t \in unused : TRUE }

\* revokeAllUserTokens and every updateMany over the user's tokens.
RevokesAll == token' = Revoked(Tokens)

Goes(c, step) == refresh' = [refresh EXCEPT ![c].at = step]

Over(c) ==
  refresh' = [refresh EXCEPT ![c] =
    [ at |-> "idle", by |-> @.by, with |-> NoToken, got |-> NoToken ]]

-----------------------------------------------------------------------------
(* refreshTokens                                                             *)

SendsRefresh(c, d) ==
  /\ refresh[c].at = "idle" /\ jar[d] # NoToken
  /\ refresh' = [refresh EXCEPT ![c] =
       [ at |-> "sent", by |-> d, with |-> jar[d], got |-> NoToken ]]
  /\ UNCHANGED << token, jar, account, leaving, purge, calm, alone >>

\* Variant: no grace, a revoked token is always a replay.
Replayed_NoGrace(t) == token[t] \in { "recent", "old" }

Replayed(t) == token[t] = "old"

FindsToken(c) ==
  /\ refresh[c].at = "sent"
  /\ IF Replayed(refresh[c].with)
     THEN RevokesAll /\ Goes(c, "refused")
     ELSE /\ Goes(c, IF token[refresh[c].with] = "live" THEN "rotating" ELSE "checking")
          /\ UNCHANGED token
  /\ UNCHANGED << jar, account, leaving, purge, calm, alone >>

\* By id: a revocation in between is stamped anew.
Rotates(c) ==
  /\ refresh[c].at = "rotating"
  /\ token' = [token EXCEPT ![refresh[c].with] = "recent"]
  /\ Goes(c, "checking")
  /\ UNCHANGED << jar, account, leaving, purge, calm, alone >>

ChecksAccount(c) ==
  /\ refresh[c].at = "checking"
  /\ Goes(c, IF account = "ACTIVE" THEN "minting" ELSE "refused")
  /\ UNCHANGED << token, jar, account, leaving, purge, calm, alone >>

Mints(c, t) ==
  /\ refresh[c].at = "minting" /\ token[t] = "unused"
  /\ token' = [token EXCEPT ![t] = "live"]
  /\ refresh' = [refresh EXCEPT ![c].at = "issued", ![c].got = t]
  /\ UNCHANGED << jar, account, leaving, purge, calm, alone >>

\* A phone forgets its tokens at a refusal, whichever it holds by then.
HearsBack(c) ==
  LET d == refresh[c].by IN
  /\ \/ refresh[c].at = "issued" /\ jar' = [jar EXCEPT ![d] = refresh[c].got]
     \/ /\ refresh[c].at = "refused"
        /\ jar' = IF d \in Phones THEN [jar EXCEPT ![d] = NoToken] ELSE jar
  /\ Over(c)
  /\ UNCHANGED << token, account, leaving, purge, calm, alone >>

\* The handler fails, or its answer is lost.
Breaks(c) ==
  /\ refresh[c].at # "idle"
  /\ Over(c)
  /\ calm' = FALSE /\ alone' = {}
  /\ UNCHANGED << token, jar, account, leaving, purge >>

\* ROTATION_GRACE_MS passes.  Timing assumption: a call is over before.
GraceEnds(t) ==
  /\ token[t] = "recent"
  /\ \A c \in Refreshes : refresh[c].with # t
  /\ token' = [token EXCEPT ![t] = "old"]
  /\ UNCHANGED << jar, refresh, account, leaving, purge, calm, alone >>

Refreshing ==
  \/ \E c \in Refreshes :
       \/ \E d \in Devices : SendsRefresh(c, d)
       \/ FindsToken(c) \/ Rotates(c) \/ ChecksAccount(c)
       \/ \E t \in FreshTokens : Mints(c, t)
       \/ HearsBack(c) \/ Breaks(c)
  \/ \E t \in Tokens : GraceEnds(t)

-----------------------------------------------------------------------------
(* Logging in and out                                                        *)

\* loginWithEmail, verifyOtp: a login cancels a pending deletion.
LogsIn(d, t) ==
  /\ jar[d] = NoToken /\ account = "ACTIVE" /\ token[t] = "unused"
  /\ token' = [token EXCEPT ![t] = "live"]
  /\ jar' = [jar EXCEPT ![d] = t]
  /\ leaving' = FALSE
  /\ UNCHANGED << refresh, account, purge, calm, alone >>

\* The signed-in clients: those whose session the access token names.
SignedIn(d) == jar[d] # NoToken /\ account = "ACTIVE"

\* Scoped: by id, also a token that is revoked already.
LogsOut(d) ==
  /\ SignedIn(d)
  /\ token' = [token EXCEPT ![jar[d]] = "recent"]
  /\ jar' = [jar EXCEPT ![d] = NoToken]
  /\ calm' = FALSE /\ alone' = alone \ { d }
  /\ UNCHANGED << refresh, account, leaving, purge >>

\* SessionsService.revoke
RevokesSession(d, t) ==
  /\ SignedIn(d) /\ t # jar[d] /\ token[t] = "live"
  /\ token' = Revoked({ t })
  /\ calm' = FALSE /\ alone' = alone \cap { d }
  /\ UNCHANGED << jar, refresh, account, leaving, purge >>

\* SessionsService.revokeAllExceptCurrent
RevokesOthers(d) ==
  /\ SignedIn(d) /\ token[jar[d]] = "live"
  /\ token' = Revoked(Tokens \ { jar[d] })
  /\ calm' = FALSE /\ alone' = { d }
  /\ UNCHANGED << jar, refresh, account, leaving, purge >>

\* changePassword, confirmPasswordReset.
ChangesPassword ==
  /\ account = "ACTIVE"
  /\ RevokesAll
  /\ calm' = FALSE /\ alone' = {}
  /\ UNCHANGED << jar, refresh, account, leaving, purge >>

LoggingInAndOut ==
  \/ \E d \in Devices, t \in FreshTokens : LogsIn(d, t)
  \/ \E d \in Devices, t \in Tokens : RevokesSession(d, t)
  \/ \E d \in Devices : LogsOut(d) \/ RevokesOthers(d)
  \/ ChangesPassword

-----------------------------------------------------------------------------
(* The account                                                               *)

\* updateUserStatus: an administrator suspends or bans, and ends the sessions, ...
Suspends ==
  /\ account = "ACTIVE"
  /\ account' = "SUSPENDED"
  /\ RevokesAll
  /\ calm' = FALSE /\ alone' = {}
  /\ UNCHANGED << jar, refresh, leaving, purge >>

\* ... or lifts the suspension.
Reinstates ==
  /\ account = "SUSPENDED"
  /\ account' = "ACTIVE"
  /\ calm' = FALSE /\ alone' = {}
  /\ UNCHANGED << token, jar, refresh, leaving, purge >>

\* requestDeletion: a revocation that fails is logged and forgotten.
RequestsDeletion(d) ==
  /\ SignedIn(d) /\ ~leaving
  /\ leaving' = TRUE
  /\ RevokesAll \/ UNCHANGED token
  /\ calm' = FALSE /\ alone' = {}
  /\ UNCHANGED << jar, refresh, account, purge >>

CancelsDeletion(d) ==
  /\ SignedIn(d) /\ leaving
  /\ leaving' = FALSE
  /\ UNCHANGED << token, jar, refresh, account, purge, calm, alone >>

\* purgePending lists the accounts due, then takes them one by one.
ListsAccount ==
  /\ leaving /\ ~purge /\ account # "deleted"
  /\ purge' = TRUE
  /\ UNCHANGED << token, jar, refresh, account, leaving, calm, alone >>

\* anonymize: by id.
Anonymizes ==
  /\ purge
  /\ account' = "deleted" /\ leaving' = FALSE /\ purge' = FALSE
  /\ RevokesAll
  /\ calm' = FALSE /\ alone' = {}
  /\ UNCHANGED << jar, refresh >>

\* An obligation has come up; the next day looks again.
SkipsAccount ==
  /\ purge
  /\ purge' = FALSE
  /\ UNCHANGED << token, jar, refresh, account, leaving, calm, alone >>

AccountMoves ==
  \/ Suspends \/ Reinstates \/ ListsAccount \/ Anonymizes \/ SkipsAccount
  \/ \E d \in Devices : RequestsDeletion(d) \/ CancelsDeletion(d)

-----------------------------------------------------------------------------

SessionsInit ==
  /\ token = [t \in Tokens |-> "unused"]
  /\ jar = [d \in Devices |-> NoToken]
  /\ refresh \in [Refreshes ->
       [ at : { "idle" }, by : { CHOOSE d \in Devices : TRUE },
         with : { NoToken }, got : { NoToken } ]]
  /\ account = "ACTIVE" /\ leaving = FALSE /\ purge = FALSE
  /\ calm = TRUE /\ alone = {}

SessionsNext == Refreshing \/ LoggingInAndOut \/ AccountMoves

SessionsSpec == SessionsInit /\ [][SessionsNext]_sessionVars

-----------------------------------------------------------------------------
(* Properties                                                                *)

SessionsTypeOK ==
  /\ token \in [Tokens -> TokenStates]
  /\ jar \in [Devices -> Tokens \cup { NoToken }]
  /\ refresh \in [Refreshes -> Refresh]
  /\ account \in Accounts /\ leaving \in BOOLEAN /\ purge \in BOOLEAN
  /\ calm \in BOOLEAN /\ alone \subseteq Devices

\* Tabs and retries that refresh the same token at once never sign the user
\* out: as long as no answer is lost and nobody ends a session, no refresh is
\* refused (refreshTokens and its grace window).
RacesKeepTheSession ==
  calm => \A c \in Refreshes : refresh[c].at # "refused"

\* "Revoke every active session except the one making the call": the client that
\* ended the other sessions is not refused with the token it holds, unless
\* somebody has ended its session since (revokeAllExceptCurrent).
CurrentSessionSurvives ==
  \A c \in Refreshes :
    LET d == refresh[c].by IN
    refresh[c].at = "refused" /\ refresh[c].with = jar[d] => d \notin alone

=============================================================================
