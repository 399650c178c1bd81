------------------------------- MODULE OtpCodes -------------------------------
(***************************************************************************)
(* The one-time codes of one phone number: how they are issued, resent,    *)
(* compared and spent, and the two budgets that bound it.                  *)
(*                                                                         *)
(* Hits of a budget are atomic.  All the rest is not: a code is found,     *)
(* compared and then counted or deleted, and the rows that a new code      *)
(* replaces are those its transaction saw.                                 *)
(***************************************************************************)
EXTENDS Integers, FiniteSets

CONSTANTS
  MaxCode,       \* bound on the otps rows, numbered as they are created
  Askers,        \* requests for a code in flight
  Calls,         \* verifications in flight
  MaxAttempts,   \* OTP_MAX_ATTEMPTS, 5 in the code
  VerifyLimit,   \* AUTH_LIMITS.otpVerify.limit, 10
  IssueLimit     \* AUTH_LIMITS.otpRequest.limit, 3

Codes == 1 .. MaxCode

\* No code; as a guess, one that is none of the phone's.
NoCode == 0

ASSUME OtpConstants ==
  MaxCode \in Nat /\ { MaxAttempts, VerifyLimit, IssueLimit } \subseteq Nat \ {0}

VARIABLES
  otp,        \* the rows
  asker,      \* requestOtp and resendOtp
  call,       \* verifyOtpInternal
  issued,     \* hits of the issuance budget in its window
  verified,   \* hits of the verification budget in its window
  spent       \* history: codes a verification has consumed

otpVars == << otp, asker, call, issued, verified, spent >>

\* young: its resend cooldown runs.  gone: deleted.
RowStates == { "none", "young", "live", "expired", "gone" }

Existing == { c \in Codes : otp[c].row \in { "young", "live", "expired" } }

Otp == [ row : RowStates, attempts : 0 .. MaxAttempts ]

Asker == [ at : { "idle", "cooled", "clearing" }, seen : SUBSET Codes ]

\* guess: the code that was typed.  late: it had been spent when the call was
\* sent.
Call ==
  [ at : { "idle", "counted", "wrong", "right", "consumed" }, guess : Codes \cup { NoCode },
    found : Codes \cup { NoCode }, read : 0 .. MaxAttempts, late : BOOLEAN ]

NoAsker == [ at |-> "idle", seen |-> {} ]

NoCall == [ at |-> "idle", guess |-> NoCode, found |-> NoCode, read |-> 0, late |-> FALSE ]

Deleted(cs) == [c \in Codes |-> IF c \in cs THEN [ row |-> "gone", attempts |-> 0 ] ELSE otp[c]]

\* The unexpired row created last.
Latest ==
  LET rows == { c \in Codes : otp[c].row \in { "young", "live" } } IN
  CHOOSE c \in rows \cup { NoCode } : \A d \in rows : d <= c

-----------------------------------------------------------------------------
(* requestOtp, resendOtp                                                     *)

\* RateLimitService.hit: what a budget may stand at after a hit that is allowed.
\* An expired window starts anew; the clock may have passed it at any hit.
Hit(count, limit) == { 1 } \cup { n \in { count + 1 } : n <= limit }

PassesCooldown(i) ==
  /\ asker[i] = NoAsker
  /\ Latest # NoCode => otp[Latest].row # "young"
  /\ asker' = [asker EXCEPT ![i].at = "cooled"]
  /\ UNCHANGED << otp, call, issued, verified, spent >>

\* The hit, then deleteMany: it sees the rows committed by then.
StartsIssuing(i) ==
  /\ asker[i].at = "cooled"
  /\ issued' \in Hit(issued, IssueLimit)
  /\ asker' = [asker EXCEPT ![i] = [ at |-> "clearing", seen |-> Existing ]]
  /\ UNCHANGED << otp, call, verified, spent >>

\* create and commit.  Two transactions at once leave two codes.
IssuesCode(i, c) ==
  /\ asker[i].at = "clearing"
  /\ otp[c].row = "none" /\ \A d \in 1 .. c - 1 : otp[d].row # "none"
  /\ otp' = [Deleted(asker[i].seen) EXCEPT ![c].row = "young"]
  /\ asker' = [asker EXCEPT ![i] = NoAsker]
  /\ UNCHANGED << call, issued, verified, spent >>

\* The budget is spent, the phone of a seller or administrator, an error.
GivesUp(i) ==
  /\ asker[i] # NoAsker
  /\ asker' = [asker EXCEPT ![i] = NoAsker]
  /\ UNCHANGED << otp, call, issued, verified, spent >>

Asks ==
  \E i \in Askers :
    \/ PassesCooldown(i) \/ StartsIssuing(i) \/ GivesUp(i)
    \/ \E c \in Codes : IssuesCode(i, c)

-----------------------------------------------------------------------------
(* verifyOtpInternal                                                         *)

\* Only a hit within the budget lets a guess through; a refused one changes
\* nothing that matters.
Submits(k, guess) ==
  /\ call[k] = NoCall
  /\ guess # NoCode => otp[guess].row # "none"
  /\ verified' \in Hit(verified, VerifyLimit)
  /\ call' = [call EXCEPT ![k] =
       [ NoCall EXCEPT !.at = "counted", !.guess = guess, !.late = guess \in spent ]]
  /\ UNCHANGED << otp, asker, issued, spent >>

Hangs(k) == call' = [call EXCEPT ![k] = NoCall]

ComparesCode(k) ==
  /\ call[k].at = "counted"
  /\ IF Latest = NoCode THEN Hangs(k)
     ELSE call' = [call EXCEPT ![k] =
            IF Latest = @.guess THEN [ @ EXCEPT !.at = "right", !.found = Latest ]
            ELSE [ NoCall EXCEPT !.at = "wrong", !.found = Latest,
                                 !.read = otp[Latest].attempts ]]
  /\ UNCHANGED << otp, asker, issued, verified, spent >>

\* Variant: the attempt is recorded by an upsert, which brings the row back.
Recorded_Upsert(c, attempts) == [otp EXCEPT ![c] = [ row |-> "live", attempts |-> attempts ]]

\* An update by id of a row that is gone fails.
Recorded(c, attempts) ==
  IF c \in Existing THEN [otp EXCEPT ![c].attempts = attempts] ELSE otp

\* The successor of the counter as it was read.
CountsAttempt(k) ==
  LET c == call[k].found
      attempts == call[k].read + 1
  IN
  /\ call[k].at = "wrong"
  /\ otp' = IF attempts >= MaxAttempts THEN Deleted({ c }) ELSE Recorded(c, attempts)
  /\ Hangs(k)
  /\ UNCHANGED << asker, issued, verified, spent >>

SpendsCode(k) ==
  /\ call[k].at = "right"
  /\ otp' = Deleted({ call[k].found })
  /\ spent' = spent \cup { call[k].found }
  /\ call' = [call EXCEPT ![k] = [ NoCall EXCEPT !.at = "consumed" ]]
  /\ UNCHANGED << asker, issued, verified >>

ClearsBudget(k) ==
  /\ call[k].at = "consumed"
  /\ verified' = 0
  /\ Hangs(k)
  /\ UNCHANGED << otp, asker, issued, spent >>

CallFails(k) ==
  /\ call[k] # NoCall
  /\ Hangs(k)
  /\ UNCHANGED << otp, asker, issued, verified, spent >>

Verifies ==
  \E k \in Calls :
    \/ \E guess \in Codes \cup { NoCode } : Submits(k, guess)
    \/ ComparesCode(k) \/ CountsAttempt(k) \/ SpendsCode(k) \/ ClearsBudget(k)
    \/ CallFails(k)

-----------------------------------------------------------------------------
(* Time                                                                      *)

Ages(c) ==
  /\ \/ otp[c].row = "young" /\ otp' = [otp EXCEPT ![c].row = "live"]
     \/ otp[c].row = "live" /\ otp' = [otp EXCEPT ![c].row = "expired"]
  /\ UNCHANGED << asker, call, issued, verified, spent >>

Passes == \E c \in Codes : Ages(c)

-----------------------------------------------------------------------------

OtpInit ==
  /\ otp = [c \in Codes |-> [ row |-> "none", attempts |-> 0 ]]
  /\ asker = [i \in Askers |-> NoAsker]
  /\ call = [k \in Calls |-> NoCall]
  /\ issued = 0 /\ verified = 0
  /\ spent = {}

OtpNext == Asks \/ Verifies \/ Passes

OtpSpec == OtpInit /\ [][OtpNext]_otpVars

-----------------------------------------------------------------------------
(* Properties                                                                *)

OtpTypeOK ==
  /\ otp \in [Codes -> Otp]
  /\ asker \in [Askers -> Asker] /\ call \in [Calls -> Call]
  /\ issued \in 0 .. IssueLimit /\ verified \in 0 .. VerifyLimit
  /\ spent \subseteq Codes

\* A code is spent once: requests that overlap may both be accepted with it, but
\* none sent after it was consumed, however the attempts, the expiry and the
\* resends of other requests interleave ("One-shot: delete on success").
SpentCodeStaysSpent == \A k \in Calls : call[k].at = "right" => ~call[k].late

=============================================================================
