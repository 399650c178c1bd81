------------------------------ MODULE Broadcasts ------------------------------
(***************************************************************************)
(* One broadcast of the administrators to an audience: drafted, sent by    *)
(* pages over the users it addresses, or deleted.                          *)
(*                                                                         *)
(* The status is read and later written by id, so two sends, or a send and *)
(* a deletion, can both pass.  The pages are offsets into a query with no  *)
(* order, over users who come and go while the fan-out runs.               *)
(***************************************************************************)
EXTENDS Naturals, Sequences, FiniteSets

CONSTANTS
  Users,      \* those the segment can address
  Senders,    \* requests in flight, each with the fan-out it starts
  BatchSize   \* rows of a page, 100 in the code

ASSUME BroadcastConstants == BatchSize \in Nat \ {0}

VARIABLES
  notice,    \* the status of the broadcast
  roll,      \* the audience, in the order the query finds it
  feed,      \* user_notifications rows of the broadcast
  sender,    \* the requests
  steady,    \* history: addressed since the last send began
  lost,      \* history: a page was not written to the feed
  moved      \* history: the roll changed during a fan-out

broadcastVars == << notice, roll, feed, sender, steady, lost, moved >>

Notices == { "none", "DRAFT", "SENDING", "SENT", "FAILED", "gone" }

\* read, counted: send before its count and its update; removing: remove
\* before its delete; the rest is processBroadcastSending.
Sender ==
  [ at : { "idle", "read", "counted", "removing", "paging", "feeding", "delivering", "closing" },
    skip : Nat, page : Seq(Users) ]

NoSender == [ at |-> "idle", skip |-> 0, page |-> << >> ]

OnRoll == { roll[i] : i \in DOMAIN roll }

HasRow == notice \notin { "none", "gone" }

Step(c, at) == sender' = [sender EXCEPT ![c].at = at]

Quits(c) == sender' = [sender EXCEPT ![c] = NoSender]

-----------------------------------------------------------------------------
(* create, send, remove                                                      *)

Drafts ==
  /\ notice = "none"
  /\ notice' = "DRAFT"
  /\ UNCHANGED << roll, feed, sender, steady, lost, moved >>

ReadsDraft(c) ==
  /\ sender[c] = NoSender /\ notice = "DRAFT"
  /\ Step(c, "read") \/ Step(c, "removing")
  /\ UNCHANGED << notice, roll, feed, steady, lost, moved >>

\* Nobody to address: the request is refused.
CountsAudience(c) ==
  /\ sender[c].at = "read"
  /\ IF roll = << >> THEN Quits(c) ELSE Step(c, "counted")
  /\ UNCHANGED << notice, roll, feed, steady, lost, moved >>

\* By id, whatever the status is by now; the fan-out follows the answer.
StartsSending(c) ==
  /\ sender[c].at = "counted" /\ HasRow
  /\ notice' = "SENDING"
  /\ steady' = OnRoll
  /\ Step(c, "paging")
  /\ UNCHANGED << roll, feed, lost, moved >>

\* By id too.
DeletesNotice(c) ==
  /\ sender[c].at = "removing" /\ HasRow
  /\ notice' = "gone"
  /\ Quits(c)
  /\ UNCHANGED << roll, feed, steady, lost, moved >>

\* An error, or a row that is gone, before anything is written.
RequestFails(c) ==
  /\ sender[c].at \in { "read", "counted", "removing" }
  /\ Quits(c)
  /\ UNCHANGED << notice, roll, feed, steady, lost, moved >>

Administrates ==
  \/ Drafts
  \/ \E c \in Senders :
       ReadsDraft(c) \/ CountsAudience(c) \/ StartsSending(c) \/ DeletesNotice(c) \/ RequestFails(c)

-----------------------------------------------------------------------------
(* processBroadcastSending                                                   *)

\* Variant: a full page is taken for the last one.
LastPage_Full(page) == Len(page) <= BatchSize

LastPage(page) == Len(page) < BatchSize

ReadsPage(c) ==
  LET last == IF sender[c].skip + BatchSize <= Len(roll)
              THEN sender[c].skip + BatchSize ELSE Len(roll)
      page == SubSeq(roll, sender[c].skip + 1, last)
  IN
  /\ sender[c].at = "paging"
  /\ sender' = [sender EXCEPT ![c].page = page,
                              ![c].at = IF page = << >> THEN "closing" ELSE "feeding"]
  /\ UNCHANGED << notice, roll, feed, steady, lost, moved >>

\* A page that cannot be written is logged and left behind.
Feeds(c) ==
  /\ sender[c].at = "feeding"
  /\ \/ /\ feed' = [u \in Users |->
             feed[u] + Cardinality({ i \in DOMAIN sender[c].page : sender[c].page[i] = u })]
        /\ UNCHANGED lost
     \/ lost' = TRUE /\ UNCHANGED feed
  /\ Step(c, "delivering")
  /\ UNCHANGED << notice, roll, steady, moved >>

\* Push and e-mail to the page, then the counters: an update by id.
Delivers(c) ==
  /\ sender[c].at = "delivering" /\ HasRow
  /\ sender' = [sender EXCEPT ![c] =
       [ at |-> IF LastPage(sender[c].page) THEN "closing" ELSE "paging",
         skip |-> sender[c].skip + BatchSize, page |-> << >> ]]
  /\ UNCHANGED << notice, roll, feed, steady, lost, moved >>

Closes(c) ==
  /\ sender[c].at = "closing" /\ HasRow
  /\ notice' = "SENT"
  /\ Quits(c)
  /\ UNCHANGED << roll, feed, steady, lost, moved >>

\* A statement fails: so does the broadcast, if it still has a row.
FanOutFails(c) ==
  /\ sender[c].at \in { "paging", "delivering", "closing" }
  /\ notice' = IF HasRow THEN "FAILED" ELSE notice
  /\ Quits(c)
  /\ UNCHANGED << roll, feed, steady, lost, moved >>

\* Nothing takes a fan-out up again.
Restarts ==
  /\ sender # [c \in Senders |-> NoSender]
  /\ sender' = [c \in Senders |-> NoSender]
  /\ UNCHANGED << notice, roll, feed, steady, lost, moved >>

FansOut ==
  \/ Restarts
  \/ \E c \in Senders : ReadsPage(c) \/ Feeds(c) \/ Delivers(c) \/ Closes(c) \/ FanOutFails(c)

-----------------------------------------------------------------------------
(* The audience                                                              *)

Stirs ==
  moved' = (moved \/ \E c \in Senders :
              sender[c].at \in { "paging", "feeding", "delivering", "closing" })

\* A registration, a reinstatement, a change of role.
JoinsRoll(u) ==
  /\ u \notin OnRoll
  /\ roll' = Append(roll, u)
  /\ Stirs
  /\ UNCHANGED << notice, feed, sender, steady, lost >>

\* The roll lists nobody twice.
Without(u) ==
  LET k == CHOOSE i \in DOMAIN roll : roll[i] = u IN
  SubSeq(roll, 1, k - 1) \o SubSeq(roll, k + 1, Len(roll))

\* A suspension, a deletion, a change of role.
LeavesRoll(u) ==
  /\ u \in OnRoll
  /\ roll' = Without(u)
  /\ steady' = steady \ { u }
  /\ Stirs
  /\ UNCHANGED << notice, feed, sender, lost >>

\* Any update of a user's row, a login for one, may move it in the table.
IsRewritten(u) ==
  /\ u \in OnRoll
  /\ roll' = Append(Without(u), u)
  /\ Stirs
  /\ UNCHANGED << notice, feed, sender, steady, lost >>

AudienceMoves == \E u \in Users : JoinsRoll(u) \/ LeavesRoll(u) \/ IsRewritten(u)

-----------------------------------------------------------------------------

BroadcastsInit ==
  /\ notice = "none" /\ roll = << >>
  /\ feed = [u \in Users |-> 0]
  /\ sender = [c \in Senders |-> NoSender]
  /\ steady = {} /\ lost = FALSE /\ moved = FALSE

BroadcastsNext == Administrates \/ FansOut \/ AudienceMoves

BroadcastsSpec == BroadcastsInit /\ [][BroadcastsNext]_broadcastVars

-----------------------------------------------------------------------------
(* Properties                                                                *)

BroadcastsTypeOK ==
  /\ notice \in Notices /\ roll \in Seq(Users) /\ feed \in [Users -> Nat]
  /\ \A i, j \in DOMAIN roll : roll[i] = roll[j] => i = j
  /\ sender \in [Senders -> Sender]
  /\ steady \subseteq OnRoll /\ lost \in BOOLEAN /\ moved \in BOOLEAN

\* A broadcast that was sent, however many requests sent it, is in the feed of
\* everybody addressed since the fan-out began, as long as every page was written
\* and nobody came, went or moved in the table meanwhile
\* (processBroadcastSending).
SentReachesAll ==
  notice = "SENT" /\ ~lost /\ ~moved => \A u \in steady : feed[u] > 0

\* "Fan-out on write: persist the in-app feed for EVERY recipient": the same,
\* whoever else comes, goes or moves (processBroadcastSending).
EveryRecipientIsFed ==
  notice = "SENT" /\ ~lost => \A u \in steady : feed[u] > 0

=============================================================================
