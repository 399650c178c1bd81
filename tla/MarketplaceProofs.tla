--------------------------- MODULE MarketplaceProofs ---------------------------
(***************************************************************************)
(* Theorems of Marketplace: the order handlers and the payout desk over    *)
(* one database, for any number of orders, sellers, payouts and concurrent *)
(* requests.                                                               *)
(***************************************************************************)
EXTENDS Marketplace, OrderLifecycleProofs

-----------------------------------------------------------------------------
(* Steps of the order handlers, seen from the payout desk                    *)

\* No order handler reserves an earning, releases one, takes a clawback flag
\* back or revives a reversed row; time never runs backwards.
LEMMA HandlersKeepPayouts ==
  ASSUME TypeOK, [Next]_vars
  PROVE  /\ now' = now \/ now' = now + 1
         /\ \A o \in Orders :
              /\ earning'[o].payout = earning[o].payout
              /\ earning[o].clawback => earning'[o].clawback
              /\ earning[o].state \in { "live", "reversed" } =>
                   \/ earning'[o].state = earning[o].state
                   \/ earning'[o].state = "reversed"
<1> DEFINE Kept == \A o \in Orders :
              /\ earning'[o].payout = earning[o].payout
              /\ earning[o].clawback => earning'[o].clawback
              /\ earning[o].state \in { "live", "reversed" } =>
                   \/ earning'[o].state = earning[o].state
                   \/ earning'[o].state = "reversed"
<1>0. earning \in [Orders -> EarningRow]
  BY DEF TypeOK, EarningTypeOK
<1>1. ASSUME NEW o, CreateEarning(o) PROVE Kept
  BY <1>0, <1>1 DEF CreateEarning, EarningRow
<1>2. ASSUME NEW o, NEW d, ApplyReversal(o, d) PROVE Kept
  BY <1>0, <1>2 DEF ApplyReversal, EarningRow
<1>3. Kept
  <2>1. ASSUME NEW c \in Callers, Delivers(c) PROVE Kept
    BY <2>1, <1>1 DEF Delivers
  <2>2. ASSUME NEW c \in Callers, Forces(c) PROVE Kept
    BY <2>2, <1>2 DEF Forces
  <2>3. ASSUME NEW c \in Callers, ApprovesReturn(c) PROVE Kept
    BY <2>3, <1>2 DEF ApprovesReturn
  <2>4. CASE UNCHANGED earning
    BY <2>4
  <2>5. QED
    BY <2>1, <2>2, <2>3, <2>4
    DEF Next, Proceeds, vars, tables, Checkout, PreRead, BuyerCancels, SellerRejects,
        AdminCancels, ForceCancels, Cancel, SellerMoves, TekaMoves, Move, Locks,
        LooksForActiveRequest, CreatesRequest, Refused, Aborts, Tick, RejectReturn
<1>4. now' = now \/ now' = now + 1
  BY DEF Next, Proceeds, vars, tables, Checkout, PreRead, BuyerCancels, SellerRejects,
         AdminCancels, ForceCancels, Cancel, SellerMoves, TekaMoves, Move, Locks,
         Delivers, Forces, ApprovesReturn,
         LooksForActiveRequest, CreatesRequest, Refused, Aborts, Tick, RejectReturn
<1>5. QED
  BY <1>3, <1>4

-----------------------------------------------------------------------------
(* Steps of the payout desk                                                  *)

\* The moves of an administrator that do not end in a rejection.
AdvancesPayout(q) == ApprovePayout(q) \/ ProcessPayout(q) \/ CompletePayout(q)

\* A request that has read the balance holds the profile's lock.
LEMMA ReadsStep ==
  ASSUME MarketTypeOK, NEW w \in Requesters, ReadsBalance(w)
  PROVE  /\ UNCHANGED << vars, payout, profile >>
         /\ \E s \in Sellers :
              /\ ~ProfileLocked(s) /\ ~HasOpenPayout(s) /\ MayWithdraw(s)
              /\ asking' = [asking EXCEPT ![w] = [ seller |-> s,
                                                   claims |-> EligibleEarnings(s) ]]
BY DEF ReadsBalance

\* A payout is created from a free row, for earnings that nobody has reserved.
LEMMA ReservesStep ==
  ASSUME MarketTypeOK, NEW w \in Requesters, Reserves(w)
  PROVE  /\ asking[w] # NoCall /\ asking[w].seller \in Sellers
         /\ asking[w].claims \in SUBSET Orders
         /\ \A o \in asking[w].claims :
              earning[o].state # "reversed" /\ earning[o].payout = NoPayout
         /\ \E q \in Payouts :
              /\ payout[q].status = "UNUSED"
              /\ payout' = [payout EXCEPT ![q] =
                              [ status |-> "REQUESTED", seller |-> asking[w].seller,
                                claims |-> asking[w].claims,
                                destination |-> profile[asking[w].seller].destination ]]
              /\ earning' = [o \in Orders |->
                               IF o \in asking[w].claims
                               THEN [earning[o] EXCEPT !.payout = q] ELSE earning[o]]
         /\ asking' = [asking EXCEPT ![w] = NoCall]
         /\ UNCHANGED << tables, call, now, forced, profile >>
<1>1. asking[w] # NoCall /\ Reservable(asking[w].claims) = asking[w].claims
  BY DEF Reserves, NothingMoved
<1>2. asking[w].seller \in Sellers /\ asking[w].claims \in SUBSET Orders
  BY <1>1 DEF MarketTypeOK, DeskTypeOK, Asking
<1>3. \A o \in asking[w].claims : earning[o].state # "reversed" /\ earning[o].payout = NoPayout
  BY <1>1 DEF Reservable, Reserved
<1>4. PICK q \in Payouts :
        /\ payout[q].status = "UNUSED"
        /\ payout' = [payout EXCEPT ![q] =
                        [ status |-> "REQUESTED", seller |-> asking[w].seller,
                          claims |-> asking[w].claims,
                          destination |-> profile[asking[w].seller].destination ]]
        /\ earning' = [o \in Orders |->
                         IF o \in Reservable(asking[w].claims)
                         THEN [earning[o] EXCEPT !.payout = q] ELSE earning[o]]
  BY DEF Reserves
<1>5. /\ asking' = [asking EXCEPT ![w] = NoCall]
      /\ UNCHANGED << tables, call, now, forced, profile >>
  BY DEF Reserves
<1>6. earning' = [o \in Orders |->
                   IF o \in asking[w].claims
                   THEN [earning[o] EXCEPT !.payout = q] ELSE earning[o]]
  BY <1>1, <1>4
<1>7. QED
  BY <1>1, <1>2, <1>3, <1>4, <1>5, <1>6

\* Approval, processing and completion write the status of one open payout.
LEMMA AdvancesStep ==
  ASSUME MarketTypeOK, NEW q \in Payouts, AdvancesPayout(q)
  PROVE  /\ payout[q].status \in OpenPayoutStatuses
         /\ payout'[q].status \in OpenPayoutStatuses \cup { "COMPLETED" }
         /\ payout'[q] \in PayoutRow
         /\ payout'[q].seller = payout[q].seller
         /\ payout'[q].claims = payout[q].claims
         /\ payout'[q].destination = payout[q].destination
         /\ payout' = [u \in Payouts |-> IF u = q THEN payout'[q] ELSE payout[u]]
         /\ UNCHANGED << profile, asking, tables, call, now, forced, earning >>
<1>1. payout \in [Payouts -> PayoutRow] /\ payout[q] \in PayoutRow
  BY DEF MarketTypeOK, DeskTypeOK
<1>2. PICK to \in { "APPROVED", "PROCESSING", "COMPLETED" } :
        /\ payout[q].status \in { "REQUESTED", "APPROVED", "PROCESSING" }
        /\ payout' = [payout EXCEPT ![q].status = to]
  BY DEF AdvancesPayout, ApprovePayout, ProcessPayout, CompletePayout, Transition
<1>3. UNCHANGED << profile, asking, tables, call, now, forced, earning >>
  BY DEF AdvancesPayout, ApprovePayout, ProcessPayout, CompletePayout, Transition
<1>4. payout'[q] = [payout[q] EXCEPT !.status = to]
  BY <1>1, <1>2
<1>5. QED
  BY <1>1, <1>2, <1>3, <1>4 DEF PayoutRow, OpenPayoutStatuses

\* A rejection closes one open payout and frees exactly the earnings linked to it.
LEMMA RejectsStep ==
  ASSUME MarketTypeOK, NEW q \in Payouts, RejectPayout(q)
  PROVE  /\ payout[q].status \in OpenPayoutStatuses
         /\ payout'[q].status = "REJECTED"
         /\ payout'[q] \in PayoutRow
         /\ payout'[q].seller = payout[q].seller
         /\ payout'[q].destination = payout[q].destination
         /\ payout' = [u \in Payouts |-> IF u = q THEN payout'[q] ELSE payout[u]]
         /\ ReleaseEarnings(q)
         /\ UNCHANGED << profile, asking, tables, call, now, forced >>
<1>1. payout \in [Payouts -> PayoutRow] /\ payout[q] \in PayoutRow
  BY DEF MarketTypeOK, DeskTypeOK
<1>2. /\ payout[q].status \in OpenPayoutStatuses
      /\ payout' = [payout EXCEPT ![q].status = "REJECTED"]
      /\ ReleaseEarnings(q)
      /\ UNCHANGED << profile, asking, tables, call, now, forced >>
  BY DEF RejectPayout, Transition
<1>3. payout'[q] = [payout[q] EXCEPT !.status = "REJECTED"]
  BY <1>1, <1>2
<1>4. QED
  BY <1>1, <1>2, <1>3 DEF PayoutRow

\* The desk writes nothing of the orders but the link of their earnings.
LEMMA DeskWrites ==
  ASSUME MarketTypeOK, DeskNext
  PROVE  /\ UNCHANGED << order, cod, refunds, hold, stock, sold, request, call, now, forced >>
         /\ EarningTypeOK'
         /\ \A o \in Orders : /\ earning'[o].state = earning[o].state
                              /\ earning'[o].clawback = earning[o].clawback
<1> DEFINE Good == /\ UNCHANGED << order, cod, refunds, hold, stock, sold, request, call,
                                   now, forced >>
                   /\ EarningTypeOK'
                   /\ \A o \in Orders : /\ earning'[o].state = earning[o].state
                                        /\ earning'[o].clawback = earning[o].clawback
<1>0. earning \in [Orders -> EarningRow]
  BY DEF MarketTypeOK, TypeOK, EarningTypeOK
<1>1. ASSUME NEW q \in Payouts \cup { NoPayout }, NEW S,
             earning' = [o \in Orders |-> IF o \in S
                                          THEN [earning[o] EXCEPT !.payout = q]
                                          ELSE earning[o]],
             UNCHANGED << tables, call, now, forced >>
      PROVE  Good
  BY <1>0, <1>1 DEF EarningTypeOK, EarningRow, tables
<1>2. ASSUME UNCHANGED vars \/ UNCHANGED << tables, call, now, forced, earning >>
      PROVE  Good
  BY <1>0, <1>2 DEF EarningTypeOK, tables, vars
<1>3. ASSUME NEW w \in Requesters, ReadsBalance(w) \/ GivesUp(w) PROVE Good
  BY <1>2, <1>3 DEF ReadsBalance, GivesUp
<1>4. ASSUME NEW w \in Requesters, Reserves(w) PROVE Good
  <2>1. PICK q \in Payouts :
          earning' = [o \in Orders |-> IF o \in asking[w].claims
                                       THEN [earning[o] EXCEPT !.payout = q] ELSE earning[o]]
    BY <1>4, ReservesStep
  <2>2. UNCHANGED << tables, call, now, forced >>
    BY <1>4, ReservesStep
  <2>3. QED
    BY <1>1, <2>1, <2>2
<1>5. ASSUME NEW q \in Payouts, AdvancesPayout(q) PROVE Good
  BY <1>2, <1>5, AdvancesStep
<1>6. ASSUME NEW q \in Payouts, RejectPayout(q) PROVE Good
  <2>1. earning' = [o \in Orders |-> IF o \in { x \in Orders : earning[x].payout = q }
                                     THEN [earning[o] EXCEPT !.payout = NoPayout]
                                     ELSE earning[o]]
    BY <1>6 DEF RejectPayout, ReleaseEarnings
  <2>2. QED
    BY <1>1, <1>6, <2>1, RejectsStep, ZenonT(40)
<1>7. ASSUME NEW s \in Sellers, NEW d \in Destinations, UpdatePayoutMethod(s, d) PROVE Good
  BY <1>2, <1>7 DEF UpdatePayoutMethod
<1>8. QED
  BY <1>3, <1>4, <1>5, <1>6, <1>7 DEF DeskNext, AdvancesPayout

-----------------------------------------------------------------------------
(* Type correctness, and what a payout request knows under its lock          *)

\* While a request holds the lock of a profile, nobody else asks for that
\* seller, no payout of the seller is open, and the destination stays payable.
AskInv ==
  \A w \in Requesters : asking[w] # NoCall =>
    /\ \A v \in Requesters :
         asking[v] # NoCall /\ asking[v].seller = asking[w].seller => v = w
    /\ ~HasOpenPayout(asking[w].seller)
    /\ MayWithdraw(asking[w].seller)

\* What the requests in progress rely on stays if the desk only closes payouts.
LEMMA AskInvKept ==
  ASSUME MarketTypeOK, AskInv, now' = now \/ now' = now + 1, UNCHANGED profile,
         \A w \in Requesters : asking'[w] = NoCall \/ asking'[w] = asking[w],
         \A s \in Sellers, w \in Requesters :
           asking'[w] # NoCall /\ asking[w].seller = s => (HasOpenPayout(s)' => HasOpenPayout(s))
  PROVE  AskInv'
<1> SUFFICES ASSUME NEW w \in Requesters, asking'[w] # NoCall
             PROVE  /\ \A v \in Requesters :
                         asking'[v] # NoCall /\ asking'[v].seller = asking'[w].seller => v = w
                    /\ ~HasOpenPayout(asking[w].seller)'
                    /\ MayWithdraw(asking[w].seller)'
  BY DEF AskInv
<1>1. asking'[w] = asking[w] /\ asking[w].seller \in Sellers
  BY DEF MarketTypeOK, DeskTypeOK, Asking
<1>2. \A v \in Requesters :
        asking'[v] # NoCall /\ asking'[v].seller = asking'[w].seller => v = w
  BY <1>1 DEF AskInv
<1>3. ~HasOpenPayout(asking[w].seller) /\ MayWithdraw(asking[w].seller)
  BY <1>1 DEF AskInv
<1>4. ~HasOpenPayout(asking[w].seller)'
  BY <1>1, <1>3 DEF HasOpenPayout
<1>5. MayWithdraw(asking[w].seller)'
  <2> DEFINE p == profile[asking[w].seller]
  <2>1. p.changedAt \in Nat \cup { Never } /\ now \in Nat /\ CoolingOff \in Nat
    BY <1>1, PayoutAssumption DEF MarketTypeOK, DeskTypeOK, TypeOK, ProfileRow, Times
  <2>2. p.changedAt # Never => p.changedAt + CoolingOff <= now'
    BY <1>3, <2>1 DEF MayWithdraw
  <2>3. QED
    BY <1>1, <1>3, <2>2 DEF MayWithdraw
<1>6. QED
  BY <1>2, <1>4, <1>5

\* A step of the desk keeps its rows well formed and its requests informed.
LEMMA DeskStep ==
  ASSUME MarketTypeOK, AskInv, DeskNext
  PROVE  DeskTypeOK' /\ AskInv'
<1> DEFINE Goal == DeskTypeOK' /\ AskInv'
<1>0. /\ payout \in [Payouts -> PayoutRow]
      /\ \A q \in Payouts : payout[q].status # "UNUSED" => payout[q].destination # NoDestination
      /\ profile \in [Sellers -> ProfileRow]
      /\ asking \in [Requesters -> Asking \cup { NoCall }]
      /\ now \in Times
  BY DEF MarketTypeOK, DeskTypeOK, TypeOK
<1>1. ASSUME NEW w \in Requesters, ReadsBalance(w) PROVE Goal
  <2>1. UNCHANGED << now, payout, profile >>
    BY <1>1, ReadsStep DEF vars
  <2>2. PICK s \in Sellers :
          /\ ~ProfileLocked(s) /\ ~HasOpenPayout(s) /\ MayWithdraw(s)
          /\ asking' = [asking EXCEPT ![w] = [ seller |-> s, claims |-> EligibleEarnings(s) ]]
    BY <1>1, ReadsStep
  <2>3. [ seller |-> s, claims |-> EligibleEarnings(s) ] \in Asking
    BY DEF Asking, EligibleEarnings
  <2>4. /\ asking'[w] = [ seller |-> s, claims |-> EligibleEarnings(s) ]
        /\ \A v \in Requesters : v # w => asking'[v] = asking[v]
    BY <1>0, <2>2
  <2>5. DeskTypeOK'
    BY <1>0, <2>1, <2>2, <2>3 DEF DeskTypeOK
  <2>6. ASSUME NEW v \in Requesters, asking'[v] # NoCall
        PROVE  /\ \A u \in Requesters :
                    asking'[u] # NoCall /\ asking'[u].seller = asking'[v].seller => u = v
               /\ ~HasOpenPayout(asking'[v].seller) /\ MayWithdraw(asking'[v].seller)
    <3>1. \A u \in Requesters : asking[u] # NoCall => asking[u].seller # s
      BY <2>2 DEF ProfileLocked
    <3>2. QED
      BY <2>2, <2>4, <2>6, <3>1 DEF AskInv
  <2>7. AskInv'
    BY <2>1, <2>6 DEF AskInv, HasOpenPayout, MayWithdraw
  <2>8. QED
    BY <2>5, <2>7
<1>2. ASSUME NEW w \in Requesters, Reserves(w) PROVE Goal
  <2> DEFINE s == asking[w].seller
             E == asking[w].claims
  <2>1. /\ asking[w] # NoCall /\ s \in Sellers /\ E \in SUBSET Orders
        /\ asking' = [asking EXCEPT ![w] = NoCall]
        /\ now' = now /\ profile' = profile
    BY <1>2, ReservesStep
  <2>2. PICK q \in Payouts :
          payout' = [payout EXCEPT ![q] = [ status |-> "REQUESTED", seller |-> s, claims |-> E,
                                            destination |-> profile[s].destination ]]
    BY <1>2, ReservesStep
  <2>3. profile[s].destination # NoDestination
        /\ profile[s].destination \in Destinations \cup { NoDestination }
    BY <1>0, <2>1 DEF AskInv, MayWithdraw, ProfileRow
  <2> DEFINE row == [ status |-> "REQUESTED", seller |-> s, claims |-> E,
                      destination |-> profile[s].destination ]
  <2>4. row \in PayoutRow
    BY <2>1, <2>3 DEF PayoutRow, OpenPayoutStatuses
  <2>5. payout'[q] = row /\ \A u \in Payouts : u # q => payout'[u] = payout[u]
    BY <1>0, <2>2
  <2>6. DeskTypeOK'
    BY <1>0, <2>1, <2>2, <2>3, <2>4, <2>5 DEF DeskTypeOK
  <2>7. \A v \in Requesters : asking'[v] = NoCall \/ asking'[v] = asking[v]
    BY <1>0, <2>1
  <2>8. ASSUME NEW x \in Sellers, NEW v \in Requesters, asking'[v] # NoCall,
               asking[v].seller = x, HasOpenPayout(x)'
        PROVE  HasOpenPayout(x)
    <3>1. v # w /\ asking[v] # NoCall
      BY <1>0, <2>1, <2>8
    <3>2. x # s
      BY <2>1, <2>8, <3>1 DEF AskInv
    <3>3. QED
      BY <2>5, <2>8, <3>2 DEF HasOpenPayout
  <2>9. AskInv'
    BY <2>1, <2>7, <2>8, AskInvKept
  <2>10. QED
    BY <2>6, <2>9
<1>3. ASSUME NEW w \in Requesters, GivesUp(w) PROVE Goal
  <2>1. /\ asking' = [asking EXCEPT ![w] = NoCall]
        /\ UNCHANGED << now, payout, profile >>
    BY <1>3 DEF GivesUp, vars
  <2>2. DeskTypeOK'
    BY <1>0, <2>1 DEF DeskTypeOK
  <2>3. AskInv'
    BY <1>0, <2>1, AskInvKept DEF HasOpenPayout
  <2>4. QED
    BY <2>2, <2>3
<1>4. ASSUME NEW q \in Payouts, AdvancesPayout(q) \/ RejectPayout(q) PROVE Goal
  <2>1. /\ payout[q].status \in OpenPayoutStatuses
        /\ payout'[q] \in PayoutRow
        /\ payout'[q].seller = payout[q].seller
        /\ payout'[q].destination = payout[q].destination
        /\ payout' = [u \in Payouts |-> IF u = q THEN payout'[q] ELSE payout[u]]
        /\ UNCHANGED << profile, asking, now >>
    BY <1>4, AdvancesStep, RejectsStep
  <2>2. /\ payout' \in [Payouts -> PayoutRow]
        /\ \A u \in Payouts : u # q => payout'[u] = payout[u]
    BY <1>0, <2>1
  <2>3. DeskTypeOK'
    BY <1>0, <2>1, <2>2 DEF DeskTypeOK, OpenPayoutStatuses
  <2>4. \A s \in Sellers : HasOpenPayout(s)' => HasOpenPayout(s)
    BY <2>1, <2>2 DEF HasOpenPayout
  <2>5. AskInv'
    BY <2>1, <2>4, AskInvKept
  <2>6. QED
    BY <2>3, <2>5
<1>5. ASSUME NEW s \in Sellers, NEW d \in Destinations, UpdatePayoutMethod(s, d) PROVE Goal
  <2>1. /\ ~ProfileLocked(s)
        /\ profile' = [profile EXCEPT ![s] = [ destination |-> d, changedAt |-> now ]]
        /\ UNCHANGED << now, payout, asking >>
    BY <1>5 DEF UpdatePayoutMethod, vars
  <2>2. DeskTypeOK'
    BY <1>0, <2>1 DEF DeskTypeOK, ProfileRow
  <2>3. ASSUME NEW w \in Requesters, asking[w] # NoCall
        PROVE  MayWithdraw(asking[w].seller)'
    <3>1. asking[w].seller # s
      BY <2>1, <2>3 DEF ProfileLocked
    <3>2. profile'[asking[w].seller] = profile[asking[w].seller]
      BY <1>0, <2>1, <2>3, <3>1 DEF Asking
    <3>3. QED
      BY <2>1, <2>3, <3>2 DEF AskInv, MayWithdraw
  <2>4. AskInv'
    BY <2>1, <2>3 DEF AskInv, HasOpenPayout
  <2>5. QED
    BY <2>2, <2>4
<1>6. QED
  BY <1>1, <1>2, <1>3, <1>4, <1>5 DEF DeskNext, AdvancesPayout

\* Every interleaving of the two components keeps both well formed.
LEMMA MarketStep ==
  ASSUME MarketTypeOK, AskInv, [MarketNext]_marketVars
  PROVE  MarketTypeOK' /\ AskInv'
<1>1. CASE Next /\ UNCHANGED deskVars
  <2>1. TypeOK' /\ UNCHANGED << payout, profile, asking >>
    BY <1>1, TypeStep DEF MarketTypeOK, deskVars
  <2>2. DeskTypeOK'
    BY <2>1 DEF MarketTypeOK, DeskTypeOK
  <2>3. now' = now \/ now' = now + 1
    BY <1>1, HandlersKeepPayouts DEF MarketTypeOK
  <2>4. AskInv'
    BY <2>1, <2>3, AskInvKept DEF HasOpenPayout
  <2>5. QED
    BY <2>1, <2>2, <2>4 DEF MarketTypeOK
<1>2. CASE DeskNext
  <2>1. DeskTypeOK' /\ AskInv'
    BY <1>2, DeskStep
  <2>2. TypeOK'
    BY <1>2, DeskWrites DEF MarketTypeOK, TypeOK
  <2>3. QED
    BY <2>1, <2>2 DEF MarketTypeOK
<1>3. CASE UNCHANGED marketVars
  <2>1. UNCHANGED vars /\ UNCHANGED << payout, profile, asking, now >>
    BY <1>3 DEF marketVars, deskVars, vars
  <2>2. TypeOK'
    BY <2>1, TypeStep DEF MarketTypeOK
  <2>3. QED
    BY <2>1, <2>2 DEF MarketTypeOK, DeskTypeOK, AskInv, HasOpenPayout, MayWithdraw
<1>4. QED
  BY <1>1, <1>2, <1>3 DEF MarketNext

\* The desk starts with no payout, no request, and profiles without a date.
LEMMA MarketInitially ==
  ASSUME MarketInit
  PROVE  MarketTypeOK /\ AskInv
<1>1. (CHOOSE x \in Sellers : TRUE) \in Sellers
  BY PayoutAssumption
<1>2. DeskTypeOK
  BY <1>1 DEF MarketInit, DeskInit, DeskTypeOK, PayoutRow, ProfileRow
<1>3. QED
  BY <1>2, TypeInit DEF MarketInit, DeskInit, MarketTypeOK, AskInv

\* Orders, earnings, requests, profiles and payouts keep their shape in every
\* interleaving of the order handlers and the payout desk; no payout lacks a
\* destination.
THEOREM MarketTypeCorrect == MarketSpec => []MarketTypeOK
<1>1. MarketSpec => [](MarketTypeOK /\ AskInv)
  BY MarketInitially, MarketStep, PTL DEF MarketSpec
<1>2. QED
  BY <1>1, PTL

\* What holds of the payout requests in progress, in every reachable state.
LEMMA AskInvariant == MarketSpec => []AskInv
<1>1. MarketSpec => [](MarketTypeOK /\ AskInv)
  BY MarketInitially, MarketStep, PTL DEF MarketSpec
<1>2. QED
  BY <1>1, PTL

-----------------------------------------------------------------------------
(* Payouts                                                                   *)

\* No step opens a second payout for a seller.
LEMMA OneOpenStep ==
  ASSUME MarketTypeOK, AskInv, OneOpenPayout, [MarketNext]_marketVars
  PROVE  OneOpenPayout'
<1>0. payout \in [Payouts -> PayoutRow]
  BY DEF MarketTypeOK, DeskTypeOK
<1>1. ASSUME NEW w \in Requesters, Reserves(w) PROVE OneOpenPayout'
  <2> DEFINE s == asking[w].seller
  <2>1. PICK q \in Payouts :
          payout' = [payout EXCEPT ![q] =
                      [ status |-> "REQUESTED", seller |-> s, claims |-> asking[w].claims,
                        destination |-> profile[s].destination ]]
    BY <1>1, ReservesStep
  <2>2. payout'[q].seller = s /\ \A u \in Payouts : u # q => payout'[u] = payout[u]
    BY <1>0, <2>1
  <2>3. ~HasOpenPayout(s)
    BY <1>1, ReservesStep DEF AskInv
  <2>4. QED
    BY <2>2, <2>3 DEF OneOpenPayout, HasOpenPayout
<1>2. ASSUME NEW q \in Payouts, AdvancesPayout(q) \/ RejectPayout(q) PROVE OneOpenPayout'
  <2>1. /\ payout[q].status \in OpenPayoutStatuses
        /\ payout'[q].seller = payout[q].seller
        /\ \A u \in Payouts : u # q => payout'[u] = payout[u]
    BY <1>2, AdvancesStep, RejectsStep
  <2>2. QED
    BY <2>1 DEF OneOpenPayout
<1>3. CASE UNCHANGED payout
  BY <1>3 DEF OneOpenPayout
<1>4. QED
  BY <1>1, <1>2, <1>3
  DEF MarketNext, DeskNext, AdvancesPayout, ReadsBalance, GivesUp, UpdatePayoutMethod,
      deskVars, marketVars

\* No seller ever has two payouts under way.
THEOREM PayoutsAreOneAtATime == MarketSpec => []OneOpenPayout
<1>1. MarketInit => OneOpenPayout
  BY DEF MarketInit, DeskInit, OneOpenPayout, OpenPayoutStatuses
<1>2. MarketTypeOK /\ AskInv /\ OneOpenPayout /\ [MarketNext]_marketVars => OneOpenPayout'
  BY OneOpenStep
<1>3. QED
  BY <1>1, <1>2, MarketTypeCorrect, AskInvariant, PTL DEF MarketSpec

LinkedTo(q) == { o \in Orders : earning[o].payout = q }

\* No step separates a payout from the earnings it claims.
LEMMA BackedStep ==
  ASSUME MarketTypeOK, PayoutBacked, [MarketNext]_marketVars
  PROVE  PayoutBacked'
<1>0. payout \in [Payouts -> PayoutRow] /\ earning \in [Orders -> EarningRow]
  BY DEF MarketTypeOK, DeskTypeOK, TypeOK, EarningTypeOK
<1>1. ASSUME NEW w \in Requesters, Reserves(w) PROVE PayoutBacked'
  <2> DEFINE E == asking[w].claims
             s == asking[w].seller
  <2>1. PICK q \in Payouts :
          /\ payout[q].status = "UNUSED"
          /\ payout' = [payout EXCEPT ![q] =
                          [ status |-> "REQUESTED", seller |-> s, claims |-> E,
                            destination |-> profile[s].destination ]]
          /\ earning' = [o \in Orders |-> IF o \in E THEN [earning[o] EXCEPT !.payout = q]
                                          ELSE earning[o]]
    BY <1>1, ReservesStep
  <2>2. E \in SUBSET Orders /\ \A o \in E : earning[o].payout = NoPayout
    BY <1>1, ReservesStep
  <2>3. \A o \in Orders : earning'[o].payout = IF o \in E THEN q ELSE earning[o].payout
    BY <1>0, <2>1 DEF EarningRow
  <2>4. LinkedTo(q) = {}
    BY <2>1 DEF PayoutBacked, LinkedTo, OpenPayoutStatuses
  <2>5. LinkedTo(q)' = E
    BY <2>2, <2>3, <2>4 DEF LinkedTo
  <2>6. \A u \in Payouts : u # q => LinkedTo(u)' = LinkedTo(u) /\ payout'[u] = payout[u]
    BY <1>0, <2>1, <2>2, <2>3, NoPayoutAssumption DEF LinkedTo
  <2>7. payout'[q].status = "REQUESTED" /\ payout'[q].claims = E
    BY <1>0, <2>1
  <2>8. QED
    BY <2>5, <2>6, <2>7 DEF PayoutBacked, LinkedTo, OpenPayoutStatuses
<1>2. ASSUME NEW q \in Payouts, AdvancesPayout(q) PROVE PayoutBacked'
  <2>1. /\ payout[q].status \in OpenPayoutStatuses
        /\ payout'[q].status \in OpenPayoutStatuses \cup { "COMPLETED" }
        /\ payout'[q].claims = payout[q].claims
        /\ \A u \in Payouts : u # q => payout'[u] = payout[u]
        /\ earning' = earning
    BY <1>2, AdvancesStep
  <2>2. QED
    BY <2>1 DEF PayoutBacked
<1>3. ASSUME NEW q \in Payouts, RejectPayout(q) PROVE PayoutBacked'
  <2>1. /\ payout'[q].status = "REJECTED"
        /\ \A u \in Payouts : u # q => payout'[u] = payout[u]
        /\ earning' = [o \in Orders |-> IF earning[o].payout = q
                                        THEN [earning[o] EXCEPT !.payout = NoPayout]
                                        ELSE earning[o]]
    BY <1>3, RejectsStep DEF ReleaseEarnings
  <2>2. \A o \in Orders : earning'[o].payout = IF earning[o].payout = q THEN NoPayout
                                               ELSE earning[o].payout
    BY <1>0, <2>1 DEF EarningRow
  <2>3. LinkedTo(q)' = {} /\ \A u \in Payouts : u # q => LinkedTo(u)' = LinkedTo(u)
    BY <2>2, NoPayoutAssumption DEF LinkedTo
  <2>4. QED
    BY <2>1, <2>3, SMTT(30) DEF PayoutBacked, LinkedTo, OpenPayoutStatuses
<1>4. ASSUME UNCHANGED payout, \A o \in Orders : earning'[o].payout = earning[o].payout
      PROVE  PayoutBacked'
  BY <1>4 DEF PayoutBacked
<1>5. CASE Next /\ UNCHANGED deskVars
  BY <1>4, <1>5, HandlersKeepPayouts DEF MarketTypeOK, deskVars
<1>6. CASE UNCHANGED << vars, payout >>
  BY <1>4, <1>6 DEF vars
<1>7. QED
  BY <1>1, <1>2, <1>3, <1>5, <1>6
  DEF MarketNext, DeskNext, AdvancesPayout, ReadsBalance, GivesUp, UpdatePayoutMethod,
      deskVars, marketVars

\* Every open or completed payout is backed, row by row, by its earnings.
THEOREM PayoutsAreBacked == MarketSpec => []PayoutBacked
<1>1. MarketInit => PayoutBacked
  BY NoPayoutAssumption
  DEF MarketInit, Init, EarningInit, NoEarning, DeskInit, PayoutBacked, OpenPayoutStatuses
<1>2. MarketTypeOK /\ PayoutBacked /\ [MarketNext]_marketVars => PayoutBacked'
  BY BackedStep
<1>3. QED
  BY <1>1, <1>2, MarketTypeCorrect, PTL DEF MarketSpec

\* A payout is only created for a destination that could be paid at that moment.
LEMMA SettledStep ==
  ASSUME MarketTypeOK, AskInv, [MarketNext]_marketVars, NEW q \in Payouts,
         payout[q].status = "UNUSED", payout'[q].status # "UNUSED"
  PROVE  LET p == profile[payout'[q].seller] IN
         /\ payout'[q].destination = p.destination
         /\ p.destination # NoDestination
         /\ p.changedAt # Never => p.changedAt + CoolingOff <= now
<1> DEFINE Goal == LET p == profile[payout'[q].seller] IN
                   /\ payout'[q].destination = p.destination
                   /\ p.destination # NoDestination
                   /\ p.changedAt # Never => p.changedAt + CoolingOff <= now
<1>0. payout \in [Payouts -> PayoutRow]
  BY DEF MarketTypeOK, DeskTypeOK
<1>1. ASSUME NEW w \in Requesters, Reserves(w) PROVE Goal
  <2> DEFINE s == asking[w].seller
  <2>1. PICK u \in Payouts :
          payout' = [payout EXCEPT ![u] =
                      [ status |-> "REQUESTED", seller |-> s, claims |-> asking[w].claims,
                        destination |-> profile[s].destination ]]
    BY <1>1, ReservesStep
  <2>2. payout'[q].seller = s /\ payout'[q].destination = profile[s].destination
    BY <1>0, <2>1
  <2>3. MayWithdraw(s)
    BY <1>1, ReservesStep DEF AskInv
  <2>4. QED
    BY <2>2, <2>3 DEF MayWithdraw
<1>2. ASSUME NEW u \in Payouts, AdvancesPayout(u) \/ RejectPayout(u) PROVE FALSE
  <2>1. /\ payout[u].status \in OpenPayoutStatuses
        /\ payout' = [x \in Payouts |-> IF x = u THEN payout'[u] ELSE payout[x]]
    BY <1>2, AdvancesStep, RejectsStep
  <2>2. QED
    BY <2>1 DEF OpenPayoutStatuses
<1>3. CASE UNCHANGED payout
  BY <1>3
<1>4. QED
  BY <1>1, <1>2, <1>3
  DEF MarketNext, DeskNext, AdvancesPayout, ReadsBalance, GivesUp, UpdatePayoutMethod,
      deskVars, marketVars

\* Every payout goes to the destination that its seller saved and that had
\* cooled off when the payout was created.
THEOREM PayoutsGoToSettledDestinations == MarketSpec => PaidToASettledDestination
<1> DEFINE Settled == \A q \in Payouts :
             payout[q].status = "UNUSED" /\ payout'[q].status # "UNUSED" =>
               LET p == profile[payout'[q].seller] IN
               /\ payout'[q].destination = p.destination
               /\ p.destination # NoDestination
               /\ p.changedAt # Never => p.changedAt + CoolingOff <= now
<1>1. MarketTypeOK /\ AskInv /\ [MarketNext]_marketVars => [Settled]_marketVars
  BY SettledStep
<1>2. QED
  BY <1>1, MarketTypeCorrect, AskInvariant, PTL DEF MarketSpec, PaidToASettledDestination

\* Nothing writes a payout that is closed, nor the links to it.
LEMMA FinalStep ==
  ASSUME MarketTypeOK, [MarketNext]_marketVars, NEW q \in Payouts,
         payout[q].status \in { "COMPLETED", "REJECTED" }
  PROVE  /\ payout'[q] = payout[q]
         /\ \A o \in Orders : (earning'[o].payout = q) <=> (earning[o].payout = q)
<1> DEFINE Goal == /\ payout'[q] = payout[q]
                   /\ \A o \in Orders : (earning'[o].payout = q) <=> (earning[o].payout = q)
<1>0. payout \in [Payouts -> PayoutRow] /\ earning \in [Orders -> EarningRow]
  BY DEF MarketTypeOK, DeskTypeOK, TypeOK, EarningTypeOK
<1>1. ASSUME NEW w \in Requesters, Reserves(w) PROVE Goal
  <2> DEFINE E == asking[w].claims
  <2>1. PICK u \in Payouts :
          /\ payout[u].status = "UNUSED"
          /\ payout' = [payout EXCEPT ![u] =
                          [ status |-> "REQUESTED", seller |-> asking[w].seller, claims |-> E,
                            destination |-> profile[asking[w].seller].destination ]]
          /\ earning' = [o \in Orders |-> IF o \in E THEN [earning[o] EXCEPT !.payout = u]
                                          ELSE earning[o]]
    BY <1>1, ReservesStep
  <2>2. u # q /\ \A o \in E : earning[o].payout = NoPayout
    BY <1>1, <2>1, ReservesStep
  <2>3. \A o \in Orders : earning'[o].payout = IF o \in E THEN u ELSE earning[o].payout
    BY <1>0, <2>1 DEF EarningRow
  <2>4. payout'[q] = payout[q]
    BY <1>0, <2>1, <2>2
  <2>5. QED
    BY <2>2, <2>3, <2>4, NoPayoutAssumption
<1>2. ASSUME NEW u \in Payouts, AdvancesPayout(u) PROVE Goal
  <2>1. /\ payout[u].status \in OpenPayoutStatuses
        /\ \A x \in Payouts : x # u => payout'[x] = payout[x]
        /\ earning' = earning
    BY <1>2, AdvancesStep
  <2>2. QED
    BY <2>1 DEF OpenPayoutStatuses
<1>3. ASSUME NEW u \in Payouts, RejectPayout(u) PROVE Goal
  <2>1. /\ payout[u].status \in OpenPayoutStatuses
        /\ \A x \in Payouts : x # u => payout'[x] = payout[x]
        /\ earning' = [o \in Orders |-> IF earning[o].payout = u
                                        THEN [earning[o] EXCEPT !.payout = NoPayout]
                                        ELSE earning[o]]
    BY <1>3, RejectsStep DEF ReleaseEarnings
  <2>2. u # q
    BY <2>1 DEF OpenPayoutStatuses
  <2>3. \A o \in Orders : earning'[o].payout = IF earning[o].payout = u THEN NoPayout
                                               ELSE earning[o].payout
    BY <1>0, <2>1 DEF EarningRow
  <2>4. QED
    BY <2>1, <2>2, <2>3, NoPayoutAssumption
<1>4. CASE Next /\ UNCHANGED deskVars
  BY <1>4, HandlersKeepPayouts DEF MarketTypeOK, deskVars
<1>5. CASE UNCHANGED << vars, payout >>
  BY <1>5 DEF vars
<1>6. QED
  BY <1>1, <1>2, <1>3, <1>4, <1>5
  DEF MarketNext, DeskNext, AdvancesPayout, ReadsBalance, GivesUp, UpdatePayoutMethod,
      deskVars, marketVars

\* A completed or rejected payout, and what is linked to it, never change again.
THEOREM ClosedPayoutsAreFinal == MarketSpec => ClosedPayoutIsFinal
<1> DEFINE Final == \A q \in Payouts :
             payout[q].status \in { "COMPLETED", "REJECTED" } =>
               /\ payout'[q] = payout[q]
               /\ \A o \in Orders : (earning'[o].payout = q) <=> (earning[o].payout = q)
<1>1. MarketTypeOK /\ [MarketNext]_marketVars => [Final]_marketVars
  BY FinalStep
<1>2. QED
  BY <1>1, MarketTypeCorrect, PTL DEF MarketSpec, ClosedPayoutIsFinal

-----------------------------------------------------------------------------
(* Orders while payouts run                                                  *)

\* What the order handlers rely on, unhurt by the desk: it moves neither an order
\* nor the state and the flag of an earning.
SalesInv ==
  /\ CallInv /\ StockInv /\ CashInv /\ RefundedOnce /\ EarningFollowsSale

\* A step that leaves the order tables and the fate of the earnings alone.
LEMMA SalesInvKept ==
  ASSUME SalesInv,
         UNCHANGED << order, cod, refunds, hold, stock, sold, request, call >>,
         \A o \in Orders : /\ earning'[o].state = earning[o].state
                           /\ earning'[o].clawback = earning[o].clawback,
         TypeOK
  PROVE  SalesInv'
<1>1. CallInv'
  <2>1. CallsAreWellAimed' /\ LockExclusion'
    BY DEF SalesInv, CallInv, CallsAreWellAimed, WellAimed, LockExclusion, InProgress
  <2>2. ASSUME NEW c \in Callers, InProgress(c, "locked") PROVE LockedView(call[c])'
    <3>1. LockedView(call[c]) /\ call[c].order \in Orders
      BY <2>2, CallShape DEF SalesInv, CallInv, LockedViewIsCurrent, InProgress
    <3>2. QED
      BY <3>1 DEF LockedView
  <2>3. LockedViewIsCurrent'
    BY <2>2 DEF LockedViewIsCurrent, InProgress
  <2>4. QED
    BY <2>1, <2>3 DEF CallInv
<1>2. StockInv'
  BY DEF SalesInv, StockInv, HistoryTellsTheHold, StockConserved, Held, Count
<1>3. CashInv' /\ RefundedOnce' /\ EarningFollowsSale'
  BY DEF SalesInv, CashInv, PaymentMatchesTransaction, CancelledHidesNoCash, RefundedOnce,
         EarningFollowsSale
<1>4. QED
  BY <1>1, <1>2, <1>3 DEF SalesInv

\* No interleaving of the handlers with the desk breaks a sale.
LEMMA SalesStep ==
  ASSUME MarketTypeOK, SalesInv, [MarketNext]_marketVars
  PROVE  SalesInv'
<1>0. TypeOK
  BY DEF MarketTypeOK
<1>1. ASSUME [Next]_vars PROVE SalesInv'
  BY <1>0, <1>1, CallInvStep, StockInvStep, CashInvStep, RefundStep, EarningStep DEF SalesInv
<1>2. CASE DeskNext
  BY <1>0, <1>2, DeskWrites, SalesInvKept
<1>3. QED
  BY <1>1, <1>2 DEF MarketNext, marketVars

\* What the handlers rely on holds in every reachable state of the marketplace.
LEMMA SalesInvariant == MarketSpec => []SalesInv
<1>1. MarketInit => SalesInv
  BY RefundedInit, CallInvInit, StockInvInit, CashInvInit
  DEF MarketInit, SalesInv, Init, EarningInit, NoEarning, EarningFollowsSale
<1>2. MarketTypeOK /\ SalesInv /\ [MarketNext]_marketVars => SalesInv'
  BY SalesStep
<1>3. QED
  BY <1>1, <1>2, MarketTypeCorrect, PTL DEF MarketSpec

\* With the payout desk running, the guarantees of the order handlers stand: a
\* live, unflagged earning belongs to a delivered order, no unit is lost and a hold
\* lasts as long as its sale, order and COD transaction agree, no cash is hidden, no
\* order is refunded twice.
THEOREM SalesStand ==
  MarketSpec =>
    [](/\ EarningFollowsSale /\ StockConserved /\ HoldLastsAsLongAsTheSale
       /\ PaymentMatchesTransaction /\ CancelledHidesNoCash /\ RefundedOnce)
<1>1. SalesInv => /\ EarningFollowsSale /\ StockConserved /\ PaymentMatchesTransaction
                  /\ CancelledHidesNoCash /\ RefundedOnce
  BY DEF SalesInv, StockInv, CashInv
<1>2. MarketTypeOK /\ SalesInv => HoldLastsAsLongAsTheSale
  BY DEF MarketTypeOK, TypeOK, SalesInv, StockInv, HistoryTellsTheHold,
         HoldLastsAsLongAsTheSale, StockReleased
<1>3. QED
  BY <1>1, <1>2, SalesInvariant, MarketTypeCorrect, PTL

-----------------------------------------------------------------------------
(* What a payout may take                                                    *)

\* A sale that stands and is past its return window.
Settled(o) ==
  /\ order[o].status = "DELIVERED"
  /\ order[o].deliveredAt \in Nat /\ order[o].deliveredAt + ReturnWindow <= now

\* Between the read of the balance and the reservation, an earning that was read
\* as eligible can only have been reversed or flagged, or its sale stands.
ClaimsInv ==
  \A w \in Requesters : asking[w] # NoCall =>
    \A o \in asking[w].claims :
      /\ earning[o].state \in { "live", "reversed" }
      /\ earning[o].state = "live" /\ ~earning[o].clawback => Settled(o)

\* The handlers never touch the delivery date of a delivered order.
LEMMA DeliveryDateStays ==
  ASSUME TypeOK, CallInv, [Next]_vars, NEW o \in Orders,
         order[o].status = "DELIVERED", order[o].deliveredAt # Never
  PROVE  order'[o].deliveredAt = order[o].deliveredAt
<1> DEFINE Same == order'[o].deliveredAt = order[o].deliveredAt
<1>0. order \in [Orders -> OrderRow] /\ order[o] \in OrderRow
  BY DEF TypeOK
<1>1. ASSUME NEW G \in SUBSET Orders, Checkout(G) PROVE Same
  BY <1>1 DEF Checkout
<1>2. ASSUME NEW c \in Callers, Cancels(c) PROVE Same
  BY <1>0, <1>2, CancelsStep DEF Cancel, AdminCancellable
<1>3. ASSUME NEW c \in Callers, Moves(c) PROVE Same
  BY <1>0, <1>3, MovesStep DEF Move, AdminCancellable
<1>4. ASSUME NEW c \in Callers, Delivers(c) PROVE Same
  BY <1>0, <1>4, DeliversStep DEF Delivers, AdminCancellable
<1>5. ASSUME NEW c \in Callers, Forces(c) PROVE Same
  <2> DEFINE x == call[c].order
             to == call[c].to
  <2>1. order' = [order EXCEPT ![x] =
                    [ order[x] EXCEPT
                        !.status = to,
                        !.released = order[x].released \/ to = "RETURNED",
                        !.deliveredAt = IF to = "DELIVERED" /\ order[x].deliveredAt = Never
                                        THEN now ELSE order[x].deliveredAt ]]
    BY <1>5 DEF Forces
  <2>2. QED
    BY <1>0, <2>1 DEF OrderRow
<1>6. ASSUME NEW c \in Callers, ApprovesReturn(c) PROVE Same
  <2> DEFINE x == call[c].order
  <2>1. order' = [order EXCEPT ![x] = [ order[x] EXCEPT !.status = "RETURNED",
                                                        !.released = TRUE ]]
    BY <1>6 DEF ApprovesReturn
  <2>2. QED
    BY <1>0, <2>1 DEF OrderRow
<1>7. CASE UNCHANGED order
  BY <1>7
<1>8. QED
  BY <1>1, <1>2, <1>3, <1>4, <1>5, <1>6, <1>7
  DEF Next, Proceeds, Cancels, Moves, vars, tables, PreRead, Locks, Refused, Aborts, Tick,
      LooksForActiveRequest, CreatesRequest, RejectReturn

\* A step of the order handlers leaves what a request has read true enough.
LEMMA ClaimsStepOfHandlers ==
  ASSUME MarketTypeOK, SalesInv, ClaimsInv, [Next]_vars, UNCHANGED asking
  PROVE  ClaimsInv'
<1> SUFFICES ASSUME NEW w \in Requesters, asking[w] # NoCall, NEW o \in asking[w].claims
             PROVE  /\ earning'[o].state \in { "live", "reversed" }
                    /\ earning'[o].state = "live" /\ ~earning'[o].clawback => Settled(o)'
  BY DEF ClaimsInv
<1>1. o \in Orders
  BY DEF MarketTypeOK, DeskTypeOK, Asking
<1>2. /\ earning[o].state \in { "live", "reversed" }
      /\ earning[o].state = "live" /\ ~earning[o].clawback => Settled(o)
  BY DEF ClaimsInv
<1>3. /\ earning[o].clawback => earning'[o].clawback
      /\ earning'[o].state = earning[o].state \/ earning'[o].state = "reversed"
      /\ now' = now \/ now' = now + 1
  BY <1>1, <1>2, HandlersKeepPayouts DEF MarketTypeOK
<1>4. ASSUME earning'[o].state = "live", ~earning'[o].clawback PROVE Settled(o)'
  <2>1. earning[o].state = "live" /\ ~earning[o].clawback /\ Settled(o)
    BY <1>2, <1>3, <1>4
  <2>2. EarningFollowsSale'
    BY EarningStep DEF MarketTypeOK, SalesInv
  <2>3. order'[o].status = "DELIVERED"
    BY <1>1, <1>4, <2>2 DEF EarningFollowsSale
  <2>4. order[o].deliveredAt # Never
    BY <2>1, NullsAssumption DEF Settled
  <2>5. order'[o].deliveredAt = order[o].deliveredAt
    BY <1>1, <2>1, <2>4, DeliveryDateStays DEF Settled, MarketTypeOK, SalesInv
  <2>6. now \in Nat /\ ReturnWindow \in Nat
    BY BoundsAssumption DEF MarketTypeOK, TypeOK, Times
  <2>7. QED
    BY <1>3, <2>1, <2>3, <2>5, <2>6 DEF Settled
<1>5. QED
  BY <1>2, <1>3, <1>4

\* No step makes a reservation in progress unsound.
LEMMA ClaimsStep ==
  ASSUME MarketTypeOK, SalesInv, ClaimsInv, [MarketNext]_marketVars
  PROVE  ClaimsInv'
<1>0. asking \in [Requesters -> Asking \cup { NoCall }] /\ order \in [Orders -> OrderRow]
  BY DEF MarketTypeOK, DeskTypeOK, TypeOK
<1>1. CASE [Next]_vars /\ UNCHANGED asking
  BY <1>1, ClaimsStepOfHandlers
<1>2. ASSUME DeskNext, \A w \in Requesters : asking'[w] = NoCall \/ asking'[w] = asking[w]
      PROVE  ClaimsInv'
  <2>1. \A w \in Requesters : asking[w] # NoCall => asking[w].claims \in SUBSET Orders
    BY <1>0 DEF Asking
  <2>2. /\ order' = order /\ now' = now
        /\ \A o \in Orders : /\ earning'[o].state = earning[o].state
                             /\ earning'[o].clawback = earning[o].clawback
    BY <1>2, DeskWrites
  <2>3. QED
    BY <1>2, <2>1, <2>2 DEF ClaimsInv, Settled
<1>3. ASSUME NEW w \in Requesters, ReadsBalance(w) PROVE ClaimsInv'
  <2>1. UNCHANGED << order, now, earning >>
    BY <1>3, ReadsStep DEF vars
  <2>2. PICK s \in Sellers :
          asking' = [asking EXCEPT ![w] = [ seller |-> s, claims |-> EligibleEarnings(s) ]]
    BY <1>3, ReadsStep
  <2>3. \A o \in EligibleEarnings(s) : earning[o].state = "live" /\ Settled(o)
    BY <1>0 DEF EligibleEarnings, Eligible, Settled, OrderRow, Times
  <2>4. \A v \in Requesters :
          asking'[v] = IF v = w THEN [ seller |-> s, claims |-> EligibleEarnings(s) ]
                       ELSE asking[v]
    BY <1>0, <2>2
  <2>5. QED
    BY <2>1, <2>3, <2>4 DEF ClaimsInv, Settled
<1>4. ASSUME NEW w \in Requesters, Reserves(w) \/ GivesUp(w) PROVE ClaimsInv'
  <2>1. asking' = [asking EXCEPT ![w] = NoCall] /\ DeskNext
    BY <1>4 DEF Reserves, GivesUp, DeskNext
  <2>2. QED
    BY <1>0, <1>2, <2>1
<1>5. CASE DeskNext /\ UNCHANGED asking
  BY <1>2, <1>5
<1>6. QED
  BY <1>1, <1>3, <1>4, <1>5
  DEF MarketNext, DeskNext, ApprovePayout, ProcessPayout, CompletePayout, RejectPayout,
      Transition, UpdatePayoutMethod, deskVars, marketVars

\* Reserving takes only earnings of settled sales, or flagged ones.
LEMMA ReservationStep ==
  ASSUME MarketTypeOK, ClaimsInv, [MarketNext]_marketVars, NEW o \in Orders,
         ~Reserved(o), earning'[o].payout # NoPayout
  PROVE  /\ earning[o].state = "live"
         /\ \/ earning[o].clawback
            \/ /\ order[o].status = "DELIVERED"
               /\ order[o].deliveredAt + ReturnWindow <= now
<1> DEFINE Goal == /\ earning[o].state = "live"
                   /\ \/ earning[o].clawback
                      \/ /\ order[o].status = "DELIVERED"
                         /\ order[o].deliveredAt + ReturnWindow <= now
<1>0. earning \in [Orders -> EarningRow]
  BY DEF MarketTypeOK, TypeOK, EarningTypeOK
<1>1. ASSUME NEW w \in Requesters, Reserves(w) PROVE Goal
  <2>1. PICK q \in Payouts :
          earning' = [x \in Orders |-> IF x \in asking[w].claims
                                       THEN [earning[x] EXCEPT !.payout = q] ELSE earning[x]]
    BY <1>1, ReservesStep
  <2>2. o \in asking[w].claims
    BY <2>1 DEF Reserved
  <2>3. earning[o].state # "reversed" /\ asking[w] # NoCall
    BY <1>1, <2>2, ReservesStep
  <2>4. QED
    BY <2>2, <2>3 DEF ClaimsInv, Settled
<1>2. ASSUME NEW q \in Payouts, RejectPayout(q) PROVE FALSE
  <2>1. earning'[o].payout = NoPayout \/ earning'[o].payout = earning[o].payout
    BY <1>0, <1>2 DEF RejectPayout, ReleaseEarnings, EarningRow
  <2>2. QED
    BY <2>1 DEF Reserved
<1>3. CASE [Next]_vars
  BY <1>3, HandlersKeepPayouts DEF MarketTypeOK, Reserved
<1>4. CASE UNCHANGED earning
  BY <1>4 DEF Reserved
<1>5. QED
  BY <1>1, <1>2, <1>3, <1>4
  DEF MarketNext, DeskNext, ReadsBalance, GivesUp, ApprovePayout, ProcessPayout,
      CompletePayout, UpdatePayoutMethod, vars, marketVars

\* A payout only takes live earnings of sales that stand and are past their return
\* window, although it reads them without a lock: what was reversed in between
\* fails the guarded update, or carries the clawback flag.
THEOREM ReservationsAreSettled == MarketSpec => ReservedOnlyWhenSettled
<1> DEFINE Sound == \A o \in Orders :
             ~Reserved(o) /\ earning'[o].payout # NoPayout =>
               /\ earning[o].state = "live"
               /\ \/ earning[o].clawback
                  \/ /\ order[o].status = "DELIVERED"
                     /\ order[o].deliveredAt + ReturnWindow <= now
<1>1. MarketInit => ClaimsInv
  BY DEF MarketInit, DeskInit, ClaimsInv
<1>2. MarketTypeOK /\ SalesInv /\ ClaimsInv /\ [MarketNext]_marketVars => ClaimsInv'
  BY ClaimsStep
<1>3. MarketTypeOK /\ ClaimsInv /\ [MarketNext]_marketVars => [Sound]_marketVars
  BY ReservationStep
<1>4. QED
  BY <1>1, <1>2, <1>3, MarketTypeCorrect, SalesInvariant, PTL
  DEF MarketSpec, ReservedOnlyWhenSettled

-----------------------------------------------------------------------------
(* The abstract specifications                                               *)

\* The stock of the marketplace is the shelf of the ledger: the desk, which runs
\* beside the handlers, is invisible to it.
THEOREM MarketImplementsStockLedger == MarketSpec => ImplementsLedger
<1>1. MarketInit => SalesInv /\ Init
  BY RefundedInit, CallInvInit, StockInvInit, CashInvInit
  DEF MarketInit, SalesInv, Init, EarningInit, NoEarning, EarningFollowsSale
<1>2. MarketInit /\ MarketTypeOK => Ledger!Init
  BY <1>1, LedgerInit DEF MarketTypeOK, SalesInv
<1>3. MarketTypeOK /\ SalesInv /\ [MarketNext]_marketVars
      => [Ledger!Next]_<< stock, HoldPhase >>
  <2> SUFFICES ASSUME MarketTypeOK, SalesInv, [MarketNext]_marketVars
               PROVE  [Ledger!Next]_<< stock, HoldPhase >>
    OBVIOUS
  <2>1. CASE [Next]_vars
    BY <2>1, LedgerStep DEF MarketTypeOK, SalesInv
  <2>2. CASE DeskNext
    BY <2>2, DeskWrites, LedgerStutter DEF MarketTypeOK
  <2> QED  BY <2>1, <2>2 DEF MarketNext, marketVars
<1> QED
  BY <1>2, <1>3, MarketTypeCorrect, SalesInvariant, PTL
  DEF MarketSpec, ImplementsLedger, Ledger!Spec

\* CANCELLED and RETURNED absorb with the desk running too.
THEOREM FinalStatusesAbsorbInTheMarket == MarketSpec => FinalStatusesAbsorb
<1> DEFINE Absorbed == \A o \in Orders :
             order[o].status \in StockReleased => order'[o].status = order[o].status
<1>1. MarketTypeOK /\ SalesInv /\ [MarketNext]_marketVars => [Absorbed]_vars
  <2> SUFFICES ASSUME MarketTypeOK, SalesInv, [MarketNext]_marketVars  PROVE Absorbed
    OBVIOUS
  <2>1. CASE [Next]_vars
    BY <2>1, AbsorbStep DEF MarketTypeOK, SalesInv
  <2>2. CASE DeskNext
    BY <2>2, DeskWrites DEF MarketTypeOK
  <2> QED  BY <2>1, <2>2 DEF MarketNext, marketVars
<1> QED
  BY <1>1, MarketTypeCorrect, SalesInvariant, PTL DEF MarketSpec, FinalStatusesAbsorb

\* Between its read and its reservation a request holds earnings of its seller
\* alone, worth the minimum.
AsksWorthily ==
  \A w \in Requesters : asking[w] # NoCall =>
    /\ \A o \in asking[w].claims : SellerOf[o] = asking[w].seller
    /\ Total(asking[w].claims) >= MinPayout

LEMMA WorthStep ==
  ASSUME MarketTypeOK, AsksWorthily, [MarketNext]_marketVars
  PROVE  AsksWorthily'
<1>0. asking \in [Requesters -> Asking \cup { NoCall }]
  BY DEF MarketTypeOK, DeskTypeOK
<1>1. ASSUME NEW w \in Requesters, ReadsBalance(w)  PROVE AsksWorthily'
  <2>1. PICK s \in Sellers :
          /\ Total(EligibleEarnings(s)) >= MinPayout
          /\ asking' = [asking EXCEPT ![w] = [ seller |-> s, claims |-> EligibleEarnings(s) ]]
    BY <1>1 DEF ReadsBalance
  <2>2. \A o \in EligibleEarnings(s) : SellerOf[o] = s
    BY DEF EligibleEarnings
  <2>3. \A v \in Requesters :
          asking'[v] = IF v = w THEN [ seller |-> s, claims |-> EligibleEarnings(s) ]
                       ELSE asking[v]
    BY <1>0, <2>1
  <2> QED  BY <2>1, <2>2, <2>3 DEF AsksWorthily
<1>2. ASSUME \A w \in Requesters : asking'[w] = NoCall \/ asking'[w] = asking[w]
      PROVE  AsksWorthily'
  BY <1>2 DEF AsksWorthily
<1>3. ASSUME NEW w \in Requesters, Reserves(w) \/ GivesUp(w)  PROVE AsksWorthily'
  <2>1. asking' = [asking EXCEPT ![w] = NoCall]
    BY <1>3 DEF Reserves, GivesUp
  <2> QED  BY <1>0, <1>2, <2>1
<1>4. CASE UNCHANGED asking
  BY <1>2, <1>4
<1> QED
  BY <1>1, <1>3, <1>4
  DEF MarketNext, DeskNext, ApprovePayout, ProcessPayout, CompletePayout, RejectPayout,
      Transition, UpdatePayoutMethod, deskVars, marketVars

LEMMA WorthInvariant == MarketSpec => []AsksWorthily
<1>1. MarketInit => AsksWorthily
  BY DEF MarketInit, DeskInit, AsksWorthily
<1> QED  BY <1>1, WorthStep, MarketTypeCorrect, PTL DEF MarketSpec

\* The bill of a payout, read from its row.
LEMMA BillOfARow ==
  ASSUME NEW q \in Payouts
  PROVE  /\ Bills[q].seller = payout[q].seller
         /\ payout[q].status = "UNUSED" => Bills[q].phase = "unused"
         /\ payout[q].status \in OpenPayoutStatuses => Bills[q].phase = "open"
         /\ payout[q].status = "COMPLETED" => Bills[q].phase = "paid"
         /\ payout[q].status = "REJECTED" => Bills[q].phase = "void"
BY DEF Bills, OpenPayoutStatuses

\* A step that moves one payout moves one bill.
LEMMA OneBillMoves ==
  ASSUME NEW q \in Payouts, NEW row,
         \A u \in Payouts : u # q => payout'[u] = payout[u],
         Bills'[q] = row
  PROVE  Bills' = [Bills EXCEPT ![q] = row]
<1>1. \A u \in Payouts : u # q => Bills'[u] = Bills[u]
  BY DEF Bills
<1> QED  BY <1>1 DEF Bills

\* A reservation opens a bill.
LEMMA ReservationOpensABill ==
  ASSUME MarketTypeOK, AskInv, AsksWorthily, NEW w \in Requesters, Reserves(w)
  PROVE  Payer!Next
<1> DEFINE s == asking[w].seller
           E == asking[w].claims
<1>0. payout \in [Payouts -> PayoutRow] /\ earning \in [Orders -> EarningRow]
  BY DEF MarketTypeOK, DeskTypeOK, TypeOK, EarningTypeOK
<1>1. /\ asking[w] # NoCall /\ s \in Sellers /\ E \in SUBSET Orders
      /\ \A o \in E : earning[o].payout = NoPayout
  BY ReservesStep
<1>2. PICK q \in Payouts :
        /\ payout[q].status = "UNUSED"
        /\ payout' = [payout EXCEPT ![q] =
                        [ status |-> "REQUESTED", seller |-> s, claims |-> E,
                          destination |-> profile[s].destination ]]
        /\ earning' = [o \in Orders |-> IF o \in E THEN [earning[o] EXCEPT !.payout = q]
                                        ELSE earning[o]]
  BY ReservesStep
<1>3. ~HasOpenPayout(s) /\ Total(E) >= MinPayout /\ \A o \in E : SellerOf[o] = s
  BY <1>1 DEF AskInv, AsksWorthily
<1> HIDE DEF s, E
<1>4. \A u \in Payouts : Bills[u] # Payer!Open(s)
  <2>1. SUFFICES ASSUME NEW u \in Payouts, Bills[u] = Payer!Open(s)  PROVE FALSE
    OBVIOUS
  <2>2. payout[u].seller = s /\ Bills[u].phase = "open"
    BY <2>1, BillOfARow DEF Payer!Open
  <2>3. payout[u].status \in OpenPayoutStatuses
    BY <1>0, <2>2, BillOfARow DEF PayoutRow
  <2> QED  BY <1>3, <2>2, <2>3 DEF HasOpenPayout
<1>5. E \subseteq Payer!Unclaimed(s)
  BY <1>1, <1>3 DEF Payer!Unclaimed, ClaimOf
<1>6. Bills' = [Bills EXCEPT ![q] = Payer!Open(s)]
  <2>1. /\ payout'[q].status = "REQUESTED" /\ payout'[q].seller = s
        /\ \A u \in Payouts : u # q => payout'[u] = payout[u]
    BY <1>0, <1>2
  <2>2. Bills'[q] = Payer!Open(s)
    BY <2>1 DEF Bills, OpenPayoutStatuses, Payer!Open
  <2> QED  BY <2>1, <2>2, OneBillMoves
<1>7. ClaimOf' = [o \in Orders |-> IF o \in E THEN q ELSE ClaimOf[o]]
  BY <1>0, <1>2 DEF ClaimOf, EarningRow
<1>8. Payer!Opens(q, s, E)
  BY <1>2, <1>3, <1>4, <1>5, <1>6, <1>7, BillOfARow DEF Payer!Opens
<1> QED  BY <1>1, <1>8 DEF Payer!Next, s, E

\* An approval is invisible, a completion pays the bill, a rejection voids it.
LEMMA AdministratorsMoveBills ==
  ASSUME MarketTypeOK, NEW q \in Payouts, AdvancesPayout(q) \/ RejectPayout(q)
  PROVE  Payer!Next \/ UNCHANGED << ClaimOf, Bills >>
<1>0. payout \in [Payouts -> PayoutRow] /\ earning \in [Orders -> EarningRow]
  BY DEF MarketTypeOK, DeskTypeOK, TypeOK, EarningTypeOK
<1>1. CASE AdvancesPayout(q)
  <2>1. /\ payout[q].status \in OpenPayoutStatuses
        /\ payout'[q].status \in OpenPayoutStatuses \cup { "COMPLETED" }
        /\ payout'[q].seller = payout[q].seller
        /\ \A u \in Payouts : u # q => payout'[u] = payout[u]
        /\ earning' = earning
    BY <1>1, AdvancesStep
  <2>2. ClaimOf' = ClaimOf
    BY <2>1 DEF ClaimOf
  <2>3. CASE payout'[q].status \in OpenPayoutStatuses
    <3>1. Bills'[q] = Bills[q]
      BY <2>1, <2>3 DEF Bills, OpenPayoutStatuses
    <3>2. Bills' = [Bills EXCEPT ![q] = Bills[q]]
      BY <2>1, <3>1, OneBillMoves
    <3> QED  BY <2>2, <3>2 DEF Bills
  <2>4. CASE payout'[q].status = "COMPLETED"
    <3>1. Bills'[q] = [Bills[q] EXCEPT !.phase = "paid"]
      BY <2>1, <2>4 DEF Bills, OpenPayoutStatuses
    <3>2. Bills' = [Bills EXCEPT ![q].phase = "paid"]
      BY <2>1, <3>1, OneBillMoves
    <3>3. Payer!Pays(q)
      BY <2>1, <2>2, <3>2, BillOfARow DEF Payer!Pays
    <3> QED  BY <3>3 DEF Payer!Next
  <2> QED  BY <2>1, <2>3, <2>4
<1>2. CASE RejectPayout(q)
  <2>1. /\ payout[q].status \in OpenPayoutStatuses
        /\ payout'[q].status = "REJECTED" /\ payout'[q].seller = payout[q].seller
        /\ \A u \in Payouts : u # q => payout'[u] = payout[u]
        /\ ReleaseEarnings(q)
    BY <1>2, RejectsStep
  <2>2. Bills'[q] = [Bills[q] EXCEPT !.phase = "void"]
    BY <2>1 DEF Bills, OpenPayoutStatuses
  <2>3. Bills' = [Bills EXCEPT ![q].phase = "void"]
    BY <2>1, <2>2, OneBillMoves
  <2>4. ClaimOf' = [o \in Orders |-> IF o \in Payer!Claimed(q) THEN NoPayout ELSE ClaimOf[o]]
    BY <1>0, <2>1 DEF ReleaseEarnings, ClaimOf, Payer!Claimed, EarningRow
  <2>5. Payer!Voids(q)
    BY <2>1, <2>3, <2>4, BillOfARow DEF Payer!Voids
  <2> QED  BY <2>5 DEF Payer!Next
<1> QED  BY <1>1, <1>2

\* Every step of the marketplace is one of the ledger of bills, or invisible to it.
LEMMA BillStep ==
  ASSUME MarketTypeOK, AskInv, AsksWorthily, [MarketNext]_marketVars
  PROVE  Payer!Next \/ UNCHANGED << ClaimOf, Bills >>
<1>1. CASE Next /\ UNCHANGED deskVars
  <2>1. \A o \in Orders : earning'[o].payout = earning[o].payout
    BY <1>1, HandlersKeepPayouts DEF MarketTypeOK
  <2> QED  BY <1>1, <2>1 DEF ClaimOf, Bills, deskVars
<1>2. CASE UNCHANGED << payout, earning >>
  BY <1>2 DEF ClaimOf, Bills
<1> QED
  BY <1>1, <1>2, ReservationOpensABill, AdministratorsMoveBills
  DEF MarketNext, DeskNext, AdvancesPayout, ReadsBalance, GivesUp, UpdatePayoutMethod,
      deskVars, marketVars, vars

\* The handlers and the desk implement the ledger of bills: an earning is claimed by
\* one payout at a time, paid out once and for good, and comes back whole from a
\* rejected payout, whatever orders, requests and administrators race.
THEOREM DeskImplementsPayoutLedger == MarketSpec => ImplementsPayouts
<1>1. MarketInit => Payer!Init
  <2> SUFFICES ASSUME MarketInit  PROVE Payer!Init
    OBVIOUS
  <2>1. \A q \in Payouts : payout[q].status = "UNUSED" /\ payout[q].seller \in Sellers
    BY PayoutAssumption DEF MarketInit, DeskInit
  <2>2. Bills \in [Payouts -> [ phase : { "unused" }, seller : Sellers ]]
    <3>1. ASSUME NEW q \in Payouts  PROVE Bills[q] \in [ phase : { "unused" }, seller : Sellers ]
      <4>1. Bills[q] = [ phase |-> Bills[q].phase, seller |-> Bills[q].seller ]
        BY DEF Bills
      <4>2. Bills[q].phase = "unused" /\ Bills[q].seller \in Sellers
        BY <2>1, BillOfARow
      <4> QED  BY <4>1, <4>2
    <3>2. Bills = [q \in Payouts |-> Bills[q]]
      BY DEF Bills
    <3> QED  BY <3>1, <3>2
  <2>3. ClaimOf = [o \in Orders |-> NoPayout]
    BY DEF MarketInit, Init, EarningInit, NoEarning, ClaimOf
  <2> QED  BY <2>1, <2>2, <2>3 DEF Payer!Init
<1>2. MarketTypeOK /\ AskInv /\ AsksWorthily /\ [MarketNext]_marketVars
      => [Payer!Next]_<< ClaimOf, Bills >>
  BY BillStep
<1> QED
  BY <1>1, <1>2, MarketTypeCorrect, AskInvariant, WorthInvariant, PTL
  DEF MarketSpec, ImplementsPayouts, Payer!Spec

=============================================================================
