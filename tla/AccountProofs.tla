---------------------------- MODULE AccountProofs ----------------------------
(***************************************************************************)
(* Proofs about one account: its one-time codes, its addresses, its        *)
(* sessions and the documents that verify a seller, for any number of      *)
(* requests, tokens, codes, clients and documents.                         *)
(***************************************************************************)
EXTENDS OtpCodes, Places, Sessions, SellerVerification, FiniteSetTheorems, TLAPS

-----------------------------------------------------------------------------
(* One-time codes                                                            *)

\* A set of numbers up to n has a highest one: of the sets of those above an
\* element, take a minimal one.
LEMMA Highest ==
  ASSUME NEW n \in Nat, NEW rows \in SUBSET (1 .. n), rows # {}
  PROVE  \E c \in rows : \A d \in rows : d <= c
<1> DEFINE Above(c) == { d \in rows : d > c }
           All == { Above(c) : c \in rows }
           R == StrictSubsetOrdering(1 .. n)
<1>1. All \subseteq FiniteSubsetsOf(1 .. n)
  <2>1. IsFiniteSet(1 .. n)
    BY FS_Interval
  <2>2. ASSUME NEW s \in SUBSET (1 .. n)  PROVE IsFiniteSet(s)
    BY <2>1, FS_Subset
  <2> QED  BY <2>2 DEF FiniteSubsetsOf
<1>2. PICK low \in All : \A s \in All : << s, low >> \notin R
  <2>1. IsWellFoundedOn(R, FiniteSubsetsOf(1 .. n)) /\ All # {}
    BY FS_StrictSubsetOrderingWellFounded
  <2> HIDE DEF All, R
  <2> QED  BY <1>1, <2>1, WFMin
<1>3. PICK c \in rows : low = Above(c)
  BY <1>2
<1>4. ASSUME NEW d \in rows, d > c  PROVE FALSE
  <2>1. Above(d) \subseteq Above(c) /\ d \in Above(c) /\ d \notin Above(d)
    <3>1. \A e \in rows : e \in Int
      OBVIOUS
    <3>2. ~(d > d) /\ \A e \in rows : e > d => e > c
      BY <1>4, <3>1
    <3> QED  BY <1>4, <3>2
  <2>2. << Above(d), Above(c) >> \in R
    BY <2>1 DEF StrictSubsetOrdering
  <2> QED  BY <1>2, <1>3, <2>2
<1> QED  BY <1>4

\* A spent code has no row; a call knows that its code was spent before it was
\* sent, and finds only codes that are there.
SpentInv ==
  /\ OtpTypeOK
  /\ \A c \in spent : otp[c].row = "gone"
  /\ \A k \in Calls :
       /\ call[k].late => call[k].guess \in spent
       /\ call[k].at \in { "wrong", "right" } => call[k].found \in Codes
       /\ call[k].at = "right" => ~call[k].late

LEMMA LatestIsThere ==
  ASSUME SpentInv
  PROVE  Latest = NoCode \/ (Latest \in Codes /\ otp[Latest].row \in { "young", "live" })
<1> DEFINE rows == { c \in Codes : otp[c].row \in { "young", "live" } }
<1>1. \E c \in rows \cup { NoCode } : \A d \in rows : d <= c
  <2>1. MaxCode \in Nat /\ rows \in SUBSET (1 .. MaxCode)
    BY OtpConstants DEF Codes
  <2>2. CASE rows = {}
    BY <2>2
  <2>3. CASE rows # {}
    <3> HIDE DEF rows
    <3> QED  BY <2>1, <2>3, Highest
  <2> QED  BY <2>2, <2>3
<1>2. Latest \in rows \cup { NoCode }
  <2>1. Latest = CHOOSE c \in rows \cup { NoCode } : \A d \in rows : d <= c
    BY DEF Latest
  <2> HIDE DEF rows
  <2> QED  BY <1>1, <2>1
<1> QED  BY <1>2

\* Steps that leave the calls alone bring no deleted row back.
LEMMA RowsStep ==
  ASSUME SpentInv, Asks \/ Passes
  PROVE  SpentInv'
<1>1. UNCHANGED << call, spent >>
  BY DEF Asks, Passes, PassesCooldown, StartsIssuing, GivesUp, IssuesCode, Ages
<1>2. /\ otp' \in [Codes -> Otp]
      /\ \A c \in Codes : otp[c].row = "gone" => otp'[c].row = "gone"
  <2>1. CASE otp' = otp
    BY <2>1 DEF SpentInv, OtpTypeOK
  <2>2. ASSUME NEW i \in Askers, NEW c \in Codes, IssuesCode(i, c)
        PROVE  /\ otp' \in [Codes -> Otp]
               /\ \A d \in Codes : otp[d].row = "gone" => otp'[d].row = "gone"
    <3> DEFINE rows == Deleted(asker[i].seen)
    <3>1. rows \in [Codes -> Otp] /\ \A d \in Codes : otp[d].row = "gone" => rows[d].row = "gone"
      BY OtpConstants DEF Deleted, Otp, RowStates, SpentInv, OtpTypeOK
    <3>2. otp' = [rows EXCEPT ![c] = [ rows[c] EXCEPT !.row = "young" ]] /\ otp[c].row = "none"
      BY <2>2 DEF IssuesCode
    <3>3. [ rows[c] EXCEPT !.row = "young" ] \in Otp
      BY <3>1 DEF Otp, RowStates
    <3> HIDE DEF rows
    <3> QED  BY <3>1, <3>2, <3>3
  <2>3. ASSUME NEW c \in Codes, Ages(c)
        PROVE  /\ otp' \in [Codes -> Otp]
               /\ \A d \in Codes : otp[d].row = "gone" => otp'[d].row = "gone"
    <3>1. PICK state \in { "live", "expired" } : otp' = [otp EXCEPT ![c].row = state]
      BY <2>3 DEF Ages
    <3>2. [ otp[c] EXCEPT !.row = state ] \in Otp /\ otp[c].row # "gone"
      BY <2>3 DEF Ages, SpentInv, OtpTypeOK, Otp, RowStates
    <3> QED  BY <3>1, <3>2 DEF SpentInv, OtpTypeOK
  <2> QED
    BY <2>1, <2>2, <2>3
       DEF Asks, Passes, PassesCooldown, StartsIssuing, GivesUp
<1>3. asker' \in [Askers -> Asker]
  <2>1. NoAsker \in Asker /\ [ at |-> "clearing", seen |-> Existing ] \in Asker
    BY DEF NoAsker, Asker, Existing
  <2>2. \A i \in Askers : [ asker[i] EXCEPT !.at = "cooled" ] \in Asker
    BY DEF SpentInv, OtpTypeOK, Asker
  <2> QED
    BY <2>1, <2>2 DEF Asks, Passes, PassesCooldown, StartsIssuing, GivesUp, IssuesCode, Ages, SpentInv, OtpTypeOK
<1>4. issued' \in 0 .. IssueLimit /\ verified' \in 0 .. VerifyLimit
  BY OtpConstants DEF Asks, Passes, PassesCooldown, StartsIssuing, GivesUp, IssuesCode, Ages,
       Hit, SpentInv, OtpTypeOK
<1> QED  BY <1>1, <1>2, <1>3, <1>4 DEF SpentInv, OtpTypeOK

\* A deletion leaves no row, a recorded attempt brings none back.
LEMMA RowsWritten ==
  ASSUME SpentInv, NEW c \in Codes, NEW attempts \in 0 .. MaxAttempts,
         otp' = Deleted({ c }) \/ otp' = Recorded(c, attempts)
  PROVE  /\ otp' \in [Codes -> Otp]
         /\ \A d \in Codes : otp[d].row = "gone" => otp'[d].row = "gone"
<1>1. CASE otp' = Deleted({ c })
  BY <1>1, OtpConstants DEF Deleted, Otp, RowStates, SpentInv, OtpTypeOK
<1>2. CASE otp' = Recorded(c, attempts)
  <2>1. [ otp[c] EXCEPT !.attempts = attempts ] \in Otp
    BY DEF SpentInv, OtpTypeOK, Otp
  <2>2. [ otp[c] EXCEPT !.attempts = attempts ].row = otp[c].row
    BY DEF SpentInv, OtpTypeOK, Otp
  <2> QED  BY <1>2, <2>1, <2>2 DEF Recorded, SpentInv, OtpTypeOK
<1> QED  BY <1>1, <1>2

LEMMA HangsUp ==
  ASSUME SpentInv, NEW k \in Calls, Hangs(k)
  PROVE  /\ call' \in [Calls -> Call]
         /\ call'[k] = NoCall /\ \A j \in Calls \ { k } : call'[j] = call[j]
<1>1. NoCall \in Call
  BY OtpConstants DEF NoCall, Call
<1> QED  BY <1>1 DEF Hangs, SpentInv, OtpTypeOK

\* The calls after a step of one of them.
LEMMA CallMoves ==
  ASSUME SpentInv, NEW k \in Calls, NEW next \in Call,
         call' = [call EXCEPT ![k] = next], spent \subseteq spent',
         next.late => next.guess \in spent',
         next.at \in { "wrong", "right" } => next.found \in Codes,
         next.at = "right" => ~next.late
  PROVE  /\ call' \in [Calls -> Call]
         /\ \A j \in Calls :
              /\ call'[j].late => call'[j].guess \in spent'
              /\ call'[j].at \in { "wrong", "right" } => call'[j].found \in Codes
              /\ call'[j].at = "right" => ~call'[j].late
BY DEF SpentInv, OtpTypeOK

\* The step writes rows, calls and spent codes so that the invariant stays.
LEMMA VerifiesSoundly ==
  ASSUME SpentInv, NEW k \in Calls, NEW next \in Call,
         call' = [call EXCEPT ![k] = next],
         next.late => next.guess \in spent',
         next.at \in { "wrong", "right" } => next.found \in Codes,
         next.at = "right" => ~next.late,
         UNCHANGED << asker, issued >>, verified' \in 0 .. VerifyLimit,
         spent \subseteq spent', spent' \subseteq Codes,
         otp' \in [Codes -> Otp], \A c \in spent' : otp'[c].row = "gone"
  PROVE  SpentInv'
BY CallMoves DEF SpentInv, OtpTypeOK

LEMMA SubmitsStep ==
  ASSUME SpentInv, NEW k \in Calls, NEW guess \in Codes \cup { NoCode }, Submits(k, guess)
  PROVE  SpentInv'
<1> DEFINE next == [ NoCall EXCEPT !.at = "counted", !.guess = guess, !.late = guess \in spent ]
<1>1. (guess \in spent) \in BOOLEAN
  OBVIOUS
<1>2. /\ next \in Call /\ next.guess = guess /\ next.at = "counted"
      /\ next.late => guess \in spent
  <2>1. ASSUME NEW late \in BOOLEAN
        PROVE  LET later == [ NoCall EXCEPT !.at = "counted", !.guess = guess, !.late = late ] IN
               /\ later \in Call /\ later.guess = guess /\ later.at = "counted"
               /\ later.late = late
    <3>1. NoCall \in Call
      BY OtpConstants DEF NoCall, Call
    <3> QED  BY <3>1 DEF Call
  <2> QED  BY <1>1, <2>1
<1>3. call' = [call EXCEPT ![k] = next] /\ UNCHANGED << otp, asker, issued, spent >>
  BY DEF Submits
<1>4. verified' \in 0 .. VerifyLimit
  BY OtpConstants DEF Submits, Hit, SpentInv, OtpTypeOK
<1>5. /\ spent' \subseteq Codes /\ otp' \in [Codes -> Otp]
      /\ \A c \in spent' : otp'[c].row = "gone"
  BY <1>3 DEF SpentInv, OtpTypeOK
<1> HIDE DEF next
<1> QED  BY <1>2, <1>3, <1>4, <1>5, VerifiesSoundly

\* A call that goes idle knows nothing.
LEMMA HangsSoundly ==
  ASSUME SpentInv, NEW k \in Calls, Hangs(k),
         UNCHANGED << asker, issued, spent >>, verified' \in 0 .. VerifyLimit,
         otp' \in [Codes -> Otp], \A c \in Codes : otp[c].row = "gone" => otp'[c].row = "gone"
  PROVE  SpentInv'
<1>1. /\ NoCall \in Call /\ ~NoCall.late
      /\ NoCall.at \notin { "wrong", "right" } /\ NoCall.at # "right"
  BY OtpConstants DEF NoCall, Call
<1>2. /\ spent' \subseteq Codes
      /\ \A c \in spent' : otp'[c].row = "gone"
  BY DEF SpentInv, OtpTypeOK
<1>3. call' = [call EXCEPT ![k] = NoCall]
  BY DEF Hangs
<1> HIDE DEF NoCall
<1> QED  BY <1>1, <1>2, <1>3, VerifiesSoundly

\* A code that is found is there, so no call that was sent after it was spent
\* finds it.
LEMMA ComparesStep ==
  ASSUME SpentInv, NEW k \in Calls, ComparesCode(k)
  PROVE  SpentInv'
<1>1. /\ UNCHANGED << otp, asker, issued, spent >> /\ verified' \in 0 .. VerifyLimit
      /\ otp' \in [Codes -> Otp] /\ spent' \subseteq Codes
      /\ \A c \in spent' : otp'[c].row = "gone"
  BY DEF ComparesCode, SpentInv, OtpTypeOK
<1>2. CASE Latest = NoCode
  <2>1. Hangs(k)
    BY <1>2 DEF ComparesCode
  <2> QED  BY <1>1, <2>1, HangsSoundly
<1>3. CASE Latest # NoCode
  <2> DEFINE latest == Latest
             right == [ call[k] EXCEPT !.at = "right", !.found = latest ]
             wrong == [ NoCall EXCEPT !.at = "wrong", !.found = latest,
                                      !.read = otp[latest].attempts ]
             next == IF latest = call[k].guess THEN right ELSE wrong
  <2>1. call' = [call EXCEPT ![k] = next]
    BY <1>3 DEF ComparesCode
  <2>2. latest \in Codes /\ otp[latest].row \in { "young", "live" }
    BY <1>3, LatestIsThere
  <2>3. otp[latest].attempts \in 0 .. MaxAttempts /\ call[k] \in Call
    BY <2>2 DEF SpentInv, OtpTypeOK, Otp
  <2>4. latest \notin spent
    BY <2>2 DEF SpentInv
  <2>5. call[k].late => call[k].guess \in spent
    BY DEF SpentInv
  <2> HIDE DEF latest
  <2>6. CASE latest = call[k].guess
    <3>1. /\ right \in Call /\ right.at = "right" /\ right.found = latest
          /\ right.late = call[k].late /\ right.guess = call[k].guess
      BY <2>2, <2>3 DEF Call
    <3>2. ~right.late
      BY <2>4, <2>5, <2>6, <3>1
    <3>3. next = right
      BY <2>6
    <3> HIDE DEF next, right
    <3> QED  BY <1>1, <2>1, <2>2, <3>1, <3>2, <3>3, VerifiesSoundly
  <2>7. CASE latest # call[k].guess
    <3>1. NoCall \in Call /\ ~NoCall.late
      BY OtpConstants DEF NoCall, Call
    <3> HIDE DEF NoCall
    <3>2. wrong \in Call /\ wrong.at = "wrong" /\ wrong.found = latest /\ ~wrong.late
      BY <2>2, <2>3, <3>1 DEF Call
    <3>3. next = wrong
      BY <2>7
    <3> HIDE DEF next, wrong
    <3> QED  BY <1>1, <2>1, <2>2, <3>2, <3>3, VerifiesSoundly
  <2> QED  BY <2>6, <2>7
<1> QED  BY <1>2, <1>3

LEMMA CountsStep ==
  ASSUME SpentInv, NEW k \in Calls, CountsAttempt(k)
  PROVE  SpentInv'
<1> DEFINE c == call[k].found
           attempts == call[k].read + 1
<1>1. c \in Codes /\ attempts \in Nat
  BY OtpConstants DEF CountsAttempt, SpentInv, OtpTypeOK, Call
<1>2. \/ otp' = Deleted({ c })
      \/ otp' = Recorded(c, attempts) /\ attempts \in 0 .. MaxAttempts
  BY <1>1, OtpConstants DEF CountsAttempt
<1>3. 0 \in 0 .. MaxAttempts
  BY OtpConstants
<1> HIDE DEF c, attempts
<1>4. /\ otp' \in [Codes -> Otp]
      /\ \A d \in Codes : otp[d].row = "gone" => otp'[d].row = "gone"
  BY <1>1, <1>2, <1>3, RowsWritten
<1>5. Hangs(k) /\ UNCHANGED << asker, issued, verified, spent >>
  BY DEF CountsAttempt
<1> QED  BY <1>4, <1>5, HangsSoundly DEF SpentInv, OtpTypeOK

LEMMA SpendsStep ==
  ASSUME SpentInv, NEW k \in Calls, SpendsCode(k)
  PROVE  SpentInv'
<1> DEFINE c == call[k].found
           next == [ NoCall EXCEPT !.at = "consumed" ]
<1>1. c \in Codes /\ otp' = Deleted({ c }) /\ spent' = spent \cup { c }
  BY DEF SpendsCode, SpentInv
<1>2. NoCall \in Call /\ ~NoCall.late
  BY OtpConstants DEF NoCall, Call
<1>3. next \in Call /\ next.at = "consumed" /\ ~next.late
  BY <1>2 DEF Call, NoCall
<1>4. 0 \in 0 .. MaxAttempts
  BY OtpConstants
<1>5. otp' \in [Codes -> Otp] /\ \A d \in Codes : otp[d].row = "gone" => otp'[d].row = "gone"
  BY <1>1, <1>4, RowsWritten
<1>6. otp'[c].row = "gone"
  BY <1>1 DEF Deleted
<1>7. /\ spent' \subseteq Codes /\ spent \subseteq spent'
      /\ \A d \in spent' : otp'[d].row = "gone"
  BY <1>1, <1>5, <1>6 DEF SpentInv, OtpTypeOK
<1>8. /\ call' = [call EXCEPT ![k] = next] /\ UNCHANGED << asker, issued >>
      /\ verified' \in 0 .. VerifyLimit
  BY DEF SpendsCode, SpentInv, OtpTypeOK
<1> HIDE DEF next, c
<1> QED  BY <1>3, <1>5, <1>7, <1>8, VerifiesSoundly

LEMMA EndsStep ==
  ASSUME SpentInv, NEW k \in Calls, ClearsBudget(k) \/ CallFails(k)
  PROVE  SpentInv'
<1>1. Hangs(k) /\ UNCHANGED << otp, asker, issued, spent >>
  BY DEF ClearsBudget, CallFails
<1>2. verified' \in 0 .. VerifyLimit /\ otp' \in [Codes -> Otp]
  BY OtpConstants DEF ClearsBudget, CallFails, SpentInv, OtpTypeOK
<1> QED  BY <1>1, <1>2, HangsSoundly

LEMMA SpentInitially == OtpInit => SpentInv
<1> SUFFICES ASSUME OtpInit  PROVE SpentInv
  OBVIOUS
<1>1. /\ NoCall \in Call /\ ~NoCall.late /\ NoCall.at = "idle" /\ NoAsker \in Asker
      /\ [ row |-> "none", attempts |-> 0 ] \in Otp
  BY OtpConstants DEF NoCall, Call, NoAsker, Asker, Otp, RowStates
<1>2. 0 \in 0 .. IssueLimit /\ 0 \in 0 .. VerifyLimit
  BY OtpConstants
<1> QED  BY <1>1, <1>2 DEF OtpInit, SpentInv, OtpTypeOK

LEMMA SpentInvariant == OtpSpec => []SpentInv
<1>1. SpentInv /\ [OtpNext]_otpVars => SpentInv'
  <2> SUFFICES ASSUME SpentInv, [OtpNext]_otpVars  PROVE SpentInv'
    OBVIOUS
  <2>1. CASE UNCHANGED otpVars
    BY <2>1 DEF otpVars, SpentInv, OtpTypeOK
  <2> QED
    BY <2>1, RowsStep, SubmitsStep, ComparesStep, CountsStep, SpendsStep, EndsStep
       DEF OtpNext, Verifies
<1> QED  BY <1>1, SpentInitially, PTL DEF OtpSpec

\* No request sent after a code was spent is accepted with it, however attempts,
\* expiry and resends interleave (verifyOtpInternal).
THEOREM SpentCodesStaySpent == OtpSpec => []SpentCodeStaysSpent
<1>1. SpentInv => SpentCodeStaysSpent
  BY DEF SpentInv, SpentCodeStaysSpent
<1> QED  BY <1>1, SpentInvariant, PTL

-----------------------------------------------------------------------------
(* Addresses                                                                 *)

\* A place in a commune names the town of that commune.
Consistent(place) == place.commune # NoPlace => place.town = TownOf[place.commune]

\* One transaction at a time holds the user; it knows whether there is an
\* address, and a buyer has no two.
AddressInv ==
  /\ PlacesTypeOK
  /\ \A r \in Rows : Consistent(address[r].place)
  /\ \A v \in Visits :
       /\ Consistent(visit[v].place)
       /\ visit[v].does = "locked" /\ visit[v].row = 0 /\ role = "BUYER" => LiveRows = {}
  /\ \A v, w \in Visits : visit[v].does = "locked" /\ visit[w].does = "locked" => v = w
  /\ role = "BUYER" => \A r, q \in LiveRows : r = q

\* The part of it that is about one request.
VisitSound(v) ==
  /\ Consistent(visit[v].place)
  /\ visit[v].does = "locked" /\ visit[v].row = 0 /\ role = "BUYER" => LiveRows = {}

\* A step of a request that writes no address and takes no lock.
LEMMA VisitMoves ==
  ASSUME AddressInv, NEW v \in Visits, NEW next \in Visit,
         visit' = [visit EXCEPT ![v] = next], Consistent(next.place), next.does # "locked",
         UNCHANGED << commune, counted, role >>,
         address' \in [Rows -> Address],
         \A r \in Rows : Consistent(address'[r].place),
         LiveRows' \subseteq LiveRows
  PROVE  AddressInv'
<1>1. /\ visit' \in [Visits -> Visit] /\ visit'[v] = next
      /\ \A w \in Visits \ { v } : visit'[w] = visit[w]
  BY DEF AddressInv, PlacesTypeOK
<1>2. PlacesTypeOK'
  BY <1>1 DEF AddressInv, PlacesTypeOK
<1>3. ASSUME NEW w \in Visits  PROVE VisitSound(w)'
  BY <1>1 DEF AddressInv, VisitSound, Consistent
<1> QED  BY <1>1, <1>2, <1>3 DEF AddressInv, VisitSound

LEMMA NoVisitIsVisit == NoVisit \in Visit /\ Consistent(NoVisit.place) /\ NoVisit.does = "idle"
BY DEF NoVisit, Visit, Nowhere, Place, Consistent

LEMMA ResolvedIsConsistent ==
  ASSUME NEW place \in Place
  PROVE  ResolvedPlace(place) \in Place /\ Consistent(ResolvedPlace(place))
BY PlacesConstants DEF ResolvedPlace, Place, Consistent

\* Deleting a commune leaves the towns of its addresses.
LEMMA CommunesStep ==
  ASSUME AddressInv, EditsCommunes
  PROVE  AddressInv'
<1>1. PICK c \in Communes : AddsCommune(c) \/ CountsUses(c) \/ DeletesCommune(c)
  BY DEF EditsCommunes
<1>2. UNCHANGED << role, visit >>
  BY <1>1 DEF AddsCommune, CountsUses, DeletesCommune
<1>3. commune' \in [Communes -> { "none", "there", "gone" }] /\ counted' \subseteq Communes
  BY <1>1 DEF AddsCommune, CountsUses, DeletesCommune, AddressInv, PlacesTypeOK
<1>4. /\ address' \in [Rows -> Address]
      /\ \A r \in Rows : Consistent(address'[r].place) /\ address'[r].status = address[r].status
  <2>1. CASE UNCHANGED address
    BY <2>1 DEF AddressInv, PlacesTypeOK
  <2>2. CASE DeletesCommune(c)
    <3>1. ASSUME NEW r \in Rows
          PROVE  /\ [ address[r] EXCEPT !.place = WithoutCommune(address[r].place, c) ] \in Address
                 /\ Consistent(WithoutCommune(address[r].place, c))
      <4>1. address[r] \in Address /\ Consistent(address[r].place)
        BY DEF AddressInv, PlacesTypeOK
      <4>2. /\ WithoutCommune(address[r].place, c) \in Place
            /\ Consistent(WithoutCommune(address[r].place, c))
        BY <4>1 DEF WithoutCommune, Address, Place, Consistent
      <4> QED  BY <4>1, <4>2 DEF Address
    <3>2. address' = [r \in Rows |-> [ address[r] EXCEPT !.place = WithoutCommune(address[r].place, c) ]]
      BY <2>2 DEF DeletesCommune
    <3>3. \A r \in Rows : address[r] \in Address
      BY DEF AddressInv, PlacesTypeOK
    <3> QED  BY <3>1, <3>2, <3>3 DEF Address
  <2> QED  BY <1>1, <2>1, <2>2 DEF AddsCommune, CountsUses
<1>5. LiveRows' = LiveRows
  BY <1>4 DEF LiveRows
<1> QED  BY <1>2, <1>3, <1>4, <1>5 DEF AddressInv, PlacesTypeOK, Consistent

LEMMA AsksStep ==
  ASSUME AddressInv, NEW v \in Visits, NEW place \in Place,
         AsksToCreate(v, place) \/ \E r \in Rows : AsksToEdit(v, r, place)
  PROVE  AddressInv'
<1>1. PICK does \in { "create", "edit" }, row \in Rows \cup { 0 }, to \in Place :
        GoesOn(v, does, row, to) /\ Consistent(to)
  <2>1. CASE AsksToCreate(v, place)
    BY <2>1, ResolvedIsConsistent DEF AsksToCreate
  <2>2. ASSUME NEW r \in Rows, AsksToEdit(v, r, place)
        PROVE  \E to \in Place : GoesOn(v, "edit", r, to) /\ Consistent(to)
    <3>1. address[r].place \in Place /\ Consistent(address[r].place)
      BY DEF AddressInv, PlacesTypeOK, Address
    <3>2. \A other \in MergedPlaces(place, address[r].place) : other \in Place
      BY <3>1 DEF MergedPlaces, Place
    <3> QED  BY <2>2, <3>1, <3>2, ResolvedIsConsistent DEF AsksToEdit
  <2> QED  BY <2>1, <2>2
<1> DEFINE next == [ does |-> does, row |-> row, place |-> to ]
<1>2. next \in Visit /\ next.place = to /\ next.does = does /\ visit' = [visit EXCEPT ![v] = next]
  BY <1>1 DEF Visit, GoesOn
<1>3. /\ UNCHANGED << commune, counted, role, address >> /\ address' \in [Rows -> Address]
      /\ LiveRows' = LiveRows /\ \A r \in Rows : Consistent(address'[r].place)
  BY DEF AsksToCreate, AsksToEdit, AddressInv, PlacesTypeOK, LiveRows
<1> HIDE DEF next
<1> QED  BY <1>1, <1>2, <1>3, VisitMoves

\* The lock keeps what it finds true.
LEMMA FindsStep ==
  ASSUME AddressInv, NEW v \in Visits, FindsCurrent(v)
  PROVE  AddressInv'
<1>1. PICK r \in Rows \cup { 0 } :
        /\ GoesOn(v, "locked", r, visit[v].place)
        /\ role = "BUYER" /\ LiveRows # {} => r \in LiveRows
  BY DEF FindsCurrent, LiveRows
<1>2. r = 0 /\ role = "BUYER" => LiveRows = {}
  BY <1>1, PlacesConstants DEF LiveRows, Rows
<1> DEFINE next == [ does |-> "locked", row |-> r, place |-> visit[v].place ]
<1>3. next \in Visit /\ Consistent(next.place)
  BY DEF Visit, AddressInv, PlacesTypeOK
<1>4. /\ visit' \in [Visits -> Visit] /\ visit'[v] = next
      /\ \A w \in Visits \ { v } : visit'[w] = visit[w]
  BY <1>1, <1>3 DEF GoesOn, AddressInv, PlacesTypeOK
<1>5. UNCHANGED << commune, counted, role, address >> /\ LiveRows' = LiveRows
  BY DEF FindsCurrent, LiveRows
<1>6. \A w \in Visits : visit[w].does # "locked"
  BY DEF FindsCurrent, OwnerLocked
<1>7. PlacesTypeOK'
  BY <1>4, <1>5 DEF AddressInv, PlacesTypeOK
<1>8. \A w \in Visits : VisitSound(w)'
  BY <1>2, <1>3, <1>4, <1>5 DEF AddressInv, VisitSound, Consistent
<1> QED  BY <1>4, <1>5, <1>6, <1>7, <1>8 DEF AddressInv, VisitSound

\* A new row appears only under the lock, and for a buyer only when there is none.
LEMMA WritesStep ==
  ASSUME AddressInv, NEW v \in Visits, WritesAddress(v)
  PROVE  AddressInv'
<1> DEFINE r == IF visit[v].row = 0 THEN NextRow ELSE visit[v].row
           status == IF visit[v].row = 0 THEN "live" ELSE address[r].status
           row == [ status |-> status, place |-> visit[v].place ]
<1>1. /\ r \in Rows /\ address' = [address EXCEPT ![r] = row] /\ visit[v].does = "locked"
      /\ visit' = [visit EXCEPT ![v] = NoVisit] /\ UNCHANGED << commune, counted, role >>
  BY DEF WritesAddress, GoesAway
<1>2. row \in Address /\ row.place = visit[v].place /\ row.status = status
  BY <1>1 DEF Address, AddressInv, PlacesTypeOK, Visit
<1>3. visit[v].row # 0 => status = address[r].status
  OBVIOUS
<1> HIDE DEF r, status, row
<1>4. /\ address' \in [Rows -> Address] /\ address'[r] = row
      /\ \A q \in Rows \ { r } : address'[q] = address[q]
  BY <1>1, <1>2 DEF AddressInv, PlacesTypeOK
<1>5. /\ visit' \in [Visits -> Visit] /\ visit'[v] = NoVisit
      /\ \A w \in Visits \ { v } : visit'[w] = visit[w]
  BY <1>1, NoVisitIsVisit DEF AddressInv, PlacesTypeOK
<1>6. PlacesTypeOK'
  BY <1>1, <1>4, <1>5 DEF AddressInv, PlacesTypeOK
<1>7. \A q \in Rows : Consistent(address'[q].place)
  BY <1>2, <1>4 DEF AddressInv
<1>8. \A w \in Visits : Consistent(visit'[w].place) /\ visit'[w].does # "locked"
  BY <1>1, <1>5, NoVisitIsVisit DEF AddressInv
<1>9. role = "BUYER" => \A q, t \in LiveRows' : q = t
  <2>1. CASE visit[v].row = 0
    <3>1. role = "BUYER" => LiveRows = {}
      BY <1>1, <2>1 DEF AddressInv
    <3>2. LiveRows' \subseteq LiveRows \cup { r }
      BY <1>4 DEF LiveRows
    <3> QED  BY <3>1, <3>2
  <2>2. CASE visit[v].row # 0
    <3>1. LiveRows' \subseteq LiveRows
      BY <1>2, <1>3, <1>4, <2>2 DEF LiveRows
    <3> QED  BY <3>1 DEF AddressInv
  <2> QED  BY <2>1, <2>2
<1> QED  BY <1>1, <1>6, <1>7, <1>8, <1>9 DEF AddressInv, Consistent

LEMMA EditsStep ==
  ASSUME AddressInv, NEW v \in Visits, EditsAddress(v) \/ VisitFails(v)
  PROVE  AddressInv'
<1>1. visit' = [visit EXCEPT ![v] = NoVisit] /\ UNCHANGED << commune, counted, role >>
  BY DEF EditsAddress, VisitFails, GoesAway
<1>2. /\ address' \in [Rows -> Address]
      /\ \A r \in Rows : Consistent(address'[r].place) /\ address'[r].status = address[r].status
  <2>1. CASE UNCHANGED address
    BY <2>1 DEF AddressInv, PlacesTypeOK
  <2>2. CASE EditsAddress(v)
    <3> DEFINE r == visit[v].row
               row == [ address[r] EXCEPT !.place = visit[v].place ]
    <3>1. address' = [address EXCEPT ![r] = row]
      BY <2>2 DEF EditsAddress
    <3>2. visit[v].place \in Place /\ Consistent(visit[v].place)
      BY DEF AddressInv, PlacesTypeOK, Visit
    <3>3. r \in Rows => row \in Address /\ row.status = address[r].status /\ row.place = visit[v].place
      BY <3>2 DEF AddressInv, PlacesTypeOK, Address
    <3> HIDE DEF r, row
    <3> QED  BY <3>1, <3>2, <3>3 DEF AddressInv, PlacesTypeOK
  <2> QED  BY <2>1, <2>2 DEF VisitFails
<1>3. LiveRows' \subseteq LiveRows
  BY <1>2 DEF LiveRows
<1>4. NoVisit.does # "locked"
  BY NoVisitIsVisit
<1> QED  BY <1>1, <1>2, <1>3, <1>4, NoVisitIsVisit, VisitMoves

LEMMA OwnerStep ==
  ASSUME AddressInv, BecomesSeller \/ \E r \in Rows : RemovesAddress(r)
  PROVE  AddressInv'
<1>1. CASE BecomesSeller
  BY <1>1 DEF BecomesSeller, AddressInv, PlacesTypeOK, Consistent, LiveRows
<1>2. CASE \E r \in Rows : RemovesAddress(r)
  <2>1. PICK r \in Rows : RemovesAddress(r)
    BY <1>2
  <2>2. [ address[r] EXCEPT !.status = "deleted" ] \in Address
    BY DEF AddressInv, PlacesTypeOK, Address
  <2>3. /\ address' \in [Rows -> Address]
        /\ \A q \in Rows : address'[q].place = address[q].place
    BY <2>1, <2>2 DEF RemovesAddress, AddressInv, PlacesTypeOK, Address
  <2>4. LiveRows' \subseteq LiveRows
    BY <2>1 DEF RemovesAddress, LiveRows, AddressInv, PlacesTypeOK, Address
  <2>5. UNCHANGED << commune, counted, role, visit >>
    BY <2>1 DEF RemovesAddress
  <2> QED  BY <2>3, <2>4, <2>5 DEF AddressInv, PlacesTypeOK, Consistent
<1> QED  BY <1>1, <1>2

LEMMA AddressInitially == PlacesInit => AddressInv
<1> SUFFICES ASSUME PlacesInit  PROVE AddressInv
  OBVIOUS
<1>1. [ status |-> "none", place |-> Nowhere ] \in Address /\ Consistent(Nowhere)
  BY DEF Address, Place, Nowhere, Consistent
<1>2. PlacesTypeOK
  BY <1>1, NoVisitIsVisit DEF PlacesInit, PlacesTypeOK
<1>3. LiveRows = {}
  BY DEF PlacesInit, LiveRows
<1> QED  BY <1>1, <1>2, <1>3, NoVisitIsVisit DEF PlacesInit, AddressInv

LEMMA AddressInvariant == PlacesSpec => []AddressInv
<1>1. AddressInv /\ [PlacesNext]_placeVars => AddressInv'
  <2> SUFFICES ASSUME AddressInv, [PlacesNext]_placeVars  PROVE AddressInv'
    OBVIOUS
  <2>1. CASE UNCHANGED placeVars
    BY <2>1 DEF placeVars, AddressInv, PlacesTypeOK, Consistent, LiveRows
  <2> QED
    BY <2>1, CommunesStep, AsksStep, FindsStep, WritesStep, EditsStep, OwnerStep DEF PlacesNext
<1> QED  BY <1>1, AddressInitially, PTL DEF PlacesSpec

\* Requests of one buyer that run at once leave one delivery address, in the town
\* of its commune, whatever becomes of communes and roles (addresses.service).
THEOREM BuyersHaveOneAddress == PlacesSpec => []OneDeliveryAddress
<1>1. AddressInv => OneDeliveryAddress
  <2> SUFFICES ASSUME AddressInv  PROVE OneDeliveryAddress
    OBVIOUS
  <2>1. ASSUME role = "BUYER"  PROVE Cardinality(LiveRows) <= 1
    <3>1. CASE LiveRows = {}
      BY <3>1, FS_EmptySet
    <3>2. CASE LiveRows # {}
      <4>1. PICK r \in LiveRows : TRUE
        BY <3>2
      <4>2. LiveRows = { r }
        BY <2>1, <4>1 DEF AddressInv
      <4>3. Cardinality({ r }) = 1
        BY FS_Singleton
      <4> QED  BY <4>2, <4>3
    <3> QED  BY <3>1, <3>2
  <2> QED  BY <2>1 DEF AddressInv, OneDeliveryAddress, Consistent, LiveRows
<1> QED  BY <1>1, AddressInvariant, PTL

-----------------------------------------------------------------------------
(* Sessions                                                                  *)

\* The steps after a call has left its token behind.
Past == { "checking", "minting", "issued" }

\* A client holds a live token, or one that a call of its own is replacing.
JarSound(d) ==
  jar[d] # NoToken =>
    \/ token[jar[d]] = "live"
    \/ /\ token[jar[d]] = "recent"
       /\ \E c \in Refreshes :
            refresh[c].by = d /\ refresh[c].with = jar[d] /\ refresh[c].at \in Past

\* A call in flight carries a token that is no replay, and that no other client
\* holds; what it was issued is live and in nobody's hands yet.
CallSound(c) ==
  /\ refresh[c].at # "refused"
  /\ refresh[c].at # "idle" =>
       /\ refresh[c].with \in Tokens /\ token[refresh[c].with] \in { "live", "recent" }
       /\ \A d \in Devices : jar[d] = refresh[c].with => d = refresh[c].by
  /\ refresh[c].at = "idle" => refresh[c].with = NoToken
  /\ refresh[c].at = "issued" =>
       /\ refresh[c].got \in Tokens /\ token[refresh[c].got] = "live"
       /\ \A d \in Devices : jar[d] # refresh[c].got
       /\ \A e \in Refreshes : refresh[e].with # refresh[c].got
       /\ \A e \in Refreshes \ { c } : refresh[e].at = "issued" => refresh[e].got # refresh[c].got

\* While nothing but races happens.
Peace ==
  /\ account = "ACTIVE"
  /\ \A d \in Devices : JarSound(d)
  /\ \A d, e \in Devices : jar[d] = jar[e] /\ jar[d] # NoToken => d = e
  /\ \A c \in Refreshes : CallSound(c)

SessionsInv == SessionsTypeOK /\ (calm => Peace)

\* One call takes a step.
LEMMA CallGoes ==
  ASSUME SessionsTypeOK, NEW c \in Refreshes, NEW step, Goes(c, step),
         step \in { "rotating", "checking", "minting", "refused" }
  PROVE  /\ refresh' \in [Refreshes -> Refresh]
         /\ refresh'[c].at = step /\ refresh'[c].by = refresh[c].by
         /\ refresh'[c].with = refresh[c].with /\ refresh'[c].got = refresh[c].got
         /\ \A e \in Refreshes \ { c } : refresh'[e] = refresh[e]
<1> DEFINE next == [ refresh[c] EXCEPT !.at = step ]
<1>1. /\ next \in Refresh /\ next.at = step /\ next.by = refresh[c].by
      /\ next.with = refresh[c].with /\ next.got = refresh[c].got
  BY DEF SessionsTypeOK, Refresh
<1>2. refresh' = [refresh EXCEPT ![c] = next]
  BY DEF Goes
<1> HIDE DEF next
<1> QED  BY <1>1, <1>2 DEF SessionsTypeOK

LEMMA CallEnds ==
  ASSUME SessionsTypeOK, NEW c \in Refreshes, Over(c)
  PROVE  /\ refresh' \in [Refreshes -> Refresh]
         /\ refresh'[c].at = "idle" /\ refresh'[c].with = NoToken
         /\ \A e \in Refreshes \ { c } : refresh'[e] = refresh[e]
<1> DEFINE next == [ at |-> "idle", by |-> refresh[c].by, with |-> NoToken, got |-> NoToken ]
<1>1. next \in Refresh /\ next.at = "idle" /\ next.with = NoToken
  BY DEF SessionsTypeOK, Refresh
<1>2. refresh' = [refresh EXCEPT ![c] = next]
  BY DEF Over
<1> HIDE DEF next
<1> QED  BY <1>1, <1>2 DEF SessionsTypeOK

LEMMA RevokesKeepShape ==
  ASSUME SessionsTypeOK, NEW ts
  PROVE  Revoked(ts) \in [Tokens -> TokenStates]
BY DEF Revoked, SessionsTypeOK, TokenStates

LEMMA SendsStep ==
  ASSUME SessionsInv, NEW c \in Refreshes, NEW d \in Devices, SendsRefresh(c, d)
  PROVE  SessionsInv'
<1> DEFINE next == [ at |-> "sent", by |-> d, with |-> jar[d], got |-> NoToken ]
<1>1. /\ next \in Refresh /\ next.at = "sent" /\ next.by = d /\ next.with = jar[d]
      /\ jar[d] \in Tokens /\ refresh[c].at = "idle"
  BY DEF SendsRefresh, SessionsInv, SessionsTypeOK, Refresh
<1>2. /\ refresh' = [refresh EXCEPT ![c] = next]
      /\ UNCHANGED << token, jar, account, leaving, purge, calm, alone >>
  BY DEF SendsRefresh
<1> HIDE DEF next
<1>3. /\ refresh' \in [Refreshes -> Refresh] /\ refresh'[c] = next
      /\ \A e \in Refreshes \ { c } : refresh'[e] = refresh[e]
  BY <1>1, <1>2 DEF SessionsInv, SessionsTypeOK
<1>4. SessionsTypeOK'
  BY <1>2, <1>3 DEF SessionsInv, SessionsTypeOK
<1>5. ASSUME calm  PROVE Peace'
  <2>1. Peace
    BY <1>5 DEF SessionsInv
  <2>2. ASSUME NEW e \in Devices  PROVE JarSound(e)'
    BY <1>1, <1>2, <1>3, <2>1 DEF Peace, JarSound, Past
  <2>3. ASSUME NEW e \in Refreshes  PROVE CallSound(e)'
    <3>1. CASE e = c
      <4>1. refresh'[e].at = "sent" /\ refresh'[e].by = d /\ refresh'[e].with = jar[d]
        BY <1>1, <1>3, <3>1
      <4>2. JarSound(d) /\ jar[d] # NoToken
        BY <1>1, <2>1, SessionConstants DEF Peace
      <4>3. token[jar[d]] \in { "live", "recent" }
        BY <4>2 DEF JarSound
      <4>4. \A x \in Devices : jar[x] = jar[d] => x = d
        BY <2>1, <4>2 DEF Peace
      <4>5. token'[jar[d]] \in { "live", "recent" } /\ \A x \in Devices : jar'[x] = jar[d] => x = d
        BY <1>2, <4>3, <4>4
      <4> QED  BY <1>1, <4>1, <4>5 DEF CallSound
    <3>2. CASE e # c
      <4>1. CallSound(e) /\ refresh'[e] = refresh[e]
        BY <1>3, <2>1, <3>2 DEF Peace
      <4>2. \A x \in Refreshes : refresh'[x].with = refresh[x].with \/ refresh'[x].with = jar[d]
        BY <1>1, <1>3
      <4>3. \A x \in Refreshes : refresh'[x].at = "issued" => refresh'[x] = refresh[x]
        BY <1>1, <1>3
      <4> QED  BY <1>2, <4>1, <4>2, <4>3 DEF CallSound
    <3> QED  BY <3>1, <3>2
  <2> QED  BY <1>2, <2>1, <2>2, <2>3 DEF Peace
<1> QED  BY <1>2, <1>4, <1>5 DEF SessionsInv

\* Between finding the token and minting a new one.
LEMMA AdvancesStep ==
  ASSUME SessionsInv, NEW c \in Refreshes, FindsToken(c) \/ Rotates(c) \/ ChecksAccount(c)
  PROVE  SessionsInv'
<1>1. UNCHANGED << jar, account, leaving, purge, calm, alone >>
  BY DEF FindsToken, Rotates, ChecksAccount
<1>2. PICK step \in { "rotating", "checking", "minting", "refused" } : Goes(c, step)
  BY DEF FindsToken, Rotates, ChecksAccount
<1>3. /\ refresh' \in [Refreshes -> Refresh]
      /\ refresh'[c].at = step /\ refresh'[c].by = refresh[c].by
      /\ refresh'[c].with = refresh[c].with /\ refresh'[c].got = refresh[c].got
      /\ \A e \in Refreshes \ { c } : refresh'[e] = refresh[e]
  BY <1>2, CallGoes DEF SessionsInv
<1>4. token' \in [Tokens -> TokenStates]
  BY RevokesKeepShape
     DEF FindsToken, RevokesAll, Rotates, ChecksAccount, SessionsInv, SessionsTypeOK, TokenStates
<1>5. SessionsTypeOK'
  BY <1>1, <1>3, <1>4 DEF SessionsInv, SessionsTypeOK
<1>6. ASSUME calm  PROVE Peace'
  <2>1. Peace /\ SessionsTypeOK
    BY <1>6 DEF SessionsInv
  <2>2. refresh[c].at \in { "sent", "rotating", "checking" }
    BY DEF FindsToken, Rotates, ChecksAccount
  <2>3. /\ refresh[c].with \in Tokens /\ token[refresh[c].with] \in { "live", "recent" }
        /\ \A d \in Devices : jar[d] = refresh[c].with => d = refresh[c].by
        /\ \A e \in Refreshes : refresh[e].at = "issued" => refresh[e].got # refresh[c].with
    BY <2>1, <2>2 DEF Peace, CallSound
  <2>4. step # "refused" /\ (refresh[c].at = "checking" => step = "minting")
        /\ (UNCHANGED token \/ (Rotates(c) /\ step = "checking"))
    <3>1. CASE FindsToken(c)
      <4>1. ~Replayed(refresh[c].with)
        BY <2>3 DEF Replayed
      <4> QED  BY <1>3, <3>1, <4>1, CallGoes, <2>1 DEF FindsToken
    <3>2. CASE Rotates(c)
      BY <1>3, <3>2, CallGoes, <2>1 DEF Rotates
    <3>3. CASE ChecksAccount(c)
      BY <1>3, <3>3, CallGoes, <2>1 DEF ChecksAccount, Peace
    <3> QED  BY <3>1, <3>2, <3>3
  <2>5. \A t \in Tokens :
          /\ token'[t] = token[t] \/ (t = refresh[c].with /\ token'[t] = "recent")
          /\ t = refresh[c].with => token'[t] \in { "live", "recent" }
    BY <2>1, <2>3, <2>4 DEF Rotates, SessionsTypeOK
  <2>6. ASSUME NEW d \in Devices  PROVE JarSound(d)'
    <3>1. CASE jar[d] = refresh[c].with
      <4>1. d = refresh[c].by
        BY <2>3, <3>1
      <4>2. CASE UNCHANGED token
        <5>1. CASE token[jar[d]] = "live"
          BY <1>1, <4>2, <5>1 DEF JarSound
        <5>2. CASE token[jar[d]] # "live"
          <6>1. PICK e \in Refreshes :
                  /\ token[jar[d]] = "recent" /\ refresh[e].by = d
                  /\ refresh[e].with = jar[d] /\ refresh[e].at \in Past
            BY <2>1, <2>3, <3>1, <5>2, SessionConstants DEF Peace, JarSound
          <6>2. refresh'[e].by = d /\ refresh'[e].with = jar[d] /\ refresh'[e].at \in Past
            <7>1. CASE e # c
              BY <1>3, <6>1, <7>1
            <7>2. CASE e = c
              <8>1. refresh[c].at = "checking"
                BY <2>2, <6>1, <7>2 DEF Past
              <8>2. refresh'[c].at = "minting"
                BY <1>3, <2>4, <8>1
              <8> QED  BY <1>3, <6>1, <7>2, <8>2 DEF Past
            <7> QED  BY <7>1, <7>2
          <6> QED  BY <1>1, <4>2, <6>1, <6>2 DEF JarSound
        <5> QED  BY <5>1, <5>2
      <4>3. CASE Rotates(c) /\ step = "checking"
        <5>1. token'[jar[d]] = "recent"
          BY <2>1, <2>3, <3>1, <4>3 DEF Rotates, SessionsTypeOK
        <5> QED  BY <1>1, <1>3, <3>1, <4>1, <4>3, <5>1 DEF JarSound, Past
      <4> QED  BY <2>4, <4>2, <4>3
    <3>2. CASE jar[d] # refresh[c].with
      <4>1. jar[d] # NoToken => jar[d] \in Tokens /\ token'[jar[d]] = token[jar[d]]
        BY <2>1, <2>5, <3>2 DEF SessionsTypeOK
      <4> QED  BY <1>1, <1>3, <2>1, <3>2, <4>1 DEF Peace, JarSound, Past
    <3> QED  BY <3>1, <3>2
  <2>7. ASSUME NEW e \in Refreshes  PROVE CallSound(e)'
    <3>1. CASE e = c
      BY <1>1, <1>3, <2>3, <2>4, <2>5, <3>1 DEF CallSound
    <3>2. CASE e # c
      <4>1. CallSound(e) /\ refresh'[e] = refresh[e]
        BY <1>3, <2>1, <3>2 DEF Peace
      <4>2. refresh[e].at # "idle" => token'[refresh[e].with] \in { "live", "recent" }
        BY <2>5, <4>1 DEF CallSound
      <4>3. refresh[e].at = "issued" => token'[refresh[e].got] = "live"
        BY <2>3, <2>5, <4>1 DEF CallSound
      <4>4. /\ \A x \in Refreshes : refresh'[x].with = refresh[x].with
            /\ \A x \in Refreshes : refresh'[x].at = "issued" =>
                  refresh[x].at = "issued" /\ refresh'[x].got = refresh[x].got
        BY <1>3, <1>2
      <4> QED  BY <1>1, <4>1, <4>2, <4>3, <4>4 DEF CallSound
    <3> QED  BY <3>1, <3>2
  <2> QED  BY <1>1, <2>1, <2>6, <2>7 DEF Peace
<1> QED  BY <1>1, <1>5, <1>6 DEF SessionsInv

\* A minted token is nobody's yet.
LEMMA UnusedIsNowhere ==
  ASSUME SessionsTypeOK, Peace, NEW t \in Tokens, token[t] = "unused"
  PROVE  /\ \A d \in Devices : jar[d] # t
         /\ \A c \in Refreshes : refresh[c].with # t
         /\ \A c \in Refreshes : refresh[c].at = "issued" => refresh[c].got # t
BY SessionConstants DEF Peace, JarSound, CallSound

LEMMA MintsStep ==
  ASSUME SessionsInv, NEW c \in Refreshes, NEW t \in Tokens, Mints(c, t)
  PROVE  SessionsInv'
<1> DEFINE next == [ refresh[c] EXCEPT !.at = "issued", !.got = t ]
<1>1. /\ next \in Refresh /\ next.at = "issued" /\ next.got = t
      /\ next.by = refresh[c].by /\ next.with = refresh[c].with
  BY DEF SessionsInv, SessionsTypeOK, Refresh
<1>2. /\ refresh' = [refresh EXCEPT ![c] = next] /\ refresh[c].at = "minting"
      /\ token[t] = "unused" /\ token' = [token EXCEPT ![t] = "live"]
      /\ UNCHANGED << jar, account, leaving, purge, calm, alone >>
  BY DEF Mints
<1> HIDE DEF next
<1>3. /\ refresh' \in [Refreshes -> Refresh] /\ refresh'[c] = next
      /\ \A e \in Refreshes \ { c } : refresh'[e] = refresh[e]
      /\ token' \in [Tokens -> TokenStates] /\ token'[t] = "live"
      /\ \A u \in Tokens \ { t } : token'[u] = token[u]
  BY <1>1, <1>2 DEF SessionsInv, SessionsTypeOK, TokenStates
<1>4. SessionsTypeOK'
  BY <1>2, <1>3 DEF SessionsInv, SessionsTypeOK
<1>5. ASSUME calm  PROVE Peace'
  <2>1. Peace /\ SessionsTypeOK
    BY <1>5 DEF SessionsInv
  <2>2. /\ \A d \in Devices : jar[d] # t
        /\ \A e \in Refreshes : refresh[e].with # t
        /\ \A e \in Refreshes : refresh[e].at = "issued" => refresh[e].got # t
    BY <1>2, <2>1, UnusedIsNowhere
  <2>3. ASSUME NEW d \in Devices  PROVE JarSound(d)'
    <3>1. jar[d] # NoToken => token'[jar[d]] = token[jar[d]]
      BY <1>3, <2>1, <2>2 DEF SessionsTypeOK
    <3>2. \A e \in Refreshes :
            /\ refresh'[e].by = refresh[e].by /\ refresh'[e].with = refresh[e].with
            /\ refresh[e].at \in Past => refresh'[e].at \in Past
      BY <1>1, <1>3 DEF Past
    <3> QED  BY <1>2, <2>1, <3>1, <3>2 DEF Peace, JarSound
  <2>4. ASSUME NEW e \in Refreshes  PROVE CallSound(e)'
    <3>1. CallSound(e) /\ CallSound(c)
      BY <2>1 DEF Peace
    <3>2. \A x \in Refreshes : refresh'[x].with = refresh[x].with
      BY <1>1, <1>3
    <3>3. CASE e = c
      BY <1>1, <1>2, <1>3, <2>2, <3>1, <3>2, <3>3 DEF CallSound
    <3>4. CASE e # c
      <4>1. refresh'[e] = refresh[e]
        BY <1>3, <3>4
      <4>2. refresh[e].at = "issued" => refresh[e].got # t /\ token'[refresh[e].got] = "live"
        BY <1>3, <2>2, <3>1 DEF CallSound
      <4>3. refresh[e].at # "idle" => token'[refresh[e].with] \in { "live", "recent" }
        BY <1>3, <2>2, <3>1 DEF CallSound
      <4> QED  BY <1>1, <1>2, <1>3, <3>1, <3>2, <4>1, <4>2, <4>3 DEF CallSound
    <3> QED  BY <3>3, <3>4
  <2> QED  BY <1>2, <2>1, <2>3, <2>4 DEF Peace
<1> QED  BY <1>2, <1>4, <1>5 DEF SessionsInv

\* The answer replaces the token of the client.
LEMMA HearsStep ==
  ASSUME SessionsInv, NEW c \in Refreshes, HearsBack(c)
  PROVE  SessionsInv'
<1> DEFINE d == refresh[c].by
<1>1. UNCHANGED << token, account, leaving, purge, calm, alone >> /\ Over(c)
  BY DEF HearsBack
<1>2. /\ refresh' \in [Refreshes -> Refresh]
      /\ refresh'[c].at = "idle" /\ refresh'[c].with = NoToken
      /\ \A e \in Refreshes \ { c } : refresh'[e] = refresh[e]
  BY <1>1, CallEnds DEF SessionsInv
<1>3. d \in Devices /\ refresh[c].got \in Tokens \cup { NoToken }
  BY DEF SessionsInv, SessionsTypeOK, Refresh
<1>4. jar' \in [Devices -> Tokens \cup { NoToken }]
  BY <1>3 DEF HearsBack, SessionsInv, SessionsTypeOK
<1>5. SessionsTypeOK'
  BY <1>1, <1>2, <1>4 DEF SessionsInv, SessionsTypeOK
<1>6. ASSUME calm  PROVE Peace'
  <2>1. Peace /\ SessionsTypeOK
    BY <1>6 DEF SessionsInv
  <2>2. CallSound(c)
    BY <2>1 DEF Peace
  <2> DEFINE t == refresh[c].got
  <2>3. refresh[c].at = "issued" /\ jar' = [jar EXCEPT ![d] = t]
    BY <2>2 DEF HearsBack, CallSound
  <2>4. /\ jar'[d] = t /\ t \in Tokens /\ token[t] = "live"
        /\ \A e \in Devices : jar[e] # t
        /\ \A e \in Refreshes : refresh[e].with # t
        /\ \A e \in Refreshes \ { c } : refresh[e].at = "issued" => refresh[e].got # t
        /\ \A e \in Devices \ { d } : jar'[e] = jar[e]
    BY <1>3, <2>1, <2>2, <2>3 DEF CallSound, SessionsTypeOK
  <2> HIDE DEF t
  <2>5. ASSUME NEW e \in Devices  PROVE JarSound(e)'
    <3>1. CASE e = d
      BY <1>1, <2>4, <3>1 DEF JarSound
    <3>2. CASE e # d
      <4>1. JarSound(e) /\ jar'[e] = jar[e]
        BY <2>1, <2>4, <3>2 DEF Peace
      <4>2. \A x \in Refreshes : refresh[x].by = e => refresh'[x] = refresh[x]
        BY <1>2, <3>2
      <4> QED  BY <1>1, <4>1, <4>2 DEF JarSound
    <3> QED  BY <3>1, <3>2
  <2>6. \A e, x \in Devices : jar'[e] = jar'[x] /\ jar'[e] # NoToken => e = x
    BY <2>1, <2>4 DEF Peace
  <2>7. ASSUME NEW e \in Refreshes  PROVE CallSound(e)'
    <3>1. CASE e = c
      BY <1>2, <3>1 DEF CallSound
    <3>2. CASE e # c
      <4>1. CallSound(e) /\ refresh'[e] = refresh[e]
        BY <1>2, <2>1, <3>2 DEF Peace
      <4>2. \A x \in Devices : jar'[x] = jar[x] \/ (jar'[x] = t /\ x = d)
        BY <2>4
      <4>3. refresh[e].with # t /\ (refresh[e].at = "issued" => refresh[e].got # t)
        BY <2>4, <3>2
      <4>4. \A x \in Refreshes : refresh'[x].with \in { refresh[x].with, NoToken }
        BY <1>2
      <4>5. \A x \in Refreshes : refresh'[x].at = "issued" => refresh'[x] = refresh[x]
        BY <1>2
      <4> QED  BY <1>1, <4>1, <4>2, <4>3, <4>4, <4>5, SessionConstants DEF CallSound
    <3> QED  BY <3>1, <3>2
  <2> QED  BY <1>1, <2>1, <2>5, <2>6, <2>7 DEF Peace
<1> QED  BY <1>1, <1>5, <1>6 DEF SessionsInv

LEMMA GraceStep ==
  ASSUME SessionsInv, NEW t \in Tokens, GraceEnds(t)
  PROVE  SessionsInv'
<1>1. /\ UNCHANGED << jar, refresh, account, leaving, purge, calm, alone >>
      /\ token[t] = "recent" /\ \A c \in Refreshes : refresh[c].with # t
      /\ token' \in [Tokens -> TokenStates] /\ \A u \in Tokens \ { t } : token'[u] = token[u]
  BY DEF GraceEnds, SessionsInv, SessionsTypeOK, TokenStates
<1>2. SessionsTypeOK'
  BY <1>1 DEF SessionsInv, SessionsTypeOK
<1>3. ASSUME calm  PROVE Peace'
  <2>1. Peace /\ SessionsTypeOK
    BY <1>3 DEF SessionsInv
  <2>2. ASSUME NEW d \in Devices  PROVE JarSound(d)'
    <3>1. jar[d] # t
      BY <1>1, <2>1, SessionConstants DEF Peace, JarSound
    <3> QED  BY <1>1, <2>1, <3>1 DEF Peace, JarSound, SessionsTypeOK
  <2>3. ASSUME NEW c \in Refreshes  PROVE CallSound(c)'
    BY <1>1, <2>1 DEF Peace, CallSound
  <2> QED  BY <1>1, <2>1, <2>2, <2>3 DEF Peace
<1> QED  BY <1>1, <1>2, <1>3 DEF SessionsInv

LEMMA LogsInStep ==
  ASSUME SessionsInv, NEW d \in Devices, NEW t \in Tokens, LogsIn(d, t)
  PROVE  SessionsInv'
<1>1. /\ UNCHANGED << refresh, account, purge, calm, alone >> /\ leaving' = FALSE
      /\ token[t] = "unused" /\ jar[d] = NoToken
      /\ token' \in [Tokens -> TokenStates] /\ token'[t] = "live"
      /\ \A u \in Tokens \ { t } : token'[u] = token[u]
      /\ jar' \in [Devices -> Tokens \cup { NoToken }] /\ jar'[d] = t
      /\ \A e \in Devices \ { d } : jar'[e] = jar[e]
  BY DEF LogsIn, SessionsInv, SessionsTypeOK, TokenStates
<1>2. SessionsTypeOK'
  BY <1>1 DEF SessionsInv, SessionsTypeOK
<1>3. ASSUME calm  PROVE Peace'
  <2>1. Peace /\ SessionsTypeOK
    BY <1>3 DEF SessionsInv
  <2>2. /\ \A e \in Devices : jar[e] # t
        /\ \A e \in Refreshes : refresh[e].with # t
        /\ \A e \in Refreshes : refresh[e].at = "issued" => refresh[e].got # t
    BY <1>1, <2>1, UnusedIsNowhere
  <2>3. ASSUME NEW e \in Devices  PROVE JarSound(e)'
    <3>1. CASE e = d
      BY <1>1, <3>1 DEF JarSound
    <3>2. CASE e # d
      <4>1. JarSound(e) /\ jar'[e] = jar[e]
        BY <1>1, <2>1, <3>2 DEF Peace
      <4>2. jar[e] # NoToken => token'[jar[e]] = token[jar[e]]
        BY <1>1, <2>1, <2>2 DEF SessionsTypeOK
      <4> QED  BY <1>1, <4>1, <4>2 DEF JarSound
    <3> QED  BY <3>1, <3>2
  <2>4. \A e, x \in Devices : jar'[e] = jar'[x] /\ jar'[e] # NoToken => e = x
    BY <1>1, <2>1, <2>2 DEF Peace
  <2>5. ASSUME NEW c \in Refreshes  PROVE CallSound(c)'
    <3>1. CallSound(c)
      BY <2>1 DEF Peace
    <3>2. refresh[c].at # "idle" => token'[refresh[c].with] = token[refresh[c].with]
      BY <1>1, <2>2, <3>1 DEF CallSound
    <3>3. refresh[c].at = "issued" => token'[refresh[c].got] = "live" /\ refresh[c].got # t
      BY <1>1, <2>2, <3>1 DEF CallSound
    <3>4. \A e \in Devices : jar'[e] = jar[e] \/ jar'[e] = t
      BY <1>1
    <3> QED  BY <1>1, <2>2, <3>1, <3>2, <3>3, <3>4 DEF CallSound
  <2> QED  BY <1>1, <2>1, <2>3, <2>4, <2>5 DEF Peace
<1> QED  BY <1>1, <1>2, <1>3 DEF SessionsInv

\* Everything else is no race, or touches no session.
LEMMA OtherStep ==
  ASSUME SessionsInv,
         \/ \E c \in Refreshes : Breaks(c)
         \/ \E d \in Devices, t \in Tokens : RevokesSession(d, t)
         \/ \E d \in Devices : LogsOut(d) \/ RevokesOthers(d)
         \/ ChangesPassword \/ AccountMoves
  PROVE  SessionsInv'
<1>1. CASE \E c \in Refreshes : Breaks(c)
  BY <1>1, CallEnds DEF Breaks, SessionsInv, SessionsTypeOK
<1>2. CASE \E d \in Devices, t \in Tokens : RevokesSession(d, t)
  BY <1>2, RevokesKeepShape DEF RevokesSession, SessionsInv, SessionsTypeOK
<1>3. CASE \E d \in Devices : LogsOut(d)
  BY <1>3 DEF LogsOut, SessionsInv, SessionsTypeOK, TokenStates
<1>4. CASE \E d \in Devices : RevokesOthers(d)
  BY <1>4, RevokesKeepShape DEF RevokesOthers, SessionsInv, SessionsTypeOK
<1>5. CASE ChangesPassword \/ Suspends \/ Reinstates \/ Anonymizes
  BY <1>5, RevokesKeepShape
     DEF ChangesPassword, Suspends, Reinstates, Anonymizes, RevokesAll, SessionsInv,
         SessionsTypeOK, Accounts
<1>6. CASE \E d \in Devices : RequestsDeletion(d)
  BY <1>6, RevokesKeepShape DEF RequestsDeletion, RevokesAll, SessionsInv, SessionsTypeOK
<1>7. CASE ListsAccount \/ SkipsAccount \/ \E d \in Devices : CancelsDeletion(d)
  <2>1. UNCHANGED << token, jar, refresh, account, calm, alone >>
    BY <1>7 DEF ListsAccount, SkipsAccount, CancelsDeletion
  <2>2. leaving' \in BOOLEAN /\ purge' \in BOOLEAN
    BY <1>7, Zenon DEF ListsAccount, SkipsAccount, CancelsDeletion, SessionsInv, SessionsTypeOK
  <2>3. SessionsTypeOK'
    BY <2>1, <2>2 DEF SessionsInv, SessionsTypeOK
  <2>4. Peace => Peace'
    BY <2>1 DEF Peace, JarSound, CallSound
  <2> QED  BY <2>1, <2>3, <2>4 DEF SessionsInv
<1> QED  BY <1>1, <1>2, <1>3, <1>4, <1>5, <1>6, <1>7 DEF AccountMoves

LEMMA FreshTokensAreUnused == \A t \in FreshTokens : t \in Tokens /\ token[t] = "unused"
BY DEF FreshTokens

LEMMA SessionsInitially == SessionsInit => SessionsInv
<1> SUFFICES ASSUME SessionsInit  PROVE SessionsInv
  OBVIOUS
<1>1. (CHOOSE d \in Devices : TRUE) \in Devices
  BY SessionConstants
<1>2. \A c \in Refreshes : refresh[c] \in Refresh /\ refresh[c].at = "idle" /\ refresh[c].with = NoToken
  BY <1>1 DEF SessionsInit, Refresh
<1>3. refresh \in [Refreshes -> Refresh]
  BY <1>2 DEF SessionsInit
<1>4. SessionsTypeOK
  BY <1>3 DEF SessionsInit, SessionsTypeOK, TokenStates, Accounts
<1>5. Peace
  BY <1>2 DEF SessionsInit, Peace, JarSound, CallSound
<1> QED  BY <1>4, <1>5 DEF SessionsInv

LEMMA SessionsInvariant == SessionsSpec => []SessionsInv
<1>1. SessionsInv /\ [SessionsNext]_sessionVars => SessionsInv'
  <2> SUFFICES ASSUME SessionsInv, [SessionsNext]_sessionVars  PROVE SessionsInv'
    OBVIOUS
  <2>1. CASE UNCHANGED sessionVars
    BY <2>1 DEF sessionVars, SessionsInv, SessionsTypeOK, Peace, JarSound, CallSound
  <2>2. CASE Refreshing
    BY <2>2, FreshTokensAreUnused, SendsStep, AdvancesStep, MintsStep, HearsStep, GraceStep,
       OtherStep DEF Refreshing
  <2>3. CASE LoggingInAndOut \/ AccountMoves
    BY <2>3, FreshTokensAreUnused, LogsInStep, OtherStep DEF LoggingInAndOut
  <2> QED  BY <2>1, <2>2, <2>3 DEF SessionsNext
<1> QED  BY <1>1, SessionsInitially, PTL DEF SessionsSpec

\* However many tabs and retries refresh at once, none is refused while no answer
\* is lost and nobody ends a session (refreshTokens and its grace window).
THEOREM RacesNeverSignOut == SessionsSpec => []RacesKeepTheSession
<1>1. SessionsInv => RacesKeepTheSession
  BY DEF SessionsInv, Peace, CallSound, RacesKeepTheSession
<1> QED  BY <1>1, SessionsInvariant, PTL

-----------------------------------------------------------------------------
(* Verification of sellers                                                   *)

\* A document that is due to be purged is no evidence; evidence has its file.
PaperSound(row) ==
  /\ row.status = "none" => ~row.due /\ ~row.uploaded
  /\ row.due => row.status \notin LiveStatuses
  /\ row.status \in LiveStatuses /\ row.uploaded => row.file

\* A request that submits a document holds a row that is not yet evidence, and
\* after the upload its file.
HandSound(h) ==
  /\ hand[h].at \in { "uploading", "uploaded", "discarding" } =>
       /\ hand[h].paper \in Papers
       /\ paper[hand[h].paper].status # "none" /\ ~paper[hand[h].paper].uploaded
  /\ hand[h].at = "uploaded" => paper[hand[h].paper].file
  /\ hand[h].at \in { "idle", "deciding" } => hand[h].paper = NoPaper

HandsApart ==
  \A h, g \in Hands : hand[h].paper = hand[g].paper /\ hand[h].paper # NoPaper => h = g

\* The sweep works on what it has read: documents that stay due, and unended
\* uploads that no request holds.
SweepSound ==
  /\ \A p \in sweep.due : paper[p].due /\ paper[p].uploaded
  /\ \A p \in sweep.stale :
       /\ paper[p].status # "none" /\ ~paper[p].uploaded
       /\ \A h \in Hands : hand[h].paper # p

PapersInv ==
  /\ VerificationTypeOK
  /\ \A p \in Papers : PaperSound(paper[p])
  /\ \A h \in Hands : HandSound(h)
  /\ HandsApart /\ SweepSound

-----------------------------------------------------------------------------
(* Steps of a request                                                        *)

\* The step neither starts, ends nor empties the upload of p, nor lifts a purge.
Untouched(p) ==
  /\ paper'[p].uploaded = paper[p].uploaded /\ paper'[p].file = paper[p].file
  /\ paper'[p].status = "none" <=> paper[p].status = "none"
  /\ paper[p].due => paper'[p].due

\* A request that holds a row is on its way to make it evidence.
LEMMA HoldersAreAtWork ==
  ASSUME PapersInv, NEW h \in Hands, hand[h].paper \in Papers
  PROVE  /\ ~paper[hand[h].paper].uploaded /\ paper[hand[h].paper].status # "none"
         /\ hand[h].paper \notin sweep.due /\ hand[h].paper \notin sweep.stale
<1>1. hand[h].at \in { "uploading", "uploaded", "discarding" }
  BY VerificationConstants DEF PapersInv, VerificationTypeOK, HandSound, Hand
<1> QED  BY <1>1 DEF PapersInv, HandSound, SweepSound

\* One row is written.
LEMMA RowWrites ==
  ASSUME PapersInv, NEW p \in Papers, NEW row \in Paper, paper' = [paper EXCEPT ![p] = row]
  PROVE  /\ paper' \in [Papers -> Paper] /\ paper'[p] = row
         /\ \A q \in Papers \ { p } : paper'[q] = paper[q]
         /\ PaperSound(row) => \A q \in Papers : PaperSound(paper'[q])
         /\ \A q \in Papers : q # p => Untouched(q)
BY DEF PapersInv, VerificationTypeOK, Untouched

\* A row whose file comes or goes, and one whose file is purged.
LEMMA FileWrites ==
  ASSUME PapersInv, NEW p \in Papers, NEW there \in BOOLEAN
  PROVE  LET row == [ paper[p] EXCEPT !.file = there ] IN
         /\ row \in Paper /\ row.status = paper[p].status /\ row.due = paper[p].due
         /\ row.uploaded = paper[p].uploaded /\ row.file = there
BY DEF PapersInv, VerificationTypeOK, Paper

LEMMA PurgeWrites ==
  ASSUME PapersInv, NEW p \in Papers
  PROVE  LET row == [ paper[p] EXCEPT !.file = FALSE, !.purged = TRUE ] IN
         /\ row \in Paper /\ row.status = paper[p].status /\ row.due = paper[p].due
         /\ row.uploaded = paper[p].uploaded
BY DEF PapersInv, VerificationTypeOK, Paper

LEMMA GoneWrites ==
  ASSUME PapersInv, NEW p \in Papers
  PROVE  LET row == [ paper[p] EXCEPT !.status = "gone" ] IN
         /\ row \in Paper /\ row.status = "gone" /\ row.due = paper[p].due
         /\ row.uploaded = paper[p].uploaded /\ row.file = paper[p].file /\ PaperSound(row)
BY DEF PapersInv, VerificationTypeOK, Paper, PaperSound, LiveStatuses

LEMMA HandMoves ==
  ASSUME PapersInv, NEW h \in Hands,
         badge' \in Badges, UNCHANGED sweep,
         paper' \in [Papers -> Paper], hand' \in [Hands -> Hand],
         \A p \in Papers : PaperSound(paper'[p]),
         \A p \in Papers : p # hand[h].paper => Untouched(p),
         \A g \in Hands \ { h } : hand'[g] = hand[g],
         hand'[h].paper \in { hand[h].paper, NoPaper },
         HandSound(h)'
  PROVE  PapersInv'
<1>1. VerificationTypeOK'
  BY DEF PapersInv, VerificationTypeOK
<1>2. HandsApart'
  BY DEF PapersInv, HandsApart
<1>3. ASSUME NEW g \in Hands \ { h }  PROVE HandSound(g)'
  <2>1. HandSound(g) /\ hand'[g] = hand[g]
    BY DEF PapersInv
  <2>2. hand[g].paper \in Papers => Untouched(hand[g].paper)
    BY VerificationConstants DEF PapersInv, HandsApart
  <2> QED  BY <2>1, <2>2 DEF HandSound, Untouched
<1>4. SweepSound'
  <2>1. \A p \in sweep.stale : p \in Papers /\ Untouched(p)
    BY DEF PapersInv, VerificationTypeOK, SweepSound
  <2>2. \A p \in sweep.stale : \A g \in Hands : hand'[g].paper # p
    BY <2>1, VerificationConstants DEF PapersInv, SweepSound
  <2>3. ASSUME NEW p \in sweep.due  PROVE paper'[p].due /\ paper'[p].uploaded
    <3>1. p \in Papers /\ paper[p].due /\ paper[p].uploaded
      BY DEF PapersInv, VerificationTypeOK, SweepSound
    <3>2. p # hand[h].paper
      BY <3>1, HoldersAreAtWork
    <3> QED  BY <3>1, <3>2 DEF Untouched
  <2> QED  BY <2>1, <2>2, <2>3 DEF PapersInv, SweepSound, Untouched
<1> QED  BY <1>1, <1>2, <1>3, <1>4 DEF PapersInv

\* What laying a request down does.
LEMMA LaysDown ==
  ASSUME PapersInv, NEW h \in Hands, Lays(h)
  PROVE  /\ hand' \in [Hands -> Hand] /\ hand'[h] = Free
         /\ \A g \in Hands \ { h } : hand'[g] = hand[g]
         /\ HandSound(h)'
<1>1. Free \in Hand
  BY DEF Free, Hand, Badges
<1> QED  BY <1>1 DEF Lays, PapersInv, VerificationTypeOK, HandSound, Free

LEMMA CreatesStep ==
  ASSUME PapersInv, NEW h \in Hands, NEW p \in Papers, NEW t \in PaperTypes, CreatesRow(h, p, t)
  PROVE  PapersInv'
<1> DEFINE row == [ status |-> "PENDING", type |-> t, uploaded |-> FALSE, due |-> FALSE,
                    purged |-> FALSE, file |-> FALSE ]
           held == [ at |-> "uploading", paper |-> p, seen |-> badge ]
<1>1. row \in Paper /\ held \in Hand /\ PaperSound(row)
  BY DEF Paper, Hand, PaperSound, PapersInv, VerificationTypeOK
<1>2. /\ paper' \in [Papers -> Paper] /\ paper'[p] = row
      /\ \A q \in Papers \ { p } : paper'[q] = paper[q]
      /\ hand' \in [Hands -> Hand] /\ hand'[h] = held
      /\ \A g \in Hands \ { h } : hand'[g] = hand[g]
      /\ UNCHANGED << badge, sweep >>
  BY <1>1 DEF CreatesRow, PapersInv, VerificationTypeOK
<1>3. paper[p].status = "none" /\ ~paper[p].due
  BY DEF CreatesRow, PapersInv, PaperSound
<1>4. \A g \in Hands : hand[g].paper # p
  BY <1>3, VerificationConstants DEF PapersInv, HandSound, VerificationTypeOK, Hand
<1>5. p \notin sweep.due /\ p \notin sweep.stale
  BY <1>3 DEF PapersInv, SweepSound
<1>6. VerificationTypeOK' /\ HandsApart' /\ \A q \in Papers : PaperSound(paper'[q])
  <2>1. VerificationTypeOK'
    BY <1>2 DEF PapersInv, VerificationTypeOK
  <2>2. HandsApart'
    BY <1>2, <1>4 DEF PapersInv, HandsApart
  <2>3. \A q \in Papers : PaperSound(paper'[q])
    BY <1>1, <1>2 DEF PapersInv
  <2> QED  BY <2>1, <2>2, <2>3
<1>7. \A g \in Hands : HandSound(g)'
  BY <1>1, <1>2, <1>4 DEF PapersInv, HandSound
<1>8. SweepSound'
  <2>1. \A q \in sweep.due \cup sweep.stale : q \in Papers \ { p }
    BY <1>5 DEF PapersInv, VerificationTypeOK
  <2> QED  BY <1>2, <2>1 DEF PapersInv, SweepSound
<1> QED  BY <1>6, <1>7, <1>8 DEF PapersInv

\* The file is there: the row stays as it is.
LEMMA PaperStoredStep ==
  ASSUME PapersInv, NEW h \in Hands, StoresPaper(h)
  PROVE  PapersInv'
<1> DEFINE p == hand[h].paper
           row == [ paper[p] EXCEPT !.file = TRUE ]
<1>1. p \in Papers /\ HandSound(h) /\ PaperSound(paper[p])
  BY DEF StoresPaper, PapersInv, HandSound
<1>2. paper' = [paper EXCEPT ![p] = row]
  BY DEF StoresPaper
<1>3. /\ row \in Paper /\ row.status = paper[p].status /\ row.due = paper[p].due
      /\ row.uploaded = paper[p].uploaded /\ row.file
  BY <1>1, FileWrites
<1>4. /\ hand' \in [Hands -> Hand] /\ \A g \in Hands \ { h } : hand'[g] = hand[g]
      /\ hand'[h].at = "uploaded" /\ hand'[h].paper = p
  BY DEF StoresPaper, PapersInv, VerificationTypeOK, Hand
<1>5. badge' \in Badges /\ UNCHANGED sweep /\ hand[h].at = "uploading"
  BY DEF StoresPaper, PapersInv, VerificationTypeOK
<1> HIDE DEF row
<1>6. PaperSound(row)
  BY <1>1, <1>3 DEF PaperSound
<1>7. paper'[p] = row
  BY <1>1, <1>2, <1>3, RowWrites
<1>8. HandSound(h)'
  BY <1>1, <1>3, <1>4, <1>5, <1>7 DEF HandSound
<1>9. /\ paper' \in [Papers -> Paper] /\ \A q \in Papers : PaperSound(paper'[q])
      /\ \A q \in Papers : q # hand[h].paper => Untouched(q)
  BY <1>1, <1>2, <1>3, <1>6, RowWrites
<1>10. /\ hand' \in [Hands -> Hand] /\ \A g \in Hands \ { h } : hand'[g] = hand[g]
       /\ hand'[h].paper \in { hand[h].paper, NoPaper }
  BY <1>4
<1> HIDE DEF p
<1> QED  BY <1>5, <1>8, <1>9, <1>10, HandMoves

\* A row that goes, with its request.
LEMMA RemovesStep ==
  ASSUME PapersInv, NEW h \in Hands, UploadFails(h) \/ DiscardsRow(h)
  PROVE  PapersInv'
<1> DEFINE p == hand[h].paper
           row == [ paper[p] EXCEPT !.status = "gone" ]
<1>1. p \in Papers
  BY DEF UploadFails, DiscardsRow, PapersInv, HandSound
<1>2. paper' = [paper EXCEPT ![p] = row]
  BY DEF UploadFails, DiscardsRow, Removed
<1>3. row \in Paper /\ PaperSound(row)
  BY <1>1, GoneWrites
<1>4. Lays(h) /\ badge' \in Badges /\ UNCHANGED sweep
  BY DEF UploadFails, DiscardsRow, PapersInv, VerificationTypeOK
<1> HIDE DEF row
<1>5. /\ paper' \in [Papers -> Paper] /\ \A q \in Papers : PaperSound(paper'[q])
      /\ \A q \in Papers : q # hand[h].paper => Untouched(q)
  BY <1>1, <1>2, <1>3, RowWrites
<1>6. /\ hand' \in [Hands -> Hand] /\ \A g \in Hands \ { h } : hand'[g] = hand[g]
      /\ hand'[h].paper \in { hand[h].paper, NoPaper } /\ HandSound(h)'
  BY <1>4, LaysDown DEF Free
<1> HIDE DEF p
<1> QED  BY <1>4, <1>5, <1>6, HandMoves

\* The document becomes evidence with its file, and replaces what was there.
LEMMA AttachesStep ==
  ASSUME PapersInv, NEW h \in Hands, Attaches(h)
  PROVE  PapersInv'
<1> DEFINE p == hand[h].paper
<1>1. p \in Papers /\ paper[p].file /\ paper[p].status # "none"
  BY DEF Attaches, PapersInv, HandSound
<1>2. paper' = Superseding(p) /\ Lays(h) /\ UNCHANGED sweep
  BY DEF Attaches
<1>3. paper' \in [Papers -> Paper]
  BY <1>2, ZenonT(40) DEF Superseding, PapersInv, VerificationTypeOK, Paper
<1>4. ASSUME NEW q \in Papers
      PROVE  PaperSound(paper'[q]) /\ (q # p => Untouched(q))
  <2>1. paper[q] \in Paper /\ PaperSound(paper[q])
    BY DEF PapersInv, VerificationTypeOK
  <2>2. CASE q \in Previous(p)
    <3>1. paper'[q] = [ paper[q] EXCEPT !.status = "SUPERSEDED", !.due = TRUE ]
      BY <1>2, <2>2 DEF Superseding
    <3>2. q # p /\ paper[q].status # "none"
      BY <2>2 DEF Previous
    <3> QED  BY <2>1, <3>1, <3>2 DEF PaperSound, Untouched, LiveStatuses, Paper
  <2>3. CASE q \notin Previous(p) /\ q = p
    <3>1. paper'[q] = [ paper[q] EXCEPT !.uploaded = TRUE ]
      BY <1>2, <2>3 DEF Superseding
    <3> QED  BY <1>1, <2>1, <2>3, <3>1 DEF PaperSound, Paper
  <2>4. CASE q \notin Previous(p) /\ q # p
    BY <1>2, <2>1, <2>4 DEF Superseding, Untouched
  <2> QED  BY <2>2, <2>3, <2>4
<1>5. badge' \in Badges
  BY DEF Attaches, BadgeAfter, PapersInv, VerificationTypeOK, Badges, Hand
<1> QED  BY <1>2, <1>3, <1>4, <1>5, LaysDown, HandMoves DEF Free

LEMMA DiscardsStep ==
  ASSUME PapersInv, NEW h \in Hands, Discards(h)
  PROVE  PapersInv'
<1> DEFINE p == hand[h].paper
<1>1. p \in Papers /\ ~paper[p].uploaded /\ paper[p].status # "none"
  BY DEF Discards, PapersInv, HandSound
<1>2. badge' \in Badges /\ UNCHANGED sweep
  BY DEF Discards, PapersInv, VerificationTypeOK
<1>3. CASE Lays(h) /\ UNCHANGED paper
  BY <1>2, <1>3, LaysDown, HandMoves DEF Free, Untouched, PapersInv, VerificationTypeOK
<1>4. CASE paper' = [paper EXCEPT ![p].file = FALSE] /\ hand' = [hand EXCEPT ![h].at = "discarding"]
  <2> DEFINE row == [ paper[p] EXCEPT !.file = FALSE ]
  <2>1. paper' = [paper EXCEPT ![p] = row]
    BY <1>4
  <2>2. /\ row \in Paper /\ row.status = paper[p].status /\ row.due = paper[p].due
        /\ row.uploaded = paper[p].uploaded
    BY <1>1, FileWrites
  <2>3. /\ hand' \in [Hands -> Hand] /\ \A g \in Hands \ { h } : hand'[g] = hand[g]
        /\ hand'[h].at = "discarding" /\ hand'[h].paper = p
    BY <1>4 DEF PapersInv, VerificationTypeOK, Hand
  <2> HIDE DEF row
  <2>4. PaperSound(row)
    BY <1>1, <2>2 DEF PapersInv, PaperSound
  <2>5. paper'[p] = row
    BY <1>1, <2>1, <2>2, RowWrites
  <2>6. HandSound(h)'
    BY <1>1, <2>2, <2>3, <2>5 DEF HandSound
  <2>7. /\ paper' \in [Papers -> Paper] /\ \A q \in Papers : PaperSound(paper'[q])
        /\ \A q \in Papers : q # hand[h].paper => Untouched(q)
    BY <1>1, <2>1, <2>2, <2>4, RowWrites
  <2>8. /\ hand' \in [Hands -> Hand] /\ \A g \in Hands \ { h } : hand'[g] = hand[g]
        /\ hand'[h].paper \in { hand[h].paper, NoPaper }
    BY <2>3
  <2> HIDE DEF p
  <2> QED  BY <1>2, <2>6, <2>7, <2>8, HandMoves
<1> QED  BY <1>3, <1>4 DEF Discards

LEMMA LeavesStep ==
  ASSUME PapersInv, NEW h \in Hands, Crashes(h) \/ ReadsEvidence(h)
  PROVE  PapersInv'
<1>1. UNCHANGED << badge, paper, sweep >>
  BY DEF Crashes, ReadsEvidence
<1>2. CASE Crashes(h)
  BY <1>1, <1>2, LaysDown, HandMoves DEF Crashes, Free, Untouched, PapersInv, VerificationTypeOK
<1>3. CASE ReadsEvidence(h)
  <2>1. [ at |-> "deciding", paper |-> NoPaper, seen |-> badge ] \in Hand
    BY DEF Hand, PapersInv, VerificationTypeOK
  <2>2. /\ hand' \in [Hands -> Hand] /\ \A g \in Hands \ { h } : hand'[g] = hand[g]
        /\ hand'[h].at = "deciding" /\ hand'[h].paper = NoPaper
    BY <1>3, <2>1 DEF ReadsEvidence, PapersInv, VerificationTypeOK
  <2>3. HandSound(h)'
    BY <2>2 DEF HandSound
  <2> QED  BY <1>1, <2>2, <2>3, HandMoves DEF Untouched, PapersInv, VerificationTypeOK
<1> QED  BY <1>2, <1>3

-----------------------------------------------------------------------------
(* Decisions of the administrators                                           *)

\* A review moves pending documents only, and never brings one back.
LEMMA ReviewKeepsPapers ==
  ASSUME PapersInv, NEW status \in { "ACCEPTED", "REJECTED" }, NEW due \in BOOLEAN,
         status = "ACCEPTED" => ~due, paper' = Reviewed(status, due)
  PROVE  /\ paper' \in [Papers -> Paper]
         /\ \A p \in Papers : PaperSound(paper'[p]) /\ Untouched(p)
<1>1. ASSUME NEW p \in Papers
      PROVE  paper'[p] \in Paper /\ PaperSound(paper'[p]) /\ Untouched(p)
  <2>1. paper[p] \in Paper /\ PaperSound(paper[p])
    BY DEF PapersInv, VerificationTypeOK
  <2>2. CASE paper[p].status = "PENDING"
    <3>1. ~paper[p].due
      BY <2>1, <2>2 DEF PaperSound, LiveStatuses
    <3>2. paper'[p] = [ paper[p] EXCEPT !.status = status, !.due = due \/ paper[p].due ]
      BY <2>2 DEF Reviewed
    <3>3. /\ paper'[p].status = status /\ paper'[p].due = due
          /\ paper'[p].uploaded = paper[p].uploaded /\ paper'[p].file = paper[p].file
          /\ paper'[p] \in Paper
      BY <2>1, <3>1, <3>2 DEF Paper
    <3> QED  BY <2>1, <2>2, <3>1, <3>3 DEF PaperSound, Untouched, LiveStatuses
  <2>3. CASE paper[p].status # "PENDING"
    BY <2>1, <2>3 DEF Reviewed, Untouched
  <2> QED  BY <2>2, <2>3
<1>2. paper' = [p \in Papers |-> paper'[p]]
  BY DEF Reviewed
<1> QED  BY <1>1, <1>2

LEMMA ApprovesStep ==
  ASSUME PapersInv, NEW h \in Hands, Approves(h)
  PROVE  PapersInv'
<1>1. Lays(h) /\ badge' \in Badges /\ UNCHANGED sweep /\ paper' = Reviewed("ACCEPTED", FALSE)
  BY DEF Approves, Badges
<1>2. paper' \in [Papers -> Paper] /\ \A p \in Papers : PaperSound(paper'[p]) /\ Untouched(p)
  BY <1>1, ReviewKeepsPapers
<1>3. /\ hand' \in [Hands -> Hand] /\ \A g \in Hands \ { h } : hand'[g] = hand[g]
      /\ hand'[h].paper \in { hand[h].paper, NoPaper } /\ HandSound(h)'
  BY <1>1, LaysDown DEF Free
<1> QED  BY <1>1, <1>2, <1>3, HandMoves

LEMMA DecidesStep ==
  ASSUME PapersInv, RejectsEvidence \/ Revokes
  PROVE  PapersInv'
<1>1. UNCHANGED << hand, sweep >> /\ badge' \in Badges
  BY DEF RejectsEvidence, Revokes, Badges
<1>2. paper' \in [Papers -> Paper] /\ \A p \in Papers : PaperSound(paper'[p]) /\ Untouched(p)
  <2>1. CASE RejectsEvidence
    BY <2>1, ReviewKeepsPapers DEF RejectsEvidence
  <2>2. CASE Revokes
    BY <2>2 DEF Revokes, PapersInv, VerificationTypeOK, Untouched
  <2> QED  BY <2>1, <2>2
<1>3. \A h \in Hands : HandSound(h)'
  BY <1>1, <1>2 DEF PapersInv, HandSound, Untouched
<1>4. SweepSound'
  BY <1>1, <1>2 DEF PapersInv, VerificationTypeOK, SweepSound, Untouched
<1> QED  BY <1>1, <1>2, <1>3, <1>4 DEF PapersInv, VerificationTypeOK, HandsApart

-----------------------------------------------------------------------------
(* The sweep                                                                 *)

LEMMA SweepReadsStep ==
  ASSUME PapersInv, ReadsDue \/ ReadsStale
  PROVE  PapersInv'
<1>1. UNCHANGED << badge, paper, hand >>
  BY DEF ReadsDue, ReadsStale
<1>2. /\ sweep' \in [ due : SUBSET Papers, stale : SUBSET Papers ]
      /\ \A p \in sweep'.due : Due(p)
      /\ \A p \in sweep'.stale : Stale(p)
  BY DEF ReadsDue, ReadsStale, NoSweep
<1>3. SweepSound'
  BY <1>1, <1>2 DEF SweepSound, Due, Stale, Unended
<1>4. VerificationTypeOK' /\ HandsApart' /\ \A p \in Papers : PaperSound(paper[p])'
  BY <1>1, <1>2 DEF PapersInv, VerificationTypeOK, HandsApart
<1>5. \A h \in Hands : HandSound(h)'
  BY <1>1 DEF PapersInv, HandSound
<1> QED  BY <1>3, <1>4, <1>5 DEF PapersInv

\* The sweep takes a file or a row only of a document that is no evidence and
\* that no request still holds before its file matters.
LEMMA TakesStep ==
  ASSUME PapersInv, NEW p \in Papers, PurgesFile(p) \/ Reconciles(p)
  PROVE  PapersInv'
<1>1. /\ UNCHANGED << badge, hand >>
      /\ sweep' \in [ due : SUBSET Papers, stale : SUBSET Papers ]
      /\ sweep'.due \subseteq sweep.due /\ sweep'.stale \subseteq sweep.stale
  BY DEF PurgesFile, Reconciles, PapersInv, VerificationTypeOK
<1>2. p \in sweep.due \/ p \in sweep.stale
  BY DEF PurgesFile, Reconciles
<1>3. PICK row \in Paper :
        /\ paper' = [paper EXCEPT ![p] = row]
        /\ row.due = paper[p].due /\ row.uploaded = paper[p].uploaded
        /\ row.status = paper[p].status \/ row.status = "gone"
        /\ row.file = paper[p].file \/ row.status = paper[p].status
  <2>1. CASE PurgesFile(p) /\ paper' # paper
    BY <2>1, PurgeWrites, ZenonT(40) DEF PurgesFile
  <2>2. CASE Reconciles(p) /\ paper' # paper
    BY <2>2, FileWrites, GoneWrites DEF Reconciles, Removed
  <2>3. CASE paper' = paper
    BY <2>3 DEF PapersInv, VerificationTypeOK
  <2> QED  BY <2>1, <2>2, <2>3
<1>4. PaperSound(row)
  <2>1. PaperSound(paper[p]) /\ (p \in sweep.due => paper[p].due)
        /\ (p \in sweep.stale => ~paper[p].uploaded)
    BY DEF PapersInv, SweepSound
  <2> QED  BY <1>2, <1>3, <2>1 DEF PaperSound, LiveStatuses
<1>5. /\ paper' \in [Papers -> Paper] /\ paper'[p] = row
      /\ \A q \in Papers \ { p } : paper'[q] = paper[q]
      /\ \A q \in Papers : PaperSound(paper'[q])
  BY <1>3, <1>4, RowWrites
<1>6. ASSUME NEW h \in Hands  PROVE HandSound(h)'
  <2>1. hand[h].paper # p
    BY <1>2, HoldersAreAtWork
  <2> QED  BY <1>1, <1>5, <2>1 DEF PapersInv, HandSound
<1>7. SweepSound'
  <2>1. row.status # "none" \/ p \notin sweep.stale
    BY <1>3 DEF PapersInv, SweepSound
  <2>2. ASSUME NEW q \in sweep'.due  PROVE paper'[q].due /\ paper'[q].uploaded
    BY <1>1, <1>3, <1>5 DEF PapersInv, VerificationTypeOK, SweepSound
  <2>3. ASSUME NEW q \in sweep'.stale
        PROVE  /\ paper'[q].status # "none" /\ ~paper'[q].uploaded
               /\ \A h \in Hands : hand'[h].paper # q
    BY <1>1, <1>3, <1>5, <2>1 DEF PapersInv, VerificationTypeOK, SweepSound
  <2> QED  BY <2>2, <2>3 DEF SweepSound
<1> QED  BY <1>1, <1>5, <1>6, <1>7 DEF PapersInv, VerificationTypeOK, HandsApart

-----------------------------------------------------------------------------
(* Evidence                                                                  *)

LEMMA PapersInitially == VerificationInit => PapersInv
<1> SUFFICES ASSUME VerificationInit  PROVE PapersInv
  OBVIOUS
<1>1. Free \in Hand /\ (CHOOSE t \in PaperTypes : TRUE) \in PaperTypes
  BY VerificationConstants DEF Free, Hand, Badges
<1>2. VerificationTypeOK
  BY <1>1 DEF VerificationInit, VerificationTypeOK, Paper, Badges, NoSweep
<1>3. \A p \in Papers : PaperSound(paper[p])
  BY DEF VerificationInit, PaperSound, LiveStatuses
<1>4. (\A h \in Hands : HandSound(h)) /\ HandsApart /\ SweepSound
  BY DEF VerificationInit, HandSound, HandsApart, SweepSound, Free, NoSweep
<1> QED  BY <1>2, <1>3, <1>4 DEF PapersInv

LEMMA PapersStep ==
  ASSUME PapersInv, [VerificationNext]_verificationVars
  PROVE  PapersInv'
<1>1. CASE UNCHANGED verificationVars
  BY <1>1 DEF verificationVars, PapersInv, VerificationTypeOK, PaperSound, HandSound,
              HandsApart, SweepSound
<1> QED
  BY <1>1, CreatesStep, PaperStoredStep, RemovesStep, AttachesStep, DiscardsStep, LeavesStep,
     ApprovesStep, DecidesStep, SweepReadsStep, TakesStep
     DEF VerificationNext, Sweeps

LEMMA PapersInvariant == VerificationSpec => []PapersInv
BY PapersInitially, PapersStep, PTL DEF VerificationSpec

\* However submissions, decisions, failures and the sweep interleave, a document
\* that counts as evidence can be opened (retentionSweep, discard).
THEOREM EvidenceHasItsFile == VerificationSpec => []LiveDocumentHasItsFile
<1>1. PapersInv => LiveDocumentHasItsFile
  BY DEF PapersInv, PaperSound, LiveDocumentHasItsFile, Live
<1> QED  BY <1>1, PapersInvariant, PTL

=============================================================================
