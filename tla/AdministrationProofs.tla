------------------------ MODULE AdministrationProofs ------------------------
(***************************************************************************)
(* What holds of the administrators' settings, whatever they type and      *)
(* however their requests interleave: commissions never take more than the *)
(* line and the trail of a seller's rate has no gap; edits of the category *)
(* tree that are written in turn leave a forest of three levels whose      *)
(* leaves stand, and only moves that cross can close a circle; a broadcast *)
(* that was sent reached everybody who stayed on its roll.                 *)
(***************************************************************************)
EXTENDS CommissionDesk, Broadcasts, Taxonomy, FiniteSetTheorems, TLAPS

-----------------------------------------------------------------------------
(* Rounding                                                                  *)

LEMMA Monotone ==
  ASSUME NEW n \in Nat, NEW a \in Nat, NEW b \in Nat, a <= b
  PROVE  n * a \in Nat /\ n * a <= n * b
<1>1. PICK k \in Nat : b = a + k
  <2>1. b - a \in Nat /\ b = a + (b - a)
    OBVIOUS
  <2> QED  BY <2>1
<1>2. n * b = n * a + n * k
  BY <1>1
<1>3. n * a \in Nat /\ n * k \in Nat
  BY <1>1
<1> QED  BY <1>2, <1>3

LEMMA Division ==
  ASSUME NEW n \in Nat, NEW d \in Nat \ {0}
  PROVE  /\ n \div d \in Nat /\ n % d \in 0 .. d - 1
         /\ n = d * (n \div d) + (n % d)
  BY SMT

\* No rate an administrator can set makes the commission exceed the line, halves
\* rounded up included (computeCommissionAmount, RATE_SCALE).
THEOREM CommissionWithinLine ==
  ASSUME NEW amount \in Nat, NEW units \in Units
  PROVE  CommissionFor(amount, units) \in 0 .. amount
<1> DEFINE n == amount * units
<1> DEFINE q == n \div Scale
<1> DEFINE r == n % Scale
<1>1. Scale \in Nat \ {0} /\ units \in Nat /\ units <= Scale
  BY ScaleConstant DEF Units
<1>2. n \in Nat /\ n <= amount * Scale
  BY <1>1, Monotone
<1>3. q \in Nat /\ r \in 0 .. Scale - 1 /\ n = Scale * q + r
  <2> HIDE DEF n
  <2> QED  BY <1>1, <1>2, Division
<1> HIDE DEF n, q, r
<1>4. q <= amount /\ (q = amount => r = 0)
  <2>1. CASE q > amount
    <3>1. Scale * (amount + 1) <= Scale * q
      BY <1>1, <1>3, <2>1, Monotone
    <3>2. Scale * (amount + 1) = amount * Scale + Scale
      BY <1>1
    <3>3. amount * Scale \in Nat /\ Scale * q \in Nat
      BY <1>1, <1>3
    <3> QED  BY <1>1, <1>2, <1>3, <3>1, <3>2, <3>3
  <2>2. CASE q = amount
    <3>1. Scale * q = amount * Scale /\ amount * Scale \in Nat
      BY <1>1, <2>2
    <3> QED  BY <1>2, <1>3, <2>2, <3>1
  <2>3. CASE q < amount
    BY <1>3, <2>3
  <2> QED  BY <1>3, <2>1, <2>2, <2>3
<1>5. CommissionFor(amount, units) = IF r * 2 >= Scale THEN q + 1 ELSE q
  BY DEF CommissionFor, HalfUp, n, q, r
<1>6. CASE r * 2 >= Scale
  <2>1. r # 0
    BY <1>1, <1>3, <1>6
  <2> QED  BY <1>3, <1>4, <1>5, <1>6, <2>1
<1>7. CASE ~(r * 2 >= Scale)
  BY <1>3, <1>4, <1>5, <1>7
<1> QED  BY <1>6, <1>7

-----------------------------------------------------------------------------
(* The desk                                                                  *)

\* An active setting has a rate.
Usable(s) == s.active => s.rate # NoRate

ChangesOK ==
  /\ change \in [Admins -> Change]
  /\ \A a \in Admins : change[a].at # "own" => Usable(change[a].to)

TrailOK == trail \in Seq([ before : Rate, after : Rate ]) /\ Len(trail) <= MaxTrail

QuoteOK == quote \in Quote /\ quote.commission <= quote.line

DefaultsOK == default \in Seq(Setting) /\ \A i \in DOMAIN default : Usable(default[i])

DeskInv ==
  /\ own \in Rate
  /\ category \in Setting /\ Usable(category)
  /\ DefaultsOK /\ TrailOK /\ ChangesOK /\ QuoteOK
  /\ OverridesChain

LEMMA NoChangeIsChange == NoSetting \in Setting /\ Usable(NoSetting) /\ NoChange \in Change
BY DEF NoSetting, Setting, Usable, NoChange, Change, Rate

\* One change is written; the others stay.
LEMMA ChangeWrites ==
  ASSUME ChangesOK, NEW a \in Admins, NEW row \in Change, row.at # "own" => Usable(row.to),
         change' = [change EXCEPT ![a] = row]
  PROVE  ChangesOK'
BY DEF ChangesOK, Usable

LEMMA StartsKeepsChanges ==
  ASSUME ChangesOK, NEW a \in Admins, NEW at \in { "own", "category", "removal", "default" },
         NEW to \in Setting, NEW seen \in Rate, at # "own" => Usable(to),
         Starts(a, at, to, seen)
  PROVE  ChangesOK'
<1> DEFINE row == [ at |-> at, to |-> to, seen |-> seen ]
<1>1. row \in Change /\ row.at = at /\ row.to = to
  BY DEF Change
<1>2. change' = [change EXCEPT ![a] = row]
  BY DEF Starts
<1> HIDE DEF row
<1> QED  BY <1>1, <1>2, ChangeWrites

LEMMA FinishesKeepsChanges ==
  ASSUME ChangesOK, NEW a \in Admins, Finishes(a)
  PROVE  ChangesOK'
<1>1. NoChange.at # "own" => Usable(NoChange.to)
  BY NoChangeIsChange DEF NoChange
<1> QED  BY <1>1, NoChangeIsChange, ChangeWrites DEF Finishes

\* The readers of a stored rate only start a change.
LEMMA RateReadsStep ==
  ASSUME DeskInv, NEW a \in Admins, NEW expected, NEW says,
         \/ \E rate \in Rate : ReadsOwn(a, rate, expected, says)
         \/ \E rate \in Rates, active \in BOOLEAN :
              \/ ReadsCategory(a, [ rate |-> rate, active |-> active ], expected, says)
              \/ ReadsDefault(a, [ rate |-> rate, active |-> active ], expected, says)
         \/ ReadsRemoval(a)
  PROVE  DeskInv'
<1>1. First \in Setting
  BY NoChangeIsChange DEF First, DeskInv, DefaultsOK
<1>2. category.rate \in Rate /\ First.rate \in Rate
  BY <1>1 DEF DeskInv, Setting
<1>3. ChangesOK' /\ UNCHANGED << own, category, default, trail, quote >>
  <2>1. CASE \E rate \in Rate : ReadsOwn(a, rate, expected, says)
    <3>1. PICK rate \in Rate : ReadsOwn(a, rate, expected, says)
      BY <2>1
    <3> DEFINE to == [ rate |-> rate, active |-> TRUE ]
    <3>2. to \in Setting
      BY DEF Setting
    <3>3. Starts(a, "own", to, own)
      BY <3>1 DEF ReadsOwn
    <3> HIDE DEF to
    <3> QED  BY <3>2, <3>3, StartsKeepsChanges DEF DeskInv, Starts
  <2>2. ASSUME NEW rate \in Rates, NEW active \in BOOLEAN,
               \/ ReadsCategory(a, [ rate |-> rate, active |-> active ], expected, says)
               \/ ReadsDefault(a, [ rate |-> rate, active |-> active ], expected, says)
        PROVE  ChangesOK' /\ UNCHANGED << own, category, default, trail, quote >>
    <3> DEFINE to == [ rate |-> rate, active |-> active ]
    <3>1. to \in Setting /\ Usable(to)
      BY DeskConstants DEF Setting, Rate, Usable, Units
    <3>2. Starts(a, "category", to, category.rate) \/ Starts(a, "default", to, First.rate)
      BY <2>2 DEF ReadsCategory, ReadsDefault
    <3> HIDE DEF to
    <3> QED  BY <1>2, <3>1, <3>2, StartsKeepsChanges DEF DeskInv, Starts
  <2>3. CASE ReadsRemoval(a)
    <3>1. Starts(a, "removal", NoSetting, category.rate)
      BY <2>3 DEF ReadsRemoval
    <3> QED  BY <1>2, <3>1, NoChangeIsChange, StartsKeepsChanges DEF DeskInv, Starts
  <2> QED  BY <2>1, <2>2, <2>3
<1> QED  BY <1>3 DEF DeskInv, DefaultsOK, TrailOK, QuoteOK, OverridesChain

\* The write is conditional on the rate that was read: the new entry starts where
\* the last one ended.
LEMMA WritesOwnStep ==
  ASSUME DeskInv, NEW a \in Admins, WritesOwn(a)
  PROVE  DeskInv'
<1> DEFINE entry == [ before |-> change[a].seen, after |-> change[a].to.rate ]
<1>1. change[a].seen \in Rate /\ change[a].to.rate \in Rate /\ change[a].seen = own
  BY DEF DeskInv, ChangesOK, Change, Setting, WritesOwn, AsSeen
<1>2. entry \in [ before : Rate, after : Rate ] /\ entry.before = own /\ entry.after = change[a].to.rate
  BY <1>1
<1>3. /\ own' = change[a].to.rate /\ trail' = Append(trail, entry)
      /\ Finishes(a) /\ Len(trail) < MaxTrail /\ UNCHANGED << category, default, quote >>
  BY DEF WritesOwn
<1> HIDE DEF entry
<1>4. /\ trail' \in Seq([ before : Rate, after : Rate ]) /\ Len(trail') = Len(trail) + 1
      /\ trail'[Len(trail')] = entry /\ \A i \in 1 .. Len(trail) : trail'[i] = trail[i]
      /\ Len(trail) \in Nat /\ DOMAIN trail = 1 .. Len(trail) /\ DOMAIN trail' = 1 .. Len(trail')
  BY <1>2, <1>3 DEF DeskInv, TrailOK
<1>5. TrailOK'
  BY <1>3, <1>4, DeskConstants DEF TrailOK
<1>6. ASSUME NEW i \in DOMAIN trail'
      PROVE  trail'[i].before = IF i = 1 THEN NoRate ELSE trail'[i - 1].after
  <2>1. CASE i \in 1 .. Len(trail)
    <3>1. trail'[i] = trail[i] /\ (i # 1 => i - 1 \in 1 .. Len(trail))
      BY <1>4, <2>1
    <3> QED  BY <1>4, <2>1, <3>1 DEF DeskInv, OverridesChain
  <2>2. CASE i = Len(trail) + 1
    <3>1. trail'[i].before = own
      BY <1>2, <1>4, <2>2
    <3>2. CASE trail = << >>
      BY <2>2, <3>1, <3>2 DEF DeskInv, OverridesChain
    <3>3. CASE trail # << >>
      <4>1. Len(trail) # 0 /\ i # 1 /\ i - 1 = Len(trail) /\ i - 1 \in 1 .. Len(trail)
        BY <1>4, <2>2, <3>3 DEF DeskInv, TrailOK
      <4> QED  BY <1>4, <3>1, <3>3, <4>1 DEF DeskInv, OverridesChain
    <3> QED  BY <3>2, <3>3
  <2> QED  BY <1>4, <2>1, <2>2
<1>7. own' = trail'[Len(trail')].after /\ trail' # << >>
  BY <1>2, <1>3, <1>4
<1>8. OverridesChain'
  BY <1>6, <1>7 DEF OverridesChain
<1>9. ChangesOK'
  BY <1>3, FinishesKeepsChanges DEF DeskInv
<1> QED  BY <1>1, <1>3, <1>5, <1>8, <1>9 DEF DeskInv, DefaultsOK, QuoteOK

LEMMA WritesCategoryStep ==
  ASSUME DeskInv, NEW a \in Admins, WritesCategory(a)
  PROVE  DeskInv'
<1>1. category' \in Setting /\ Usable(category')
  BY DEF DeskInv, ChangesOK, Change, WritesCategory
<1>2. ChangesOK'
  BY FinishesKeepsChanges DEF DeskInv, WritesCategory
<1> QED
  BY <1>1, <1>2 DEF WritesCategory, DeskInv, DefaultsOK, TrailOK, QuoteOK, OverridesChain, Usable

LEMMA RemovesCategoryStep ==
  ASSUME DeskInv, NEW a \in Admins, RemovesCategory(a)
  PROVE  DeskInv'
<1>1. ASSUME NEW b \in Admins
      PROVE  change'[b] \in Change /\ (change'[b].at # "own" => Usable(change'[b].to))
  <2>1. \/ change'[b] = NoChange \/ change'[b] = change[b]
        \/ change[b].at # "own" /\ change'[b] = [ change[b] EXCEPT !.at = "lost" ]
    BY DEF RemovesCategory
  <2>2. NoChange.at # "own" => Usable(NoChange.to)
    BY NoChangeIsChange DEF NoChange
  <2> QED  BY <2>1, <2>2, NoChangeIsChange DEF DeskInv, ChangesOK, Change
<1>2. ChangesOK'
  BY <1>1 DEF ChangesOK, RemovesCategory, Usable
<1>3. category' \in Setting /\ Usable(category')
  BY NoChangeIsChange DEF RemovesCategory
<1> QED
  BY <1>2, <1>3 DEF RemovesCategory, DeskInv, DefaultsOK, TrailOK, QuoteOK, OverridesChain, Usable

LEMMA WritesDefaultStep ==
  ASSUME DeskInv, NEW a \in Admins, WritesDefault(a)
  PROVE  DeskInv'
<1>1. change[a].at = "default" /\ change[a].to \in Setting /\ Usable(change[a].to)
  BY DEF WritesDefault, DeskInv, ChangesOK, Change
<1>2. default' = Append(default, change[a].to) \/ default' = [default EXCEPT ![1] = change[a].to]
  BY DEF WritesDefault
<1>3. default \in Seq(Setting) /\ \A i \in 1 .. Len(default) : Usable(default[i])
  BY DEF DeskInv, DefaultsOK
<1>4. DefaultsOK'
  <2>1. CASE default' = Append(default, change[a].to)
    <3>1. /\ default' \in Seq(Setting) /\ Len(default') = Len(default) + 1
          /\ default'[Len(default) + 1] = change[a].to
          /\ \A i \in 1 .. Len(default) : default'[i] = default[i]
      BY <1>1, <1>3, <2>1
    <3> QED  BY <1>1, <1>3, <3>1 DEF DefaultsOK, Usable
  <2>2. CASE default' = [default EXCEPT ![1] = change[a].to]
    <3>0. default = << >> \/ 1 \in 1 .. Len(default)
      BY <1>3
    <3>1. /\ default' \in Seq(Setting) /\ DOMAIN default' = 1 .. Len(default)
          /\ \A i \in 1 .. Len(default) : default'[i] = default[i] \/ default'[i] = change[a].to
      <4>1. CASE default = << >>
        <5>1. default' = default
          BY <2>2, <4>1
        <5> QED  BY <1>3, <5>1
      <4>2. CASE 1 \in 1 .. Len(default)
        BY <1>1, <1>3, <2>2, <4>2
      <4> QED  BY <3>0, <4>1, <4>2
    <3> QED  BY <1>1, <1>3, <3>1 DEF DefaultsOK, Usable
  <2> QED  BY <1>2, <2>1, <2>2
<1>5. ChangesOK'
  BY FinishesKeepsChanges DEF DeskInv, WritesDefault
<1> QED  BY <1>4, <1>5 DEF WritesDefault, DeskInv, TrailOK, QuoteOK, OverridesChain

LEMMA PricesQuote ==
  ASSUME QuoteOK, NEW rate \in Rates, Prices(rate)
  PROVE  QuoteOK'
<1> DEFINE c == CommissionFor(quote.line, rate)
<1>1. quote.line \in Amounts /\ quote.line \in Nat /\ rate \in Units /\ rate \in Rate
  BY DeskConstants DEF QuoteOK, Quote, Rate
<1>2. c \in 0 .. quote.line /\ c \in Nat /\ c <= quote.line
  BY <1>1, CommissionWithinLine
<1>3. quote' = [quote EXCEPT !.at = "priced", !.units = rate, !.commission = c]
  BY DEF Prices
<1> HIDE DEF c
<1>4. quote' \in Quote /\ quote'.commission = c /\ quote'.line = quote.line
  BY <1>1, <1>2, <1>3 DEF QuoteOK, Quote
<1> QED  BY <1>2, <1>4 DEF QuoteOK

\* A set of positions has a first one: of the sets of those below a position, take
\* a minimal one.
LEMMA Least ==
  ASSUME NEW n \in Nat, NEW s \in SUBSET (1 .. n), s # {}
  PROVE  \E k \in s : \A j \in s : k <= j
<1> DEFINE Below(k) == { j \in s : j < k }
           All == { Below(k) : k \in s }
           R == StrictSubsetOrdering(1 .. n)
<1>1. All \subseteq FiniteSubsetsOf(1 .. n)
  <2>1. IsFiniteSet(1 .. n)
    BY FS_Interval
  <2>2. ASSUME NEW t \in SUBSET (1 .. n)  PROVE IsFiniteSet(t)
    BY <2>1, FS_Subset
  <2> QED  BY <2>2 DEF FiniteSubsetsOf
<1>2. PICK low \in All : \A t \in All : << t, low >> \notin R
  <2>1. IsWellFoundedOn(R, FiniteSubsetsOf(1 .. n)) /\ All # {}
    BY FS_StrictSubsetOrderingWellFounded
  <2> HIDE DEF All, R
  <2> QED  BY <1>1, <2>1, WFMin
<1>3. PICK k \in s : low = Below(k)
  BY <1>2
<1>4. ASSUME NEW j \in s, j < k  PROVE FALSE
  <2>1. Below(j) \subseteq Below(k) /\ j \in Below(k) /\ j \notin Below(j)
    <3>1. \A i \in s : i \in Int
      OBVIOUS
    <3>2. ~(j < j) /\ \A i \in s : i < j => i < k
      BY <1>4, <3>1
    <3> QED  BY <1>4, <3>2
  <2>2. << Below(j), Below(k) >> \in R
    BY <2>1 DEF StrictSubsetOrdering
  <2> QED  BY <1>2, <1>3, <2>2
<1> QED  BY <1>4

\* Whichever rule prices the line, its rate is one an administrator may set.
LEMMA ResolvesStep ==
  ASSUME DeskInv, Resolves
  PROVE  DeskInv'
<1>1. ASSUME NEW at \in { "CATEGORY", "GLOBAL", "refused" }, quote' = [quote EXCEPT !.at = at]
      PROVE  QuoteOK'
  <2>1. quote' \in Quote /\ quote'.line = quote.line /\ quote'.commission = quote.commission
    BY <1>1 DEF DeskInv, QuoteOK, Quote
  <2> QED  BY <2>1 DEF DeskInv, QuoteOK
<1>2. QuoteOK
  BY DEF DeskInv
<1>3. ASSUME AsksSeller  PROVE QuoteOK'
  <2>1. own # NoRate => own \in Rates
    BY DEF DeskInv, Rate
  <2> QED  BY <1>1, <1>2, <1>3, <2>1, PricesQuote DEF AsksSeller
<1>4. ASSUME AsksCategory  PROVE QuoteOK'
  <2>1. category.active => category.rate \in Rates
    BY DEF DeskInv, Rate, Setting, Usable
  <2> QED  BY <1>1, <1>2, <1>4, <2>1, PricesQuote DEF AsksCategory
<1>5. ASSUME AsksPlatform  PROVE QuoteOK'
  <2> DEFINE active == { i \in DOMAIN default : default[i].active }
             first == CHOOSE i \in active : \A j \in active : i <= j
  <2>1. /\ active = {} => quote' = [quote EXCEPT !.at = "refused"]
        /\ active # {} => Prices(default[first].rate)
    BY <1>5 DEF AsksPlatform
  <2>2. ASSUME NEW i \in active  PROVE default[i].rate \in Rates
    <3>1. default[i] \in Setting /\ Usable(default[i]) /\ default[i].active
      BY DEF DeskInv, DefaultsOK
    <3> QED  BY <3>1 DEF Usable, Rate, Setting
  <2>3. active # {} => first \in active
    <3>1. active \subseteq 1 .. Len(default) /\ Len(default) \in Nat
      BY DEF DeskInv, DefaultsOK
    <3> HIDE DEF active
    <3> QED  BY <3>1, Least
  <2> HIDE DEF active, first
  <2> QED  BY <1>1, <1>2, <2>1, <2>2, <2>3, PricesQuote
<1>6. QuoteOK'
  BY <1>3, <1>4, <1>5 DEF Resolves
<1> QED  BY <1>6 DEF Resolves, DeskInv, DefaultsOK, TrailOK, ChangesOK, OverridesChain

LEMMA DeskInitially == DeskInit => DeskInv
<1> SUFFICES ASSUME DeskInit  PROVE DeskInv
  OBVIOUS
<1>1. QuoteOK
  <2>1. quote.at = "SELLER" /\ quote.units = NoRate /\ quote.line \in Amounts /\ quote.commission = 0
    BY DEF DeskInit
  <2>2. quote = [ at |-> quote.at, units |-> quote.units, line |-> quote.line,
                  commission |-> quote.commission ]
    BY DEF DeskInit
  <2>3. 0 <= quote.line
    <3>1. quote.line \in Nat
      BY <2>1, DeskConstants
    <3> QED  BY <3>1
  <2>4. quote \in Quote
    BY <2>1, <2>2 DEF Quote, Rate
  <2> QED  BY <2>1, <2>3, <2>4 DEF QuoteOK
<1>2. ChangesOK
  BY NoChangeIsChange DEF DeskInit, ChangesOK, NoChange
<1>3. DefaultsOK /\ TrailOK
  BY DeskConstants DEF DeskInit, DefaultsOK, TrailOK
<1> QED  BY <1>1, <1>2, <1>3, NoChangeIsChange DEF DeskInit, DeskInv, OverridesChain, Rate

LEMMA DeskInvariant == DeskSpec => []DeskInv
<1>1. DeskInv /\ [DeskNext]_deskVars => DeskInv'
  <2> SUFFICES ASSUME DeskInv, [DeskNext]_deskVars  PROVE DeskInv'
    OBVIOUS
  <2>1. CASE UNCHANGED deskVars
    BY <2>1 DEF deskVars, DeskInv, DefaultsOK, TrailOK, ChangesOK, QuoteOK, OverridesChain
  <2>2. ASSUME NEW a \in Admins, ChangeFails(a)  PROVE DeskInv'
    <3>1. ChangesOK'
      BY <2>2, FinishesKeepsChanges DEF DeskInv, ChangeFails
    <3> QED  BY <2>2, <3>1 DEF ChangeFails, DeskInv, DefaultsOK, TrailOK, QuoteOK, OverridesChain
  <2>3. CASE Administers
    BY <2>2, <2>3, RateReadsStep, WritesOwnStep, WritesCategoryStep, RemovesCategoryStep,
       WritesDefaultStep DEF Administers
  <2> QED  BY <2>1, <2>3, ResolvesStep DEF DeskNext
<1> QED  BY <1>1, DeskInitially, PTL DEF DeskSpec

\* Rows keep their shape, and no delivery is priced at more than its line, however
\* administrators change the three rules (resolveCommission).
THEOREM DeskTypeCorrect == DeskSpec => []DeskTypeOK
<1>1. DeskInv => DeskTypeOK
  BY DEF DeskInv, DeskTypeOK, DefaultsOK, TrailOK, ChangesOK, QuoteOK
<1> QED  BY <1>1, DeskInvariant, PTL

\* Administrators who set or clear a seller's rate at once never overwrite one
\* another: every audited change starts from the rate the one before it left
\* (setSellerOverride, clearSellerOverride).
THEOREM OverridesNeverLost == DeskSpec => []OverridesChain
<1>1. DeskInv => OverridesChain
  BY DEF DeskInv
<1> QED  BY <1>1, DeskInvariant, PTL

-----------------------------------------------------------------------------
(* The category tree                                                         *)

Known(n) == n = Top \/ node[n] # "none"

Names(d) == d.op \in { "move", "describe", "list" } => d.of # Top

\* Every reference names a row.
RowsKnown ==
  /\ \A n \in Nodes : Known(parent[n])
  /\ \A e \in TreeEdits : Known(treeEdit[e].of) /\ Known(treeEdit[e].to) /\ Names(treeEdit[e])
  /\ \A n \in carries : node[n] # "none"

TreeInv == TaxonomyTypeOK /\ RowsKnown

\* What d asks of the tree holds of it now.
GuardStands(d) ==
  /\ d.op = "create" => /\ MayCreate(d.to)
                        /\ d.bare = LeafMade(d.to) /\ d.vacant = LeafMade(d.to)
  /\ d.op = "move" => /\ d.of \in Nodes /\ MayMove(d.of, d.to)
                      /\ d.bare = LeafMade(d.to) \cup LeafLeft(d.of)
                      /\ d.vacant = LeafMade(d.to)
  /\ d.op = "delete" => /\ d.of \in Present
                        /\ d.bare = LeafLeft(d.of) /\ d.vacant = Beneath(d.of)
  /\ d.op \in { "describe", "list" } => IsLeaf(d.of)
  /\ d.phase = "counted" => d.bare \cap carries = {} /\ d.vacant \cap holds = {}

\* A read holds until somebody else writes.
ReadsStand == \A e \in TreeEdits : InFlight(e) /\ treeEdit[e].sure => GuardStands(treeEdit[e])

LEMMA TreeTypes ==
  ASSUME TreeInv
  PROVE  /\ node \in [Nodes -> { "none", "live", "deleted" }]
         /\ parent \in [Nodes -> Nodes \cup { Top }]
         /\ carries \subseteq Nodes /\ holds \subseteq Nodes
         /\ Present \subseteq Nodes /\ Top \notin Nodes /\ Top \notin Present
         /\ treeEdit \in [TreeEdits -> TreeEdit]
BY TaxonomyConstants DEF TreeInv, TaxonomyTypeOK, Present, Nodes

\* The steps that only read, and those that write.
Asking(e) ==
  \/ CountsRows(e) \/ EditFails(e)
  \/ \E p \in Nodes \cup { Top } : AsksForChild(e, p)
  \/ \E n \in Nodes : \E p \in Nodes \cup { Top } : AsksToMove(e, n, p)
  \/ \E n \in Nodes : AsksToDelete(e, n)
  \/ \E n \in Nodes : \E op \in { "describe", "list" } : AsksOfLeaf(e, op, n)

FillsLeaf(e) ==
  \/ CreatesAttribute(e) \/ ListsProduct(e)
  \/ \E n \in Nodes : DeletesAttribute(e, n) \/ RestoresProduct(e, n) \/ RetiresProducts(e, n)

Writing(e) ==
  Moves(e) \/ Deletes(e) \/ FillsLeaf(e) \/ \E n \in Nodes : Creates(e, n)

LEMMA TreeSteps ==
  /\ TaxonomyNext => \E e \in TreeEdits : Asking(e) \/ Writing(e)
  /\ \A e \in TreeEdits : Asking(e) => UNCHANGED << treeVars, inTurn, crossed >>
  /\ \A e \in TreeEdits : Writing(e) => Written(e)
<1>1. TaxonomyNext => \E e \in TreeEdits : Asking(e) \/ Writing(e)
  BY Zenon DEF TaxonomyNext, Asking, Writing, FillsLeaf
<1>2. \A e \in TreeEdits : Asking(e) => UNCHANGED << treeVars, inTurn, crossed >>
  BY DEF Asking, CountsRows, EditFails, AsksForChild, AsksToMove, AsksToDelete, AsksOfLeaf,
         ReadsTree
<1>3. \A e \in TreeEdits : Writing(e) => Written(e)
  BY DEF Writing, FillsLeaf, Moves, Deletes, CreatesAttribute, ListsProduct, Creates,
         DeletesAttribute, RestoresProduct, RetiresProducts
<1> QED  BY <1>1, <1>2, <1>3

LEMMA FillsLeafOnly ==
  ASSUME NEW e \in TreeEdits, FillsLeaf(e)
  PROVE  /\ node' = node /\ parent' = parent
         /\ \/ carries' \subseteq carries /\ holds' \subseteq holds \cup Nodes
            \/ /\ carries' \subseteq carries \cup { treeEdit[e].of }
               /\ holds' \subseteq holds \cup { treeEdit[e].of }
               /\ treeEdit[e].op \in { "describe", "list" }
BY DEF FillsLeaf, CreatesAttribute, ListsProduct, DeletesAttribute, RestoresProduct, RetiresProducts

LEMMA WrittenKeepsTypes ==
  ASSUME TreeInv, NEW e \in TreeEdits, Written(e)
  PROVE  /\ treeEdit' \in [TreeEdits -> TreeEdit] /\ inTurn' \in BOOLEAN /\ crossed' \in BOOLEAN
         /\ \A d \in TreeEdits : \/ treeEdit'[d] = AtRest("done")
                                \/ /\ treeEdit'[d].op = treeEdit[d].op
                                   /\ treeEdit'[d].of = treeEdit[d].of
                                   /\ treeEdit'[d].to = treeEdit[d].to
<1>1. treeEdit \in [TreeEdits -> TreeEdit] /\ inTurn \in BOOLEAN /\ crossed \in BOOLEAN
  BY DEF TreeInv, TaxonomyTypeOK
<1>2. AtRest("done") \in TreeEdit
  BY DEF AtRest, TreeEdit
<1>3. ASSUME NEW d \in TreeEdits, NEW b \in BOOLEAN
      PROVE  /\ [ treeEdit[d] EXCEPT !.sure = FALSE, !.straight = @ /\ b ] \in TreeEdit
             /\ [ treeEdit[d] EXCEPT !.sure = FALSE, !.straight = @ /\ b ].op = treeEdit[d].op
             /\ [ treeEdit[d] EXCEPT !.sure = FALSE, !.straight = @ /\ b ].of = treeEdit[d].of
             /\ [ treeEdit[d] EXCEPT !.sure = FALSE, !.straight = @ /\ b ].to = treeEdit[d].to
  BY <1>1 DEF TreeEdit
<1>4. \A d \in TreeEdits :
        /\ treeEdit'[d] \in TreeEdit
        /\ \/ treeEdit'[d] = AtRest("done")
           \/ /\ treeEdit'[d].op = treeEdit[d].op
              /\ treeEdit'[d].of = treeEdit[d].of /\ treeEdit'[d].to = treeEdit[d].to
  BY <1>1, <1>2, <1>3 DEF Written
<1>5. inTurn' \in BOOLEAN /\ crossed' \in BOOLEAN
  BY <1>1 DEF Written, TreeEdit
<1>6. treeEdit' = [d \in TreeEdits |-> treeEdit'[d]]
  BY DEF Written
<1> QED  BY <1>4, <1>5, <1>6

LEMMA TreeStep ==
  ASSUME TreeInv, TaxonomyNext
  PROVE  TreeInv'
<1>1. /\ node \in [Nodes -> { "none", "live", "deleted" }]
      /\ parent \in [Nodes -> Nodes \cup { Top }]
      /\ carries \subseteq Nodes /\ holds \subseteq Nodes
      /\ Present \subseteq Nodes /\ Top \notin Nodes
      /\ treeEdit \in [TreeEdits -> TreeEdit]
  BY TreeTypes
<1>2. /\ \A n \in Nodes : Known(parent[n])
      /\ \A e \in TreeEdits : Known(treeEdit[e].of) /\ Known(treeEdit[e].to) /\ Names(treeEdit[e])
      /\ \A n \in carries : node[n] # "none"
  BY DEF TreeInv, RowsKnown
<1>3. \A n \in Present : node[n] # "none"
  BY DEF Present
\* The reads.
<1>4. ASSUME UNCHANGED << treeVars, inTurn, crossed >>, treeEdit' \in [TreeEdits -> TreeEdit],
             \A e \in TreeEdits : /\ Known(treeEdit'[e].of) /\ Known(treeEdit'[e].to)
                                 /\ Names(treeEdit'[e])
      PROVE  TreeInv'
  BY <1>2, <1>4 DEF TreeInv, TaxonomyTypeOK, RowsKnown, Known, treeVars
<1>5. ASSUME NEW e \in TreeEdits, NEW op \in { "create", "move", "delete", "describe", "list" },
             NEW n \in Nodes \cup { Top }, NEW p \in Nodes \cup { Top }, Known(n), Known(p),
             op \in { "move", "describe", "list" } => n # Top,
             NEW bare \in SUBSET Nodes, NEW vacant \in SUBSET Nodes,
             ReadsTree(e, op, n, p, bare, vacant)
      PROVE  TreeInv'
  <2>1. /\ UNCHANGED << treeVars, inTurn, crossed >>
        /\ treeEdit' = [treeEdit EXCEPT ![e] =
             [ phase |-> IF bare \cup vacant = {} THEN "counted" ELSE "read",
               op |-> op, of |-> n, to |-> p, bare |-> bare, vacant |-> vacant,
               sure |-> TRUE, straight |-> TRUE ]]
    BY <1>5 DEF ReadsTree
  <2>2. treeEdit' \in [TreeEdits -> TreeEdit]
    BY <1>1, <2>1 DEF TreeEdit
  <2>3. \A d \in TreeEdits : /\ Known(treeEdit'[d].of) /\ Known(treeEdit'[d].to)
                              /\ Names(treeEdit'[d])
    BY <1>1, <1>2, <1>5, <2>1 DEF Names
  <2> QED  BY <1>4, <2>1, <2>2, <2>3
<1>6. \A p \in Nodes \cup { Top } : LeafMade(p) \subseteq Nodes
  BY <1>1 DEF LeafMade, IsLeaf
<1>7. \A n \in Present : n \in Nodes /\ Known(n) /\ LeafLeft(n) \subseteq Nodes /\ Beneath(n) \subseteq Nodes
  BY <1>1, <1>3 DEF LeafLeft, Beneath, Children, Known
<1>8. Known(Top)
  BY DEF Known
<1>9. ASSUME NEW e \in TreeEdits, NEW p \in Nodes \cup { Top }, AsksForChild(e, p)  PROVE TreeInv'
  <2>1. Known(p) /\ ReadsTree(e, "create", Top, p, LeafMade(p), LeafMade(p))
    BY <1>7, <1>8, <1>9 DEF AsksForChild, MayCreate
  <2> QED  BY <1>5, <1>6, <1>8, <2>1
<1>10. ASSUME NEW e \in TreeEdits, NEW n \in Nodes, NEW p \in Nodes \cup { Top }, AsksToMove(e, n, p)
       PROVE  TreeInv'
  <2>1. /\ Known(n) /\ Known(p) /\ LeafMade(p) \cup LeafLeft(n) \subseteq Nodes
        /\ ReadsTree(e, "move", n, p, LeafMade(p) \cup LeafLeft(n), LeafMade(p))
    BY <1>6, <1>7, <1>8, <1>10 DEF AsksToMove, MayMove
  <2> QED  BY <1>1, <1>5, <1>6, <2>1
<1>11. ASSUME NEW e \in TreeEdits, NEW n \in Nodes, AsksToDelete(e, n)  PROVE TreeInv'
  <2>1. n \in Present /\ ReadsTree(e, "delete", n, Top, LeafLeft(n), Beneath(n))
    BY <1>11 DEF AsksToDelete
  <2> QED  BY <1>5, <1>7, <1>8, <2>1
<1>12. ASSUME NEW e \in TreeEdits, NEW n \in Nodes, NEW op \in { "describe", "list" }, AsksOfLeaf(e, op, n)
       PROVE  TreeInv'
  <2>1. Known(n) /\ ReadsTree(e, op, n, Top, {}, {})
    BY <1>7, <1>12 DEF AsksOfLeaf, IsLeaf
  <2> QED  BY <1>1, <1>5, <1>8, <2>1
<1>13. ASSUME NEW e \in TreeEdits, CountsRows(e) \/ EditFails(e),
              UNCHANGED << treeVars, inTurn, crossed >>
       PROVE  TreeInv'
  <2>1. /\ AtRest("done") \in TreeEdit /\ AtRest("done").of = Top /\ AtRest("done").to = Top
        /\ AtRest("done").op = "none"
    BY DEF AtRest, TreeEdit
  <2>2. \/ treeEdit' = [treeEdit EXCEPT ![e].phase = "counted"]
        \/ treeEdit' = [treeEdit EXCEPT ![e] = AtRest("done")]
    BY <1>13 DEF CountsRows, EditFails
  <2>3. /\ [ treeEdit[e] EXCEPT !.phase = "counted" ] \in TreeEdit
        /\ [ treeEdit[e] EXCEPT !.phase = "counted" ].op = treeEdit[e].op
        /\ [ treeEdit[e] EXCEPT !.phase = "counted" ].of = treeEdit[e].of
        /\ [ treeEdit[e] EXCEPT !.phase = "counted" ].to = treeEdit[e].to
    BY <1>1 DEF TreeEdit
  <2>4. treeEdit' \in [TreeEdits -> TreeEdit]
    BY <1>1, <2>1, <2>2, <2>3
  <2>5. \A d \in TreeEdits : /\ Known(treeEdit'[d].of) /\ Known(treeEdit'[d].to)
                              /\ Names(treeEdit'[d])
    BY <1>1, <1>2, <1>8, <2>1, <2>2, <2>3 DEF Names
  <2> QED  BY <1>4, <1>13, <2>4, <2>5
\* The writes.
<1>14. ASSUME NEW e \in TreeEdits, Written(e),
              node' \in [Nodes -> { "none", "live", "deleted" }],
              parent' \in [Nodes -> Nodes \cup { Top }],
              carries' \subseteq Nodes, holds' \subseteq Nodes,
              \A n \in Nodes : node[n] # "none" => node'[n] # "none",
              \A n \in Nodes : parent'[n] \in { parent[n], treeEdit[e].to },
              \A n \in carries' : node'[n] # "none"
       PROVE  TreeInv'
  <2>1. \A n \in Nodes \cup { Top } : Known(n) => Known(n)'
    BY <1>1, <1>14 DEF Known
  <2>2. /\ treeEdit' \in [TreeEdits -> TreeEdit] /\ inTurn' \in BOOLEAN /\ crossed' \in BOOLEAN
        /\ \A d \in TreeEdits : \/ treeEdit'[d] = AtRest("done")
                               \/ /\ treeEdit'[d].op = treeEdit[d].op
                                  /\ treeEdit'[d].of = treeEdit[d].of
                                  /\ treeEdit'[d].to = treeEdit[d].to
    BY <1>14, WrittenKeepsTypes
  <2>3. \A d \in TreeEdits : treeEdit[d].of \in Nodes \cup { Top } /\ treeEdit[d].to \in Nodes \cup { Top }
    BY <1>1 DEF TreeEdit
  <2>4. \A d \in TreeEdits :
          Known(treeEdit[d].of)' /\ Known(treeEdit[d].to)' /\ Names(treeEdit[d])'
    <3>1. SUFFICES ASSUME NEW d \in TreeEdits
                   PROVE  Known(treeEdit[d].of)' /\ Known(treeEdit[d].to)' /\ Names(treeEdit[d])'
      OBVIOUS
    <3>2. Known(treeEdit[d].of) /\ Known(treeEdit[d].to) /\ Names(treeEdit[d])
      BY <1>2
    <3> QED  BY <1>14, <2>2, <2>3, <3>2 DEF Known, Names, AtRest
  <2>5. \A n \in Nodes : Known(parent[n])'
    <3>1. \A n \in Nodes : parent'[n] = Top \/ node'[parent'[n]] # "none"
      BY <1>1, <1>2, <1>14, <2>3 DEF Known
    <3> QED  BY <3>1 DEF Known
  <2> QED  BY <1>14, <2>2, <2>4, <2>5 DEF TreeInv, TaxonomyTypeOK, RowsKnown
<1>15. \A e \in TreeEdits : /\ treeEdit[e].of \in Nodes \cup { Top } /\ treeEdit[e].to \in Nodes \cup { Top }
                            /\ Known(treeEdit[e].of) /\ Names(treeEdit[e])
  BY <1>1, <1>2 DEF TreeEdit
<1>16. ASSUME NEW e \in TreeEdits, NEW n \in Nodes, Creates(e, n)  PROVE TreeInv'
  <2>1. /\ node' = [node EXCEPT ![n] = "live"] /\ parent' = [parent EXCEPT ![n] = treeEdit[e].to]
        /\ carries' = carries /\ holds' = holds /\ Written(e)
    BY <1>16 DEF Creates
  <2> QED  BY <1>1, <1>2, <1>14, <1>15, <2>1
<1>17. ASSUME NEW e \in TreeEdits, Moves(e)  PROVE TreeInv'
  <2>1. /\ node' = node /\ parent' = [parent EXCEPT ![treeEdit[e].of] = treeEdit[e].to]
        /\ carries' = carries /\ holds' = holds /\ Written(e)
    BY <1>17 DEF Moves
  <2> QED  BY <1>1, <1>2, <1>14, <1>15, <2>1
<1>18. ASSUME NEW e \in TreeEdits, Deletes(e)  PROVE TreeInv'
  <2>1. /\ node' = [m \in Nodes |-> IF m \in treeEdit[e].vacant THEN "deleted" ELSE node[m]]
        /\ parent' = parent /\ carries' = carries /\ holds' = holds /\ Written(e)
    BY <1>18 DEF Deletes
  <2> QED  BY <1>1, <1>2, <1>14, <2>1
<1>19. ASSUME NEW e \in TreeEdits, FillsLeaf(e)  PROVE TreeInv'
  <2>1. /\ node' = node /\ parent' = parent /\ Written(e)
        /\ \/ carries' \subseteq carries /\ holds' \subseteq holds \cup Nodes
           \/ /\ carries' \subseteq carries \cup { treeEdit[e].of }
              /\ holds' \subseteq holds \cup { treeEdit[e].of }
              /\ treeEdit[e].op \in { "describe", "list" }
    BY <1>19, FillsLeafOnly, TreeSteps DEF Writing
  <2>2. /\ carries' \subseteq Nodes /\ holds' \subseteq Nodes
        /\ \A m \in carries' : node[m] # "none"
    BY <1>1, <1>2, <1>15, <2>1 DEF Known, Names
  <2> QED  BY <1>1, <1>14, <2>1, <2>2
<1>20. PICK e \in TreeEdits : Asking(e) \/ Writing(e)
  BY TreeSteps
<1>21. CASE Asking(e)
  BY <1>9, <1>10, <1>11, <1>12, <1>13, <1>21, TreeSteps, Zenon DEF Asking
<1>22. CASE Writing(e)
  BY <1>16, <1>17, <1>18, <1>19, <1>22, Zenon DEF Writing
<1> QED  BY <1>20, <1>21, <1>22

LEMMA UnchangedTreeStands ==
  ASSUME UNCHANGED treeVars
  PROVE  \A d : GuardStands(d) => GuardStands(d)'
<1>1. node' = node /\ parent' = parent /\ carries' = carries /\ holds' = holds
  BY DEF treeVars
<1>2. Present' = Present
  BY <1>1 DEF Present
<1>3. /\ \A n : Children(n)' = Children(n)
      /\ \A s : Closed(s)' = Closed(s)
  BY <1>1, <1>2 DEF Children, Closed
<1>4. \A n : IsLeaf(n)' = IsLeaf(n) /\ Beneath(n)' = Beneath(n)
  BY <1>2, <1>3 DEF IsLeaf, Beneath
<1>5. /\ \A n : LeafMade(n)' = LeafMade(n)
      /\ \A n : LeafLeft(n)' = LeafLeft(n)
  BY <1>2, <1>3, <1>4 DEF LeafMade, LeafLeft
<1>6. \A n : Line(n)' = Line(n)
  BY <1>2, <1>3 DEF Line
<1>7. \A n : DepthOf(n)' = DepthOf(n) /\ Subtree(n)' = Subtree(n)
  BY <1>2, <1>6 DEF DepthOf, Subtree
<1>8. \A n, p : Fits(n, p)' = Fits(n, p) /\ UnderItself(n, p)' = UnderItself(n, p)
  BY <1>6, <1>7 DEF Fits, UnderItself
<1>9. /\ \A n, p : MayMove(n, p)' = MayMove(n, p)
      /\ \A p : MayCreate(p)' = MayCreate(p)
  BY <1>1, <1>2, <1>8 DEF MayMove, MayCreate, RoomBelow
<1> QED  BY <1>1, <1>2, <1>4, <1>5, <1>9 DEF GuardStands

LEMMA ReadsStandStep ==
  ASSUME TreeInv, ReadsStand, TaxonomyNext
  PROVE  ReadsStand'
<1>1. treeEdit \in [TreeEdits -> TreeEdit]
  BY TreeTypes
<1>2. PICK e \in TreeEdits : Asking(e) \/ Writing(e)
  BY TreeSteps
\* Whoever writes, the others' reads are no longer fresh.
<1>3. CASE Writing(e)
  <2>1. Written(e)
    BY <1>3, TreeSteps
  <2>2. ASSUME NEW d \in TreeEdits, InFlight(d)'  PROVE ~treeEdit'[d].sure
    <3>1. d # e /\ InFlight(d)
      BY <1>1, <2>1, <2>2 DEF Written, InFlight, AtRest
    <3>2. treeEdit'[d] = [ treeEdit[d] EXCEPT
                             !.sure = FALSE,
                             !.straight = @ /\ ~(treeEdit[e].op = "move" /\ treeEdit[d].op = "move") ]
      BY <2>1, <3>1 DEF Written
    <3> QED  BY <1>1, <3>2 DEF TreeEdit
  <2> QED  BY <2>2 DEF ReadsStand
<1>4. CASE Asking(e)
  <2>1. UNCHANGED treeVars
    BY <1>4, TreeSteps
  <2>2. \A d : GuardStands(d) => GuardStands(d)'
    BY <2>1, UnchangedTreeStands
  <2>3. ASSUME NEW op, NEW n, NEW p, NEW bare, NEW vacant,
               ReadsTree(e, op, n, p, bare, vacant)
        PROVE  /\ \A d \in TreeEdits : d # e => treeEdit'[d] = treeEdit[d]
               /\ treeEdit'[e].op = op /\ treeEdit'[e].of = n /\ treeEdit'[e].to = p
               /\ treeEdit'[e].bare = bare /\ treeEdit'[e].vacant = vacant
               /\ treeEdit'[e].phase = "counted" => bare = {} /\ vacant = {}
    BY <1>1, <2>3 DEF ReadsTree
  <2>4. ASSUME NEW p \in Nodes \cup { Top }, AsksForChild(e, p)
        PROVE  /\ \A d \in TreeEdits : d # e => treeEdit'[d] = treeEdit[d]
               /\ GuardStands(treeEdit'[e])
    <3>1. MayCreate(p) /\ ReadsTree(e, "create", Top, p, LeafMade(p), LeafMade(p))
      BY <2>4 DEF AsksForChild
    <3>2. /\ treeEdit'[e].op = "create" /\ treeEdit'[e].to = p
          /\ treeEdit'[e].bare = LeafMade(p) /\ treeEdit'[e].vacant = LeafMade(p)
          /\ treeEdit'[e].phase = "counted" => LeafMade(p) = {}
      BY <2>3, <3>1
    <3> QED  BY <2>3, <3>1, <3>2 DEF GuardStands
  <2>5. ASSUME NEW n \in Nodes, NEW p \in Nodes \cup { Top }, AsksToMove(e, n, p)
        PROVE  /\ \A d \in TreeEdits : d # e => treeEdit'[d] = treeEdit[d]
               /\ GuardStands(treeEdit'[e])
    <3>1. MayMove(n, p) /\ ReadsTree(e, "move", n, p, LeafMade(p) \cup LeafLeft(n), LeafMade(p))
      BY <2>5 DEF AsksToMove
    <3>2. /\ treeEdit'[e].op = "move" /\ treeEdit'[e].of = n /\ treeEdit'[e].to = p
          /\ treeEdit'[e].bare = LeafMade(p) \cup LeafLeft(n) /\ treeEdit'[e].vacant = LeafMade(p)
          /\ treeEdit'[e].phase = "counted" => treeEdit'[e].bare = {} /\ treeEdit'[e].vacant = {}
      BY <2>3, <3>1
    <3> QED  BY <2>3, <3>1, <3>2 DEF GuardStands
  <2>6. ASSUME NEW n \in Nodes, AsksToDelete(e, n)
        PROVE  /\ \A d \in TreeEdits : d # e => treeEdit'[d] = treeEdit[d]
               /\ GuardStands(treeEdit'[e])
    <3>1. n \in Present /\ ReadsTree(e, "delete", n, Top, LeafLeft(n), Beneath(n))
      BY <2>6 DEF AsksToDelete
    <3>2. /\ treeEdit'[e].op = "delete" /\ treeEdit'[e].of = n
          /\ treeEdit'[e].bare = LeafLeft(n) /\ treeEdit'[e].vacant = Beneath(n)
          /\ treeEdit'[e].phase = "counted" => treeEdit'[e].bare = {} /\ treeEdit'[e].vacant = {}
      BY <2>3, <3>1
    <3> QED  BY <2>3, <3>1, <3>2 DEF GuardStands
  <2>7. ASSUME NEW n \in Nodes, NEW op \in { "describe", "list" }, AsksOfLeaf(e, op, n)
        PROVE  /\ \A d \in TreeEdits : d # e => treeEdit'[d] = treeEdit[d]
               /\ GuardStands(treeEdit'[e])
    <3>1. IsLeaf(n) /\ ReadsTree(e, op, n, Top, {}, {})
      BY <2>7 DEF AsksOfLeaf
    <3>2. /\ treeEdit'[e].op = op /\ treeEdit'[e].of = n
          /\ treeEdit'[e].bare = {} /\ treeEdit'[e].vacant = {}
      BY <2>3, <3>1
    <3> QED  BY <2>3, <3>1, <3>2 DEF GuardStands
  <2>8. ASSUME CountsRows(e)
        PROVE  /\ \A d \in TreeEdits : d # e => treeEdit'[d] = treeEdit[d]
               /\ treeEdit[e].sure => GuardStands(treeEdit'[e])
               /\ treeEdit'[e].sure => treeEdit[e].sure
    <3>1. /\ InFlight(e) /\ treeEdit[e].bare \cap carries = {} /\ treeEdit[e].vacant \cap holds = {}
          /\ treeEdit' = [treeEdit EXCEPT ![e].phase = "counted"]
      BY <2>8 DEF CountsRows, InFlight
    <3>2. /\ treeEdit'[e].op = treeEdit[e].op /\ treeEdit'[e].of = treeEdit[e].of
          /\ treeEdit'[e].to = treeEdit[e].to /\ treeEdit'[e].sure = treeEdit[e].sure
          /\ treeEdit'[e].bare = treeEdit[e].bare /\ treeEdit'[e].vacant = treeEdit[e].vacant
      BY <1>1, <3>1 DEF TreeEdit
    <3>3. treeEdit[e].sure => GuardStands(treeEdit[e])
      BY <3>1 DEF ReadsStand
    <3> QED  BY <1>1, <3>1, <3>2, <3>3 DEF GuardStands
  <2>9. ASSUME EditFails(e)
        PROVE  /\ \A d \in TreeEdits : d # e => treeEdit'[d] = treeEdit[d]
               /\ ~InFlight(e)'
    BY <1>1, <2>9 DEF EditFails, AtRest, InFlight
  <2>10. /\ \A d \in TreeEdits : d # e => treeEdit'[d] = treeEdit[d]
         /\ InFlight(e)' /\ treeEdit'[e].sure => GuardStands(treeEdit'[e])
    <3>1. CASE CountsRows(e)
      BY <2>8, <3>1
    <3>2. CASE EditFails(e)
      BY <2>9, <3>2
    <3> QED  BY <1>4, <2>4, <2>5, <2>6, <2>7, <3>1, <3>2, Zenon DEF Asking
  <2>11. \A d \in TreeEdits : InFlight(d)' /\ treeEdit'[d].sure => GuardStands(treeEdit'[d])
    BY <2>10 DEF ReadsStand, InFlight
  <2> QED  BY <2>2, <2>11 DEF ReadsStand, GuardStands
<1> QED  BY <1>2, <1>3, <1>4

\* An edit that is written in turn is written to the tree it read.
LEMMA TurnsStand ==
  ASSUME TreeInv, ReadsStand, NEW e \in TreeEdits, Writing(e), inTurn'
  PROVE  inTurn /\ (treeEdit[e].phase = "counted" => GuardStands(treeEdit[e]))
<1>1. inTurn /\ treeEdit[e].sure
  BY TreeSteps DEF Written, TreeInv, TaxonomyTypeOK, TreeEdit
<1> QED  BY <1>1 DEF ReadsStand, InFlight

LEMMA TurnKeepsLeaves ==
  ASSUME TreeInv, ReadsStand, TaxonomyNext, inTurn'
  PROVE  LeavesStand
<1>1. /\ node \in [Nodes -> { "none", "live", "deleted" }]
      /\ parent \in [Nodes -> Nodes \cup { Top }]
      /\ Present \subseteq Nodes /\ Top \notin Nodes /\ Top \notin Present
      /\ carries \subseteq Nodes /\ holds \subseteq Nodes
      /\ \A m \in carries : node[m] # "none"
  BY TreeTypes DEF TreeInv, RowsKnown
<1>2. PICK e \in TreeEdits : Asking(e) \/ Writing(e)
  BY TreeSteps
<1>3. ASSUME node' = node, parent' = parent  PROVE LeavesStand
  <2>1. Present' = Present
    BY <1>3 DEF Present
  <2>2. \A m : IsLeaf(m)' <=> IsLeaf(m)
    BY <1>3, <2>1 DEF IsLeaf, Children
  <2> QED  BY <2>2 DEF LeavesStand, Serving
<1>4. CASE Asking(e)
  BY <1>3, <1>4, TreeSteps DEF treeVars
<1> DEFINE n == treeEdit[e].of
           p == treeEdit[e].to
<1>5. ASSUME Writing(e), treeEdit[e].phase = "counted"
      PROVE  /\ GuardStands(treeEdit[e])
             /\ treeEdit[e].bare \cap carries = {} /\ treeEdit[e].vacant \cap holds = {}
  BY <1>5, TurnsStand DEF GuardStands
<1>6. ASSUME NEW k \in Nodes, Creates(e, k)  PROVE LeavesStand
  <2>1. /\ node' = [node EXCEPT ![k] = "live"] /\ parent' = [parent EXCEPT ![k] = p]
        /\ carries' = carries /\ holds' = holds
        /\ node[k] = "none" /\ treeEdit[e].op = "create" /\ treeEdit[e].phase = "counted"
    BY <1>6 DEF Creates
  <2>2. /\ p # Top => p \in Present
        /\ LeafMade(p) \cap carries = {} /\ LeafMade(p) \cap holds = {}
    BY <1>5, <1>6, <2>1 DEF GuardStands, MayCreate, Writing
  <2>3. k \notin Present /\ Present' = Present \cup { k } /\ k \notin carries
    BY <1>1, <2>1 DEF Present
  <2>4. \A m \in Present : m # p => Children(m)' = Children(m)
    BY <1>1, <2>1, <2>3 DEF Children
  <2>5. \A m \in Present : m = p => Children(m)' # {}
    BY <1>1, <2>1, <2>3 DEF Children
  <2>6. \A m \in Present : m = p /\ IsLeaf(m) => m \notin carries /\ m \notin holds
    BY <2>2 DEF LeafMade
  <2>7. \A m \in Present : m \in carries \cup holds => (IsLeaf(m)' <=> IsLeaf(m))
    BY <2>3, <2>4, <2>5, <2>6 DEF IsLeaf
  <2>8. \A m \in carries : node'[m] = "live" => m \in Present
    BY <1>1, <2>1, <2>3 DEF Present
  <2> QED  BY <1>1, <2>1, <2>7, <2>8 DEF LeavesStand, Serving, IsLeaf
<1>7. CASE Moves(e)
  <2>1. /\ node' = node /\ parent' = [parent EXCEPT ![n] = p]
        /\ carries' = carries /\ holds' = holds
        /\ treeEdit[e].op = "move" /\ treeEdit[e].phase = "counted"
    BY <1>7 DEF Moves
  <2>2. /\ n \in Present /\ p # parent[n]
        /\ p # Top => p \in Present
        /\ (LeafMade(p) \cup LeafLeft(n)) \cap carries = {} /\ LeafMade(p) \cap holds = {}
    BY <1>5, <1>7, <2>1 DEF GuardStands, MayMove, Writing
  <2>3. Present' = Present
    BY <2>1 DEF Present
  <2>4. \A m \in Present : m # p /\ m # parent[n] => Children(m)' = Children(m)
    BY <1>1, <2>1, <2>2, <2>3 DEF Children
  <2>5. \A m \in Present : m = p => Children(m)' # {}
    BY <1>1, <2>1, <2>2, <2>3 DEF Children
  <2>6. \A m \in Present : m = p /\ IsLeaf(m) => m \notin carries /\ m \notin holds
    BY <2>2 DEF LeafMade
  <2>7. \A m \in Present :
          m = parent[n] => /\ Children(m)' = Children(m) \ { n } /\ n \in Children(m)
                           /\ Children(m) = { n } => m \notin carries
    BY <1>1, <2>1, <2>2, <2>3 DEF Children, LeafLeft
  <2>8. \A m \in Present : m \in carries => (IsLeaf(m)' <=> IsLeaf(m))
    <3>1. \A m \in Present : m = parent[n] /\ m \in carries => Children(m)' # {} /\ Children(m) # {}
      BY <2>7
    <3> QED  BY <2>3, <2>4, <2>5, <2>6, <3>1 DEF IsLeaf
  <2>9. \A m \in holds : IsLeaf(m) => IsLeaf(m)'
    BY <2>2, <2>3, <2>4, <2>6, <2>7 DEF IsLeaf
  <2>10. \A m \in carries : node'[m] = "live" => m \in Present
    BY <1>1, <2>1 DEF Present
  <2> QED  BY <2>1, <2>8, <2>9, <2>10 DEF LeavesStand, Serving
<1>8. CASE Deletes(e)
  <2> DEFINE gone == Beneath(n)
  <2>1. treeEdit[e].op = "delete" /\ treeEdit[e].phase = "counted"
    BY <1>8 DEF Deletes
  <2>2. /\ n \in Present /\ treeEdit[e].vacant = gone
        /\ LeafLeft(n) \cap carries = {} /\ gone \cap holds = {}
    BY <1>5, <1>8, <2>1 DEF GuardStands, Writing
  <2>3. /\ node' = [m \in Nodes |-> IF m \in gone THEN "deleted" ELSE node[m]]
        /\ parent' = parent /\ carries' = carries /\ holds' = holds
    BY <1>8, <2>2 DEF Deletes
  <2>4. n \in gone /\ \A c \in gone : c # n => parent[c] \in gone
    <3>1. \A c \in Children(n) : c \in gone /\ parent[c] = n
      BY DEF Children, Beneath
    <3>2. \A c \in gone : c # n => c \in Children(n) \/ \E d \in Children(n) : c \in Children(d)
      BY DEF Beneath
    <3>3. \A d, c : c \in Children(d) => parent[c] = d
      BY DEF Children
    <3>4. n \in gone
      BY DEF Beneath
    <3> HIDE DEF gone
    <3> QED  BY <3>1, <3>2, <3>3, <3>4
  <2> HIDE DEF gone
  <2>5. Present' = Present \ gone
    BY <1>1, <2>3 DEF Present
  <2>6. \A m \in Present \ gone : Children(m)' \subseteq Children(m)
    BY <2>3, <2>5 DEF Children
  <2>7. \A m \in Present \ gone : m # parent[n] => Children(m)' = Children(m)
    BY <2>3, <2>4, <2>5 DEF Children
  <2>8. \A m \in Present \ gone :
          m = parent[n] => /\ Children(m)' = Children(m) \ { n } /\ n \in Children(m)
                           /\ Children(m) = { n } => m \notin carries
    BY <2>2, <2>3, <2>4, <2>5 DEF Children, LeafLeft
  <2>9. \A m \in carries : m \in Present \ gone => (IsLeaf(m)' <=> IsLeaf(m))
    <3>1. \A m \in Present \ gone : m = parent[n] /\ m \in carries => Children(m)' # {} /\ Children(m) # {}
      BY <2>8
    <3> QED  BY <2>5, <2>7, <3>1 DEF IsLeaf
  <2>10. \A m \in holds : IsLeaf(m) => IsLeaf(m)'
    BY <2>2, <2>5, <2>6 DEF IsLeaf
  <2>11. \A m \in carries : node'[m] = "live" => m \in Present \ gone
    BY <1>1, <2>3 DEF Present
  <2> QED  BY <2>3, <2>9, <2>10, <2>11 DEF LeavesStand, Serving
<1>9. CASE FillsLeaf(e)
  BY <1>3, <1>9, FillsLeafOnly
<1> QED  BY <1>2, <1>4, <1>6, <1>7, <1>8, <1>9 DEF Writing

-----------------------------------------------------------------------------
(* The forest                                                                *)

\* Three levels, spelled out.
ThreeLevels ==
  \A n \in Present :
    \/ parent[n] = Top
    \/ /\ parent[n] \in Present
       /\ \/ parent[parent[n]] = Top
          \/ parent[parent[n]] \in Present /\ parent[parent[parent[n]]] = Top

LEMMA FewElements ==
  ASSUME NEW x, NEW y, NEW z
  PROVE  /\ Cardinality({ x }) = 1
         /\ x # y => Cardinality({ x, y }) = 2
         /\ x # y /\ x # z /\ y # z =>
              IsFiniteSet({ x, y, z }) /\ Cardinality({ x, y, z }) = 3
<1>1. IsFiniteSet({ x }) /\ Cardinality({ x }) = 1
  BY FS_Singleton
<1>2. x # y => IsFiniteSet({ x, y }) /\ Cardinality({ x, y }) = 2
  <2>1. { x, y } = { x } \cup { y }
    OBVIOUS
  <2> QED  BY <1>1, <2>1, FS_AddElement
<1>3. x # y /\ x # z /\ y # z => IsFiniteSet({ x, y, z }) /\ Cardinality({ x, y, z }) = 3
  <2>1. { x, y, z } = { x, y } \cup { z }
    OBVIOUS
  <2>2. x # z /\ y # z => z \notin { x, y }
    OBVIOUS
  <2> QED  BY <1>2, <2>1, <2>2, FS_AddElement
<1> QED  BY <1>1, <1>2, <1>3

LEMMA TopIsNowhere == Top \notin Present
BY TaxonomyConstants DEF Present, Nodes

LEMMA LineCloses ==
  ASSUME NEW n \in Present
  PROVE  /\ n \in Line(n) /\ Line(n) \subseteq Present
         /\ \A m \in Line(n) : parent[m] \in Present => parent[m] \in Line(n)
<1>1. ASSUME NEW m \in Line(n), parent[m] \in Present,
             NEW s \in SUBSET Present, n \in s, parent[m] \notin s
      PROVE  ~Closed(s)
  <2>1. CASE m \in s
    BY <1>1, <2>1, TopIsNowhere DEF Closed
  <2>2. CASE m \notin s
    BY <1>1, <2>2 DEF Line
  <2> QED  BY <2>1, <2>2
<1>2. n \in Line(n) /\ Line(n) \subseteq Present
  BY DEF Line
<1> QED  BY <1>1, <1>2 DEF Line

LEMMA LineWithin ==
  ASSUME NEW n \in Present, NEW s \in SUBSET Present, n \in s,
         \A m \in s : parent[m] \in Present => parent[m] \in s
  PROVE  Line(n) \subseteq s
BY DEF Line, Closed

LEMMA LineOfRoot ==
  ASSUME NEW n \in Present, parent[n] \notin Present
  PROVE  Line(n) = { n }
<1>1. \A m \in { n } : parent[m] \in Present => parent[m] \in { n }
  OBVIOUS
<1>2. { n } \in SUBSET Present /\ n \in { n }
  OBVIOUS
<1>3. Line(n) \subseteq { n }
  BY <1>1, <1>2, LineWithin
<1> QED  BY <1>3, LineCloses

LEMMA LineUnder ==
  ASSUME NEW n \in Present, parent[n] \in Present
  PROVE  Line(n) = { n } \cup Line(parent[n])
<1> DEFINE p == parent[n]
<1>1. /\ n \in Line(n) /\ Line(n) \subseteq Present
      /\ \A m \in Line(n) : parent[m] \in Present => parent[m] \in Line(n)
  BY LineCloses
<1>2. /\ p \in Line(p) /\ Line(p) \subseteq Present
      /\ \A m \in Line(p) : parent[m] \in Present => parent[m] \in Line(p)
  BY LineCloses
<1>3. Line(p) \subseteq Line(n)
  BY <1>1, LineWithin
<1>4. Line(n) \subseteq { n } \cup Line(p)
  <2> DEFINE s == { n } \cup Line(p)
  <2>1. s \in SUBSET Present /\ n \in s /\ \A m \in s : parent[m] \in Present => parent[m] \in s
    BY <1>2
  <2> HIDE DEF s
  <2>2. Line(n) \subseteq s
    BY <2>1, LineWithin
  <2> QED  BY <2>2 DEF s
<1> QED  BY <1>1, <1>3, <1>4

\* The line and the depth of a category, level by level.
LEMMA Levels ==
  ASSUME ThreeLevels, NEW n \in Present
  PROVE  /\ parent[n] = Top => Line(n) = { n } /\ DepthOf(n) = 1
         /\ parent[n] # Top /\ parent[parent[n]] = Top =>
              Line(n) = { n, parent[n] } /\ DepthOf(n) = 2
         /\ parent[n] # Top /\ parent[parent[n]] # Top =>
              Line(n) = { n, parent[n], parent[parent[n]] } /\ DepthOf(n) = 3
<1> DEFINE p == parent[n]
           q == parent[p]
<1>1. CASE p = Top
  BY <1>1, TopIsNowhere, LineOfRoot, FewElements DEF DepthOf
<1>2. CASE p # Top /\ q = Top
  <2>1. p \in Present
    BY <1>2 DEF ThreeLevels
  <2>2. Line(p) = { p } /\ Line(n) = { n } \cup Line(p)
    BY <1>2, <2>1, TopIsNowhere, LineOfRoot, LineUnder
  <2>3. n # p /\ Line(n) = { n, p }
    BY <1>2, <2>2
  <2>4. DepthOf(n) = 2
    <3>1. Cardinality({ n, p }) = 2
      <4> HIDE DEF p, q
      <4> QED  BY <2>3, FewElements
    <3> QED  BY <2>3, <3>1 DEF DepthOf
  <2> QED  BY <1>2, <2>3, <2>4
<1>3. CASE p # Top /\ q # Top
  <2>1. p \in Present /\ q \in Present /\ parent[q] = Top
    BY <1>3 DEF ThreeLevels
  <2>2. Line(q) = { q } /\ Line(p) = { p } \cup Line(q) /\ Line(n) = { n } \cup Line(p)
    BY <2>1, TopIsNowhere, LineOfRoot, LineUnder
  <2>3. n # p /\ n # q /\ p # q
    BY <1>3, <2>1
  <2>4. Line(n) = { n, p, q }
    BY <2>2
  <2>5. Cardinality({ n, p, q }) = 3
    <3> HIDE DEF p, q
    <3> QED  BY <2>3, FewElements, ZenonT(40)
  <2> QED  BY <1>3, <2>4, <2>5 DEF DepthOf
<1> QED  BY <1>1, <1>2, <1>3

LEMMA ForestHasLevels ==
  ASSUME MaxDepth = 3, TaxonomyTypeOK, Forest
  PROVE  ThreeLevels
<1> SUFFICES ASSUME NEW n \in Present
             PROVE  \/ parent[n] = Top
                    \/ /\ parent[n] \in Present
                       /\ \/ parent[parent[n]] = Top
                          \/ /\ parent[parent[n]] \in Present
                             /\ parent[parent[parent[n]]] = Top
  BY DEF ThreeLevels
<1> DEFINE p == parent[n]
           q == parent[p]
           r == parent[q]
<1>1. PICK root \in Line(n) : parent[root] = Top
  BY DEF Forest
<1>2. Cardinality(Line(n)) <= 3
  BY DEF Forest, DepthOf
<1>3. \A s \in SUBSET Present :
        n \in s /\ (\A m \in s : parent[m] \in Present => parent[m] \in s) => root \in s
  BY <1>1, LineWithin
<1>4. CASE p \notin Present
  <2>1. root \in { n }
    BY <1>3, <1>4
  <2> QED  BY <1>1, <2>1
<1>5. CASE p \in Present /\ q \notin Present
  <2>1. root \in { n, p }
    BY <1>3, <1>5
  <2> QED  BY <1>1, <1>5, <2>1, TopIsNowhere
<1>6. CASE p \in Present /\ q \in Present /\ r \notin Present
  <2>1. root \in { n, p, q }
    BY <1>3, <1>6
  <2> QED  BY <1>1, <1>6, <2>1, TopIsNowhere
<1>7. CASE p \in Present /\ q \in Present /\ r \in Present
  <2>1. r \notin { n, p, q }
    <3>1. SUFFICES ASSUME r \in { n, p, q }  PROVE FALSE
      OBVIOUS
    <3>2. root \in { n, p, q }
      BY <1>3, <1>7, <3>1
    <3> QED  BY <1>1, <1>7, <3>2, TopIsNowhere
  <2>2. n # p /\ n # q /\ p # q /\ r # n /\ r # p /\ r # q
    BY <2>1
  <2>3. { n, p, q, r } \subseteq Line(n)
    <3>1. n \in Line(n) /\ \A m \in Line(n) : parent[m] \in Present => parent[m] \in Line(n)
      BY LineCloses
    <3> QED  BY <1>7, <3>1
  <2>4. IsFiniteSet(Line(n))
    <3>1. IsFiniteSet(Nodes) /\ Present \subseteq Nodes
      BY TaxonomyConstants, FS_Interval DEF Nodes, Present
    <3>2. Line(n) \subseteq Nodes
      BY <3>1, LineCloses
    <3> QED  BY <3>1, <3>2, FS_Subset
  <2>5. Cardinality({ n, p, q, r }) <= Cardinality(Line(n)) /\ Cardinality(Line(n)) \in Nat
    BY <2>3, <2>4, FS_Subset, FS_CardinalityType
  <2>6. Cardinality({ n, p, q, r }) = 4
    <3>1. IsFiniteSet({ n, p, q }) /\ Cardinality({ n, p, q }) = 3
      <4> HIDE DEF p, q, r
      <4> QED  BY <2>2, FewElements, ZenonT(40)
    <3>2. { n, p, q, r } = { n, p, q } \cup { r } /\ r \notin { n, p, q }
      BY <2>1
    <3> HIDE DEF p, q, r
    <3>3. Cardinality({ n, p, q } \cup { r }) = 3 + 1
      BY <3>1, <3>2, FS_AddElement
    <3> QED  BY <3>2, <3>3
  <2> QED  BY <1>2, <2>5, <2>6
<1> QED  BY <1>4, <1>5, <1>6, <1>7

LEMMA LevelsMakeAForest ==
  ASSUME MaxDepth = 3, ThreeLevels
  PROVE  Forest
<1> SUFFICES ASSUME NEW n \in Present
             PROVE  DepthOf(n) <= MaxDepth /\ \E root \in Line(n) : parent[root] = Top
  BY DEF Forest, DepthOf
<1>1. CASE parent[n] = Top
  BY <1>1, Levels
<1>2. CASE parent[n] # Top /\ parent[parent[n]] = Top
  BY <1>2, Levels
<1>3. CASE parent[n] # Top /\ parent[parent[n]] # Top
  <2>1. parent[parent[parent[n]]] = Top
    BY <1>3 DEF ThreeLevels
  <2> QED  BY <1>3, <2>1, Levels
<1> QED  BY <1>1, <1>2, <1>3

LEMMA MoveKeepsLevels ==
  ASSUME MaxDepth = 3, TaxonomyTypeOK, ThreeLevels,
         NEW n \in Nodes, NEW p \in Nodes \cup { Top }, MayMove(n, p),
         node' = node, parent' = [parent EXCEPT ![n] = p]
  PROVE  ThreeLevels'
<1> DEFINE D == IF p = Top THEN 0 ELSE DepthOf(p)
<1>1. /\ n \in Present /\ p # parent[n] /\ node' = node /\ parent' = [parent EXCEPT ![n] = p]
      /\ p # Top => p \in Present /\ n \notin Line(p)
      /\ \A m \in Subtree(n) : DepthOf(m) + (D + 1 - DepthOf(n)) <= 3
  BY DEF MayMove, UnderItself, Fits
<1>2. Present' = Present /\ Present \subseteq Nodes /\ parent \in [Nodes -> Nodes \cup { Top }]
  BY <1>1 DEF Present, TaxonomyTypeOK
<1>3. parent'[n] = p /\ \A m \in Present : m # n => parent'[m] = parent[m]
  BY <1>1, <1>2
\* How deep the new parent may be.
<1>4. \A m \in Present : DepthOf(m) \in { 1, 2, 3 }
  BY Levels
<1>5. D \in 0 .. 3 /\ D <= 2
  <2>1. n \in Subtree(n)
    BY <1>1, LineCloses DEF Subtree
  <2>2. DepthOf(n) + (D + 1 - DepthOf(n)) <= 3
    BY <1>1, <2>1
  <2>3. DepthOf(n) \in 1 .. 3 /\ D \in 0 .. 3
    BY <1>1, <1>4
  <2> QED  BY <2>2, <2>3
<1>6. ASSUME NEW m \in Present, parent[m] = n  PROVE D <= 1
  <2>1. parent[m] # Top /\ m \in Subtree(n)
    BY <1>1, <1>6, TopIsNowhere, LineUnder, LineCloses DEF Subtree
  <2>2. DepthOf(m) = DepthOf(n) + 1
    <3>1. \/ parent[n] = Top
          \/ parent[n] # Top /\ parent[parent[n]] = Top
      BY <1>1, <1>6, <2>1, TopIsNowhere DEF ThreeLevels
    <3>2. CASE parent[n] = Top
      BY <1>1, <1>6, <2>1, <3>2, Levels
    <3>3. CASE parent[n] # Top /\ parent[parent[n]] = Top
      BY <1>1, <1>6, <2>1, <3>3, Levels
    <3> QED  BY <3>1, <3>2, <3>3
  <2>3. DepthOf(m) + (D + 1 - DepthOf(n)) <= 3
    BY <1>1, <2>1
  <2>4. DepthOf(n) \in 1 .. 3
    BY <1>1, <1>4
  <2> HIDE DEF D
  <2> QED  BY <1>5, <2>2, <2>3, <2>4
<1>7. ASSUME NEW m \in Present, parent[m] \in Present, parent[parent[m]] = n  PROVE p = Top
  <2>1. parent[n] = Top /\ parent[m] # Top /\ n # Top
    BY <1>1, <1>7, TopIsNowhere DEF ThreeLevels
  <2>2. DepthOf(n) = 1 /\ DepthOf(m) = 3 /\ n \in Line(m)
    BY <1>1, <1>7, <2>1, Levels
  <2>3. m \in Subtree(n)
    BY <2>2 DEF Subtree
  <2>4. DepthOf(m) + (D + 1 - DepthOf(n)) <= 3
    BY <1>1, <2>3
  <2>5. D <= 0
    <3> HIDE DEF D
    <3> QED  BY <1>5, <2>2, <2>4
  <2> QED  BY <1>1, <1>4, <2>5
<1>8. p # Top => /\ p \in Present /\ p # n
                 /\ parent[p] # Top =>
                      parent[p] \in Present /\ parent[p] # n /\ parent[parent[p]] = Top
                 /\ D <= 1 => parent[p] = Top
  <2>1. SUFFICES ASSUME p # Top
                 PROVE  /\ p \in Present /\ p # n
                        /\ parent[p] # Top =>
                             parent[p] \in Present /\ parent[p] # n /\ parent[parent[p]] = Top
                        /\ D <= 1 => parent[p] = Top
    OBVIOUS
  <2>2. p \in Present /\ n \notin Line(p) /\ p \in Line(p) /\ D = DepthOf(p)
    BY <1>1, <2>1, LineCloses
  <2>3. parent[p] # Top => parent[p] \in Present /\ parent[p] \in Line(p)
    BY <2>2, LineCloses DEF ThreeLevels
  <2>4. parent[p] # Top => parent[parent[p]] = Top /\ DepthOf(p) = 2
    BY <1>5, <2>2, Levels
  <2> QED  BY <2>2, <2>3, <2>4
<1>9. SUFFICES ASSUME NEW m \in Present
               PROVE  \/ parent'[m] = Top
                      \/ /\ parent'[m] \in Present
                         /\ \/ parent'[parent'[m]] = Top
                            \/ /\ parent'[parent'[m]] \in Present
                               /\ parent'[parent'[parent'[m]]] = Top
  BY <1>2 DEF ThreeLevels
<1> HIDE DEF D
<1>10. CASE m = n
  BY <1>3, <1>8, <1>10
<1>11. CASE m # n /\ parent[m] = n
  <2>1. parent'[m] = n /\ D <= 1
    BY <1>3, <1>6, <1>11
  <2>2. p # Top => p \in Present /\ parent'[p] = Top
    BY <1>3, <1>8, <2>1
  <2> QED  BY <1>1, <1>3, <2>1, <2>2
<1>12. CASE m # n /\ parent[m] # n /\ parent[m] # Top /\ parent[parent[m]] = n
  <2>1. parent[m] \in Present /\ parent'[m] = parent[m] /\ parent'[parent[m]] = n
    BY <1>3, <1>12 DEF ThreeLevels
  <2>2. p = Top
    BY <1>7, <1>12, <2>1
  <2> QED  BY <1>1, <1>3, <2>1, <2>2
<1>13. CASE m # n /\ parent[m] # n /\ (parent[m] = Top \/ parent[parent[m]] # n)
  BY <1>3, <1>13 DEF ThreeLevels
<1> QED  BY <1>10, <1>11, <1>12, <1>13

LEMMA TurnKeepsLevels ==
  ASSUME MaxDepth = 3, TreeInv, ReadsStand, ThreeLevels, TaxonomyNext, inTurn'
  PROVE  ThreeLevels'
<1>1. /\ node \in [Nodes -> { "none", "live", "deleted" }]
      /\ parent \in [Nodes -> Nodes \cup { Top }]
      /\ Present \subseteq Nodes /\ TaxonomyTypeOK
      /\ treeEdit \in [TreeEdits -> TreeEdit]
  BY TreeTypes DEF TreeInv
<1>2. PICK e \in TreeEdits : Asking(e) \/ Writing(e)
  BY TreeSteps
<1>3. ASSUME node' = node, parent' = parent  PROVE ThreeLevels'
  BY <1>3 DEF ThreeLevels, Present
<1>4. CASE Asking(e)
  BY <1>3, <1>4, TreeSteps DEF treeVars
<1> DEFINE n == treeEdit[e].of
           p == treeEdit[e].to
<1>5. ASSUME Writing(e), treeEdit[e].phase = "counted"  PROVE GuardStands(treeEdit[e])
  BY <1>5, TurnsStand
<1>6. ASSUME NEW k \in Nodes, Creates(e, k)  PROVE ThreeLevels'
  <2>1. /\ node' = [node EXCEPT ![k] = "live"] /\ parent' = [parent EXCEPT ![k] = p]
        /\ node[k] = "none"
        /\ p # Top => p \in Present /\ RoomBelow(p)
    BY <1>5, <1>6 DEF Creates, Writing, GuardStands, MayCreate
  <2>2. k \notin Present /\ Present' = Present \cup { k }
    BY <1>1, <2>1 DEF Present
  <2>3. parent'[k] = p /\ \A m \in Present : parent'[m] = parent[m]
    BY <1>1, <2>1, <2>2
  <2>4. p # Top => /\ p \in Present
                   /\ parent[p] # Top => parent[p] \in Present /\ parent[parent[p]] = Top
    BY <2>1 DEF RoomBelow, ThreeLevels
  <2> HIDE DEF p
  <2> QED  BY <2>2, <2>3, <2>4 DEF ThreeLevels
<1>7. CASE Moves(e)
  <2>1. /\ node' = node /\ parent' = [parent EXCEPT ![n] = p] /\ n \in Nodes /\ MayMove(n, p)
    BY <1>5, <1>7 DEF Moves, Writing, GuardStands
  <2>2. p \in Nodes \cup { Top }
    BY <1>1 DEF TreeEdit
  <2> QED  BY <1>1, <2>1, <2>2, MoveKeepsLevels
<1>8. CASE Deletes(e)
  <2> DEFINE gone == Beneath(n)
  <2>1. /\ n \in Present /\ parent' = parent
        /\ node' = [m \in Nodes |-> IF m \in gone THEN "deleted" ELSE node[m]]
    BY <1>5, <1>8 DEF Deletes, Writing, GuardStands
  <2>2. \A m \in Present : parent[m] \in gone => m \in gone
    <3>1. SUFFICES ASSUME NEW m \in Present, parent[m] \in gone  PROVE m \in gone
      OBVIOUS
    <3>2. CASE parent[m] = n
      BY <3>2 DEF Children, Beneath
    <3>3. CASE parent[m] \in Children(n)
      BY <3>3 DEF Children, Beneath
    <3>4. CASE parent[m] \in UNION { Children(c) : c \in Children(n) }
      <4>1. PICK c \in Children(n) : parent[m] \in Children(c)
        BY <3>4
      <4>2. parent[parent[m]] = c /\ parent[c] = n /\ c \in Present /\ parent[m] \in Present
        BY <4>1 DEF Children
      <4> QED  BY <2>1, <4>2, TopIsNowhere DEF ThreeLevels
    <3> QED  BY <3>1, <3>2, <3>3, <3>4 DEF Beneath
  <2> HIDE DEF gone
  <2>3. Present' = Present \ gone
    BY <1>1, <2>1 DEF Present
  <2>4. \A m \in Present' :
          parent'[m] = parent[m] /\ (parent[m] \in Present => parent[m] \in Present')
    BY <2>1, <2>2, <2>3
  <2> QED  BY <2>1, <2>3, <2>4 DEF ThreeLevels
<1>9. CASE FillsLeaf(e)
  BY <1>3, <1>9, FillsLeafOnly
<1> QED  BY <1>2, <1>4, <1>6, <1>7, <1>8, <1>9 DEF Writing

-----------------------------------------------------------------------------
(* The invariants                                                            *)

LEMMA RestingEdits ==
  ASSUME TaxonomyInit
  PROVE  TreeInv /\ ReadsStand
<1>1. /\ node \in [Nodes -> { "none", "live", "deleted" }]
      /\ parent \in [Nodes -> Nodes \cup { Top }]
      /\ \A m \in Nodes : parent[m] \in { Top } \cup Present
      /\ carries \subseteq Present /\ holds \subseteq Present
      /\ treeEdit = [e \in TreeEdits |-> AtRest("unsent")]
      /\ inTurn = TRUE /\ crossed = FALSE
  BY DEF TaxonomyInit
<1>2. Present \subseteq Nodes /\ \A m \in Present : node[m] # "none"
  BY DEF Present
<1>3. AtRest("unsent") \in TreeEdit
  BY DEF AtRest, TreeEdit
<1>4. TaxonomyTypeOK
  BY <1>1, <1>2, <1>3 DEF TaxonomyTypeOK
<1>5. RowsKnown
  BY <1>1, <1>2 DEF RowsKnown, Known, Names, AtRest
<1>6. ReadsStand
  BY <1>1 DEF ReadsStand, InFlight, AtRest
<1> QED  BY <1>4, <1>5, <1>6 DEF TreeInv

LEMMA TreeStutters ==
  ASSUME TreeInv, UNCHANGED taxonomyVars
  PROVE  TreeInv' /\ LeavesStand
<1>1. /\ node' = node /\ parent' = parent /\ carries' = carries /\ holds' = holds
      /\ treeEdit' = treeEdit /\ inTurn' = inTurn /\ crossed' = crossed
  BY DEF taxonomyVars
<1>2. TaxonomyTypeOK' /\ Present' = Present
  BY <1>1 DEF TreeInv, TaxonomyTypeOK, Present
<1>3. RowsKnown'
  BY <1>1 DEF TreeInv, RowsKnown, Known, Names
<1> QED  BY <1>1, <1>2, <1>3 DEF TreeInv, LeavesStand, Serving, IsLeaf, Children

LEMMA ReadsStutter ==
  ASSUME ReadsStand, UNCHANGED taxonomyVars
  PROVE  ReadsStand'
<1>1. UNCHANGED treeVars /\ treeEdit' = treeEdit
  BY DEF taxonomyVars, treeVars
<1>2. \A d : GuardStands(d) => GuardStands(d)'
  BY <1>1, UnchangedTreeStands
<1> QED  BY <1>1, <1>2 DEF ReadsStand, InFlight, GuardStands

LEMMA ReadsInvariant == TaxonomySpec => [](TreeInv /\ ReadsStand)
<1>1. TaxonomyInit => TreeInv /\ ReadsStand
  BY RestingEdits
<1>2. TreeInv /\ ReadsStand /\ [TaxonomyNext]_taxonomyVars => (TreeInv /\ ReadsStand)'
  BY TreeStep, ReadsStandStep, TreeStutters, ReadsStutter
<1> QED  BY <1>1, <1>2, PTL DEF TaxonomySpec

\* An edit that is written before others write changes neither which categories
\* serve their characteristics nor the leaf under a product (guards A and B of the
\* categories service), however many edits are in flight and whatever the depth
\* allowed.
THEOREM LeavesStayLeaves == TaxonomySpec => [][inTurn' => LeavesStand]_taxonomyVars
<1>1. TreeInv /\ ReadsStand /\ [TaxonomyNext]_taxonomyVars => [inTurn' => LeavesStand]_taxonomyVars
  BY TurnKeepsLeaves
<1> QED  BY <1>1, ReadsInvariant, PTL DEF TaxonomySpec

\* As long as no edit is written after others wrote since its read, every category
\* can be reached from a root within three levels, and what the leaves serve and
\* hold stands (guards A to D).  The depth is that of the code: MAX_CATEGORY_DEPTH
\* names it, but create and softDelete count its levels by hand, and no other
\* depth is kept.
THEOREM TurnsKeepTheForest == MaxDepth = 3 => (TaxonomySpec => EditsInTurnKeepTheTree)
<1> SUFFICES ASSUME MaxDepth = 3  PROVE TaxonomySpec => EditsInTurnKeepTheTree
  OBVIOUS
<1> DEFINE Inv == inTurn => ThreeLevels
<1>1. TaxonomyInit => Inv
  BY RestingEdits, ForestHasLevels DEF TaxonomyInit, TreeInv
<1>2. TreeInv /\ ReadsStand /\ Inv /\ [TaxonomyNext]_taxonomyVars => Inv'
  <2> SUFFICES ASSUME TreeInv, ReadsStand, Inv, [TaxonomyNext]_taxonomyVars, inTurn'
               PROVE  ThreeLevels'
    OBVIOUS
  <2>1. CASE UNCHANGED taxonomyVars
    BY <2>1 DEF taxonomyVars, ThreeLevels, Present
  <2>2. CASE TaxonomyNext
    <3>1. inTurn
      <4>1. PICK e \in TreeEdits : Asking(e) \/ Writing(e)
        BY <2>2, TreeSteps
      <4> QED  BY <4>1, TreeSteps, TurnsStand
    <3> QED  BY <2>2, <3>1, TurnKeepsLevels
  <2> QED  BY <2>1, <2>2
<1>3. Inv => (inTurn => Forest)
  BY LevelsMakeAForest
<1> HIDE DEF Inv
<1>4. TaxonomySpec => [](inTurn => Forest)
  BY <1>1, <1>2, <1>3, ReadsInvariant, PTL DEF TaxonomySpec
<1> QED  BY <1>4, LeavesStayLeaves DEF EditsInTurnKeepTheTree

-----------------------------------------------------------------------------
(* Circles                                                                   *)

\* One does not leave s by going up, as long as one meets categories.
Upward(s) == \A m \in s : parent[m] \in Present => parent[m] \in s

\* As long as no other move is written, the target of a move is not beneath what
\* it moves, whatever is created and deleted.
MovesClear ==
  \A e \in TreeEdits :
    InFlight(e) /\ treeEdit[e].op = "move" /\ treeEdit[e].straight /\ treeEdit[e].to # Top =>
      \E s \in SUBSET Nodes : treeEdit[e].to \in s /\ treeEdit[e].of \notin s /\ Upward(s)

LEMMA FreshRowIsUnknown ==
  ASSUME TreeInv, NEW n \in Nodes, node[n] = "none"
  PROVE  /\ \A m \in Nodes : parent[m] # n
         /\ \A e \in TreeEdits : treeEdit[e].of # n /\ treeEdit[e].to # n
BY TreeTypes DEF TreeInv, RowsKnown, Known

LEMMA MovesClearStep ==
  ASSUME TreeInv, MovesClear, TaxonomyNext
  PROVE  MovesClear'
<1>1. /\ node \in [Nodes -> { "none", "live", "deleted" }]
      /\ parent \in [Nodes -> Nodes \cup { Top }]
      /\ Present \subseteq Nodes /\ Top \notin Nodes
      /\ treeEdit \in [TreeEdits -> TreeEdit]
  BY TreeTypes
<1>2. PICK e \in TreeEdits : Asking(e) \/ Writing(e)
  BY TreeSteps
<1>3. CASE Writing(e)
  <2>1. Written(e)
    BY <1>3, TreeSteps
  <2>2. SUFFICES ASSUME NEW d \in TreeEdits, InFlight(d)', treeEdit'[d].op = "move",
                        treeEdit'[d].straight, treeEdit'[d].to # Top
                 PROVE  \E s \in SUBSET Nodes :
                          treeEdit'[d].to \in s /\ treeEdit'[d].of \notin s /\ Upward(s)'
    BY DEF MovesClear, Upward
  <2>3. d # e /\ InFlight(d)
    BY <1>1, <2>1, <2>2 DEF Written, InFlight, AtRest
  <2>4. treeEdit'[d] = [ treeEdit[d] EXCEPT
                           !.sure = FALSE,
                           !.straight = @ /\ ~(treeEdit[e].op = "move" /\ treeEdit[d].op = "move") ]
    BY <2>1, <2>3 DEF Written
  <2>5. /\ treeEdit'[d].op = treeEdit[d].op /\ treeEdit'[d].of = treeEdit[d].of
        /\ treeEdit'[d].to = treeEdit[d].to
        /\ treeEdit'[d].straight = (treeEdit[d].straight /\ ~(treeEdit[e].op = "move" /\ treeEdit[d].op = "move"))
    BY <1>1, <2>4 DEF TreeEdit
  <2>6. treeEdit[e].op # "move" /\ treeEdit[d].straight
    BY <2>2, <2>5
  <2>7. PICK s \in SUBSET Nodes : treeEdit[d].to \in s /\ treeEdit[d].of \notin s /\ Upward(s)
    BY <2>2, <2>3, <2>5, <2>6 DEF MovesClear
  <2>8. CASE Deletes(e) \/ FillsLeaf(e)
    <3>1. parent' = parent /\ Present' \subseteq Present
      <4>1. CASE Deletes(e)
        BY <1>1, <4>1 DEF Deletes, Present
      <4>2. CASE FillsLeaf(e)
        BY <4>2, FillsLeafOnly DEF Present
      <4> QED  BY <2>8, <4>1, <4>2
    <3>2. Upward(s)'
      BY <2>7, <3>1 DEF Upward
    <3> QED  BY <2>5, <2>7, <3>2
  <2>9. ASSUME NEW n \in Nodes, Creates(e, n)
        PROVE  \E t \in SUBSET Nodes :
                 treeEdit'[d].to \in t /\ treeEdit'[d].of \notin t /\ Upward(t)'
    <3>1. /\ node' = [node EXCEPT ![n] = "live"] /\ parent' = [parent EXCEPT ![n] = treeEdit[e].to]
          /\ node[n] = "none"
      BY <2>9 DEF Creates
    <3>2. (\A m \in Nodes : parent[m] # n) /\ treeEdit[d].to # n
      BY <3>1, FreshRowIsUnknown
    <3>3. Present' = Present \cup { n } /\ \A m \in Nodes \ { n } : parent'[m] = parent[m]
      BY <1>1, <3>1 DEF Present
    <3> DEFINE t == s \ { n }
    <3>4. Upward(t)'
      BY <2>7, <3>2, <3>3 DEF Upward
    <3> QED  BY <2>5, <2>7, <3>2, <3>4
  <2>10. ~Moves(e)
    BY <2>6 DEF Moves
  <2> QED  BY <1>3, <2>8, <2>9, <2>10 DEF Writing
<1>4. CASE Asking(e)
  <2>1. /\ parent' = parent /\ Present' = Present
        /\ \A s : Upward(s)' <=> Upward(s)
    <3>1. node' = node /\ parent' = parent
      BY <1>4, TreeSteps DEF treeVars
    <3> QED  BY <3>1 DEF Upward, Present
  <2>2. ASSUME NEW op, NEW n, NEW p, NEW bare, NEW vacant,
               ReadsTree(e, op, n, p, bare, vacant)
        PROVE  /\ \A d \in TreeEdits : d # e => treeEdit'[d] = treeEdit[d]
               /\ treeEdit'[e].op = op /\ treeEdit'[e].of = n /\ treeEdit'[e].to = p
    BY <1>1, <2>2 DEF ReadsTree
  <2>3. \A d \in TreeEdits : d # e => treeEdit'[d] = treeEdit[d]
    <3>1. CASE CountsRows(e) \/ EditFails(e)
      BY <1>1, <3>1 DEF CountsRows, EditFails
    <3>2. CASE ~(CountsRows(e) \/ EditFails(e))
      BY <1>4, <2>2, <3>2 DEF Asking, AsksForChild, AsksToMove, AsksToDelete, AsksOfLeaf
    <3> QED  BY <3>1, <3>2
  <2>4. ASSUME InFlight(e)', treeEdit'[e].op = "move", treeEdit'[e].straight, treeEdit'[e].to # Top
        PROVE  \E s \in SUBSET Nodes :
                 treeEdit'[e].to \in s /\ treeEdit'[e].of \notin s /\ Upward(s)
    <3>1. ASSUME NEW n \in Nodes, NEW p \in Nodes \cup { Top }, AsksToMove(e, n, p)
          PROVE  \E s \in SUBSET Nodes :
                   treeEdit'[e].to \in s /\ treeEdit'[e].of \notin s /\ Upward(s)
      <4>1. MayMove(n, p) /\ treeEdit'[e].of = n /\ treeEdit'[e].to = p
        BY <2>2, <3>1 DEF AsksToMove
      <4>2. p \in Present /\ n \notin Line(p)
        BY <2>4, <4>1 DEF MayMove, UnderItself
      <4>3. p \in Line(p) /\ Line(p) \subseteq Nodes /\ Upward(Line(p))
        BY <1>1, <4>2, LineCloses DEF Upward
      <4> QED  BY <4>1, <4>2, <4>3
    <3>2. CASE CountsRows(e)
      <4>1. /\ InFlight(e) /\ treeEdit' = [treeEdit EXCEPT ![e].phase = "counted"]
        BY <3>2 DEF CountsRows, InFlight
      <4>2. /\ treeEdit'[e].op = treeEdit[e].op /\ treeEdit'[e].of = treeEdit[e].of
            /\ treeEdit'[e].to = treeEdit[e].to /\ treeEdit'[e].straight = treeEdit[e].straight
        BY <1>1, <4>1 DEF TreeEdit
      <4> QED  BY <2>4, <4>1, <4>2 DEF MovesClear
    <3>3. ~EditFails(e)
      BY <1>1, <2>4 DEF EditFails, InFlight, AtRest
    <3>4. /\ \A p : ~AsksForChild(e, p)
          /\ \A n : ~AsksToDelete(e, n)
          /\ \A n : \A op \in { "describe", "list" } : ~AsksOfLeaf(e, op, n)
      BY <2>2, <2>4 DEF AsksForChild, AsksToDelete, AsksOfLeaf
    <3> QED  BY <1>4, <3>1, <3>2, <3>3, <3>4, Zenon DEF Asking
  <2>5. ASSUME NEW d \in TreeEdits, InFlight(d)', treeEdit'[d].op = "move",
               treeEdit'[d].straight, treeEdit'[d].to # Top
        PROVE  \E s \in SUBSET Nodes :
                 treeEdit'[d].to \in s /\ treeEdit'[d].of \notin s /\ Upward(s)
    <3>1. CASE d # e
      BY <2>3, <2>5, <3>1 DEF MovesClear, InFlight
    <3> QED  BY <2>4, <2>5, <3>1
  <2> QED  BY <2>1, <2>5 DEF MovesClear, Upward
<1> QED  BY <1>2, <1>3, <1>4

LEMMA NoCircleStep ==
  ASSUME TreeInv, MovesClear, TaxonomyNext, ~crossed => NoCircle, ~crossed'
  PROVE  NoCircle'
<1>1. /\ node \in [Nodes -> { "none", "live", "deleted" }]
      /\ parent \in [Nodes -> Nodes \cup { Top }]
      /\ Present \subseteq Nodes /\ Top \notin Nodes
      /\ treeEdit \in [TreeEdits -> TreeEdit] /\ crossed \in BOOLEAN
  BY TreeTypes DEF TreeInv, TaxonomyTypeOK
<1>2. PICK e \in TreeEdits : Asking(e) \/ Writing(e)
  BY TreeSteps
<1>3. /\ ~crossed
      /\ Writing(e) => treeEdit[e].op # "move" \/ treeEdit[e].straight
  <2>1. CASE Asking(e)
    <3>1. crossed' = crossed /\ UNCHANGED treeVars
      BY <2>1, TreeSteps
    <3>2. CASE Writing(e)
      BY <3>2, TreeSteps DEF Written
    <3> QED  BY <3>1, <3>2
  <2>2. CASE Writing(e)
    BY <2>2, TreeSteps DEF Written
  <2> QED  BY <1>2, <2>1, <2>2
<1>4. \A c \in SUBSET Present : c # {} => \E m \in c : parent[m] \notin c
  BY <1>3 DEF NoCircle
<1>5. ASSUME parent' = parent, Present' \subseteq Present  PROVE NoCircle'
  BY <1>4, <1>5 DEF NoCircle
<1>6. CASE Asking(e)
  <2>1. node' = node /\ parent' = parent
    BY <1>6, TreeSteps DEF treeVars
  <2> QED  BY <1>5, <2>1 DEF Present
<1>7. CASE Deletes(e) \/ FillsLeaf(e)
  <2>1. CASE Deletes(e)
    BY <1>1, <1>5, <2>1 DEF Deletes, Present
  <2>2. CASE FillsLeaf(e)
    BY <1>5, <2>2, FillsLeafOnly DEF Present
  <2> QED  BY <1>7, <2>1, <2>2
\* Nothing hangs on a new category.
<1>8. ASSUME NEW n \in Nodes, Creates(e, n)  PROVE NoCircle'
  <2>1. /\ node' = [node EXCEPT ![n] = "live"] /\ parent' = [parent EXCEPT ![n] = treeEdit[e].to]
        /\ node[n] = "none"
    BY <1>8 DEF Creates
  <2>2. (\A m \in Nodes : parent[m] # n) /\ treeEdit[e].to # n
    BY <2>1, FreshRowIsUnknown
  <2>3. /\ Present' = Present \cup { n } /\ parent'[n] # n
        /\ \A m \in Nodes : parent'[m] # n /\ (m # n => parent'[m] = parent[m])
    BY <1>1, <2>1, <2>2 DEF Present
  <2>4. SUFFICES ASSUME NEW c \in SUBSET Present', c # {}, \A m \in c : parent'[m] \in c
                 PROVE  FALSE
    BY DEF NoCircle
  <2> DEFINE d == c \ { n }
  <2>5. d \in SUBSET Present /\ d # {}
    <3>1. PICK m \in c : TRUE
      BY <2>4
    <3>2. parent'[m] \in c /\ parent'[m] # n
      BY <1>1, <2>3, <2>4, <3>1
    <3> QED  BY <2>3, <3>2
  <2>6. \A m \in d : parent[m] \in d
    BY <1>1, <2>3, <2>4
  <2> QED  BY <1>4, <2>5, <2>6
\* A circle through the moved category would come back to the target without it.
<1>9. CASE Moves(e)
  <2> DEFINE n == treeEdit[e].of
             p == treeEdit[e].to
  <2>1. /\ node' = node /\ parent' = [parent EXCEPT ![n] = p]
        /\ InFlight(e) /\ treeEdit[e].op = "move" /\ treeEdit[e].straight
    BY <1>3, <1>9 DEF Moves, InFlight, Writing
  <2>2. /\ Present' = Present
        /\ \A m \in Nodes : m # n => parent'[m] = parent[m]
    BY <1>1, <2>1 DEF Present
  <2>3. SUFFICES ASSUME NEW c \in SUBSET Present, c # {}, \A m \in c : parent'[m] \in c
                 PROVE  FALSE
    BY <2>2 DEF NoCircle
  <2>4. CASE n \notin c
    BY <1>1, <1>4, <2>2, <2>3, <2>4
  <2>5. CASE n \in c
    <3>1. p \in c /\ p # Top
      BY <1>1, <2>1, <2>3, <2>5
    <3>2. PICK s \in SUBSET Nodes : p \in s /\ n \notin s /\ Upward(s)
      BY <2>1, <3>1 DEF MovesClear
    <3> DEFINE d == c \cap s
    <3>3. d \in SUBSET Present /\ d # {}
      BY <3>1, <3>2
    <3>4. \A m \in d : parent[m] \in d
      BY <1>1, <2>2, <2>3, <3>2 DEF Upward
    <3> QED  BY <1>4, <3>3, <3>4
  <2> QED  BY <2>4, <2>5
<1> QED  BY <1>2, <1>6, <1>7, <1>8, <1>9 DEF Writing

LEMMA ForestHasNoCircle ==
  ASSUME Forest, TaxonomyTypeOK
  PROVE  NoCircle
<1>1. SUFFICES ASSUME NEW c \in SUBSET Present, NEW n \in c, \A m \in c : parent[m] \in c
               PROVE  FALSE
  BY DEF NoCircle
<1>2. Line(n) \subseteq c
  BY <1>1, LineWithin
<1>3. PICK root \in Line(n) : parent[root] = Top
  BY DEF Forest
<1> QED  BY <1>1, <1>2, <1>3, TopIsNowhere

CircleInv == MovesClear /\ CirclesTakeCrossingMoves

LEMMA CircleInvariant == TaxonomySpec => [](TreeInv /\ CircleInv)
<1>1. TaxonomyInit => TreeInv /\ CircleInv
  <2> SUFFICES ASSUME TaxonomyInit  PROVE TreeInv /\ CircleInv
    OBVIOUS
  <2>1. TreeInv /\ Forest
    BY RestingEdits DEF TaxonomyInit
  <2>2. MovesClear
    BY DEF TaxonomyInit, MovesClear, InFlight, AtRest
  <2> QED  BY <2>1, <2>2, ForestHasNoCircle DEF CircleInv, CirclesTakeCrossingMoves, TreeInv
<1>2. TreeInv /\ CircleInv /\ [TaxonomyNext]_taxonomyVars => (TreeInv /\ CircleInv)'
  <2> SUFFICES ASSUME TreeInv, CircleInv, [TaxonomyNext]_taxonomyVars
               PROVE  (TreeInv /\ CircleInv)'
    OBVIOUS
  <2>1. CASE UNCHANGED taxonomyVars
    <3>1. /\ node' = node /\ parent' = parent /\ treeEdit' = treeEdit /\ crossed' = crossed
      BY <2>1 DEF taxonomyVars
    <3>2. CircleInv'
      BY <3>1 DEF CircleInv, CirclesTakeCrossingMoves, NoCircle, MovesClear, Upward, InFlight, Present
    <3> QED  BY <2>1, <3>2, TreeStutters
  <2>2. CASE TaxonomyNext
    BY <2>2, TreeStep, MovesClearStep, NoCircleStep DEF CircleInv, CirclesTakeCrossingMoves
  <2> QED  BY <2>1, <2>2
<1> QED  BY <1>1, <1>2, PTL DEF TaxonomySpec

\* Guard C is enough but for one race: whatever edits cross, and whatever they
\* create and delete, no circle closes until a move is written after another move
\* since it read the tree.
THEOREM OnlyCrossingMovesCloseCircles == TaxonomySpec => []CirclesTakeCrossingMoves
<1>1. TreeInv /\ CircleInv => CirclesTakeCrossingMoves
  BY DEF CircleInv
<1> QED  BY <1>1, CircleInvariant, PTL

-----------------------------------------------------------------------------
(* Broadcasts                                                                *)

FansOutAt == { "paging", "feeding", "delivering", "closing" }

\* The first n of the roll r have the broadcast in their feeds f.
Fed(n, r, f) == \A i \in 1 .. Len(r) : i <= n => f[r[i]] > 0

PageOf(skip, r) ==
  SubSeq(r, skip + 1, IF skip + BatchSize <= Len(r) THEN skip + BatchSize ELSE Len(r))

\* A fan-out s has fed everybody in front of its page, and those addressed when
\* the last send began are on the roll.
Progress(s, r, f, st) ==
  /\ s.at = "paging" => Fed(s.skip, r, f)
  /\ s.at = "feeding" => Fed(s.skip, r, f) /\ s.page = PageOf(s.skip, r)
  /\ s.at = "delivering" => Fed(s.skip + BatchSize, r, f) /\ s.page = PageOf(s.skip, r)
  /\ s.at = "closing" => Fed(Len(r), r, f)
  /\ s.at \in FansOutAt => st \subseteq { r[i] : i \in DOMAIN r }

FanOutInv ==
  /\ roll \in Seq(Users) /\ feed \in [Users -> Nat]
  /\ sender \in [Senders -> Sender]
  /\ lost \in BOOLEAN /\ moved \in BOOLEAN
  /\ \A c \in Senders : sender[c].at \notin FansOutAt => sender[c].skip = 0
  /\ ~lost /\ ~moved => /\ SentReachesAll
                        /\ \A c \in Senders : Progress(sender[c], roll, feed, steady)

LEMMA PageLength ==
  ASSUME NEW s \in Seq(Users), NEW skip \in Nat, NEW last \in Nat, last <= Len(s)
  PROVE  LET page == SubSeq(s, skip + 1, last) IN
         /\ page \in Seq(Users)
         /\ skip < last => /\ Len(page) = last - skip
                           /\ \A i \in 1 .. last - skip : page[i] = s[skip + i]
         /\ last <= skip => page = << >> /\ Len(page) = 0
  OBVIOUS

LEMMA InsidePage ==
  ASSUME NEW skip \in Nat, NEW len \in Nat, NEW i \in Nat, NEW b \in Nat,
         i <= len, i <= skip + b, ~(i <= skip)
  PROVE  LET last == IF skip + b <= len THEN skip + b ELSE len IN
         skip < last /\ i - skip \in 1 .. last - skip /\ skip + (i - skip) = i
  OBVIOUS

\* To feed a page feeds everybody in it, and takes nobody's feed away.
LEMMA FeedsGrow ==
  ASSUME FanOutInv, NEW c \in Senders,
         feed' = [u \in Users |->
           feed[u] + Cardinality({ i \in DOMAIN sender[c].page : sender[c].page[i] = u })]
  PROVE  /\ feed' \in [Users -> Nat] /\ \A u \in Users : feed[u] <= feed'[u]
         /\ \A i \in DOMAIN sender[c].page : feed'[sender[c].page[i]] > 0
<1> DEFINE page == sender[c].page
           At(u) == { i \in DOMAIN page : page[i] = u }
<1>1. page \in Seq(Users) /\ feed \in [Users -> Nat]
  BY DEF FanOutInv, Sender
<1>2. \A u \in Users : IsFiniteSet(At(u)) /\ Cardinality(At(u)) \in Nat
  <2> HIDE DEF page
  <2>1. Len(page) \in Nat /\ DOMAIN page = 1 .. Len(page)
    BY <1>1
  <2>2. IsFiniteSet(1 .. Len(page))
    BY <2>1, FS_Interval
  <2>3. IsFiniteSet(DOMAIN page)
    BY <2>1, <2>2
  <2>4. \A u \in Users : At(u) \in SUBSET (DOMAIN page)
    OBVIOUS
  <2> HIDE DEF At
  <2> QED  BY <2>3, <2>4, FS_Subset, FS_CardinalityType
<1>3. feed' = [u \in Users |-> feed[u] + Cardinality(At(u))]
  OBVIOUS
<1> HIDE DEF At, page
<1>4. feed' \in [Users -> Nat] /\ \A u \in Users : feed[u] <= feed'[u]
  <2>1. \A a, b \in Nat : a + b \in Nat /\ a <= a + b
    OBVIOUS
  <2>2. \A u \in Users : feed[u] \in Nat /\ Cardinality(At(u)) \in Nat
    BY <1>1, <1>2
  <2> QED  BY <1>3, <2>1, <2>2
<1>5. ASSUME NEW i \in DOMAIN page  PROVE feed'[page[i]] > 0
  <2>1. page[i] \in Users
    BY <1>1
  <2>2. At(page[i]) # {}
    BY DEF At
  <2>3. Cardinality(At(page[i])) # 0
    BY <1>2, <2>1, <2>2, FS_EmptySet
  <2>4. \A a, b \in Nat : b # 0 => a + b > 0
    OBVIOUS
  <2> QED  BY <1>1, <1>2, <1>3, <2>1, <2>3, <2>4
<1> QED  BY <1>4, <1>5 DEF page

LEMMA FeedsPage ==
  ASSUME FanOutInv, NEW c \in Senders, sender[c].page = PageOf(sender[c].skip, roll),
         Fed(sender[c].skip, roll, feed),
         feed' = [u \in Users |->
           feed[u] + Cardinality({ i \in DOMAIN sender[c].page : sender[c].page[i] = u })]
  PROVE  Fed(sender[c].skip + BatchSize, roll, feed')
<1> DEFINE skip == sender[c].skip
           page == sender[c].page
           last == IF skip + BatchSize <= Len(roll) THEN skip + BatchSize ELSE Len(roll)
<1>1. /\ skip \in Nat /\ roll \in Seq(Users) /\ feed \in [Users -> Nat] /\ BatchSize \in Nat
      /\ Len(roll) \in Nat
  BY BroadcastConstants DEF FanOutInv, Sender
<1>2. last \in Nat /\ last <= Len(roll)
  BY <1>1
<1>3. /\ page \in Seq(Users)
      /\ skip < last => /\ Len(page) = last - skip
                        /\ \A i \in 1 .. last - skip : page[i] = roll[skip + i]
  <2>1. page = SubSeq(roll, skip + 1, last)
    BY DEF PageOf
  <2> HIDE DEF last, skip, page
  <2> QED  BY <1>1, <1>2, <2>1, PageLength
<1>4. /\ feed' \in [Users -> Nat] /\ \A u \in Users : feed[u] <= feed'[u]
      /\ \A i \in DOMAIN page : feed'[page[i]] > 0
  BY FeedsGrow
<1>5. ASSUME NEW i \in 1 .. Len(roll), i <= skip + BatchSize
      PROVE  feed'[roll[i]] > 0
  <2>1. roll[i] \in Users /\ i \in Nat /\ i <= Len(roll)
    BY <1>1
  <2>2. CASE i <= skip
    <3>1. feed[roll[i]] > 0
      BY <2>2 DEF Fed
    <3>2. \A a, b \in Nat : a > 0 /\ a <= b => b > 0
      OBVIOUS
    <3>3. feed[roll[i]] \in Nat /\ feed'[roll[i]] \in Nat /\ feed[roll[i]] <= feed'[roll[i]]
      <4> HIDE DEF page
      <4> QED  BY <1>1, <1>4, <2>1
    <3> QED  BY <3>1, <3>2, <3>3
  <2>3. CASE ~(i <= skip)
    <3>1. skip < last /\ i - skip \in 1 .. last - skip /\ skip + (i - skip) = i
      <4> HIDE DEF skip
      <4> QED  BY <1>1, <1>5, <2>1, <2>3, InsidePage
    <3> HIDE DEF page, last, skip
    <3>2. page[i - skip] = roll[i] /\ i - skip \in DOMAIN page
      BY <1>3, <3>1
    <3> QED  BY <1>4, <3>2
  <2> QED  BY <2>2, <2>3
<1> HIDE DEF skip
<1>6. Fed(skip + BatchSize, roll, feed')
  BY <1>5 DEF Fed
<1> QED  BY <1>6 DEF skip

\* Feeds only grow, so what a fan-out has fed stays fed.
LEMMA ProgressStays ==
  ASSUME FanOutInv, NEW s, Progress(s, roll, feed, steady), steady' \in { steady, OnRoll },
         feed' \in [Users -> Nat], \A u \in Users : feed[u] <= feed'[u]
  PROVE  Progress(s, roll, feed', steady')
<1>1. roll \in Seq(Users) /\ feed \in [Users -> Nat]
  BY DEF FanOutInv
<1>2. ASSUME NEW n, Fed(n, roll, feed)  PROVE Fed(n, roll, feed')
  BY <1>1, <1>2 DEF Fed
<1> QED  BY <1>2 DEF Progress, OnRoll

LEMMA NoSenderRests == NoSender \in Sender /\ NoSender.at = "idle" /\ NoSender.skip = 0
                       /\ NoSender.at \notin FansOutAt /\ (\A r, f, st : Progress(NoSender, r, f, st))
BY DEF NoSender, Sender, FansOutAt, Progress

\* One request moves, and nobody's feed loses the broadcast.
LEMMA OneMoves ==
  ASSUME FanOutInv, NEW c \in Senders, NEW s \in Sender, sender' = [sender EXCEPT ![c] = s],
         roll' = roll, moved' = moved, lost' \in BOOLEAN, lost => lost',
         steady' \in { steady, OnRoll },
         feed' \in [Users -> Nat], \A u \in Users : feed[u] <= feed'[u],
         s.at \notin FansOutAt => s.skip = 0,
         ~lost' /\ ~moved => SentReachesAll' /\ Progress(s, roll, feed', steady')
  PROVE  FanOutInv'
<1>1. /\ sender' \in [Senders -> Sender] /\ sender'[c] = s
      /\ \A d \in Senders : d # c => sender'[d] = sender[d]
  BY DEF FanOutInv
<1>2. ASSUME ~lost', ~moved, NEW d \in Senders  
      PROVE  Progress(sender'[d], roll, feed', steady')
  <2>1. CASE d = c
    BY <1>1, <1>2, <2>1
  <2>2. CASE d # c
    <3>1. Progress(sender[d], roll, feed, steady) /\ sender'[d] = sender[d]
      BY <1>1, <1>2, <2>2 DEF FanOutInv
    <3> QED  BY <3>1, ProgressStays
  <2> QED  BY <2>1, <2>2
<1>3. roll' \in Seq(Users) /\ moved' \in BOOLEAN
  BY DEF FanOutInv
<1>4. \A d \in Senders : sender'[d].at \notin FansOutAt => sender'[d].skip = 0
  BY <1>1 DEF FanOutInv
<1> QED  BY <1>1, <1>2, <1>3, <1>4 DEF FanOutInv

\* The request sends nothing, or starts to: the fan-out then has everything to do.
LEMMA AdministratesKeeps ==
  ASSUME FanOutInv, Administrates
  PROVE  FanOutInv'
<1>1. CASE Drafts
  BY <1>1 DEF Drafts, FanOutInv, SentReachesAll, OnRoll
<1>2. ASSUME NEW c \in Senders,
             ReadsDraft(c) \/ CountsAudience(c) \/ StartsSending(c) \/ DeletesNotice(c)
               \/ RequestFails(c)
      PROVE  FanOutInv'
  <2>1. /\ roll' = roll /\ moved' = moved /\ lost' = lost /\ lost' \in BOOLEAN /\ feed' = feed
        /\ feed' \in [Users -> Nat] /\ \A u \in Users : feed[u] <= feed'[u]
        /\ steady' \in { steady, OnRoll }
    BY <1>2 DEF ReadsDraft, CountsAudience, StartsSending, DeletesNotice, RequestFails, FanOutInv
  <2>2. notice' = "SENT" => notice = "SENT" /\ steady' = steady
    BY <1>2 DEF ReadsDraft, CountsAudience, StartsSending, DeletesNotice, RequestFails
  <2>3. ~lost' /\ ~moved => SentReachesAll'
    BY <2>1, <2>2 DEF FanOutInv, SentReachesAll
  <2>4. sender[c] \in Sender /\ sender[c].at \notin FansOutAt /\ sender[c].skip = 0
    BY <1>2, NoSenderRests
       DEF ReadsDraft, CountsAudience, StartsSending, DeletesNotice, RequestFails, FanOutInv, FansOutAt
  <2>5. CASE Quits(c)
    BY <2>1, <2>3, <2>5, NoSenderRests, OneMoves DEF Quits
  <2>6. CASE Step(c, "read") \/ Step(c, "removing") \/ Step(c, "counted")
    <3>1. PICK at \in { "read", "removing", "counted" } : Step(c, at)
      BY <2>6
    <3> DEFINE s == [sender[c] EXCEPT !.at = at]
    <3>2. s \in Sender /\ s.at = at /\ s.skip = 0 /\ sender' = [sender EXCEPT ![c] = s]
      BY <2>4, <3>1 DEF Step, Sender, FanOutInv
    <3>3. Progress(s, roll, feed', steady')
      BY <3>2 DEF Progress, FansOutAt
    <3> QED  BY <2>1, <2>3, <3>2, <3>3, OneMoves
  <2>7. CASE StartsSending(c)
    <3> DEFINE s == [sender[c] EXCEPT !.at = "paging"]
    <3>1. s \in Sender /\ s.at = "paging" /\ s.skip = 0 /\ sender' = [sender EXCEPT ![c] = s]
      BY <2>4, <2>7 DEF StartsSending, Step, Sender, FanOutInv
    <3>2. Fed(0, roll, feed') /\ steady' \subseteq { roll[i] : i \in DOMAIN roll }
      BY <2>7 DEF Fed, StartsSending, OnRoll
    <3> HIDE DEF s
    <3>4. s.at \in FansOutAt /\ s.at # "feeding" /\ s.at # "delivering" /\ s.at # "closing"
      BY <3>1 DEF FansOutAt
    <3>5. Fed(s.skip, roll, feed')
      BY <3>1, <3>2
    <3>3. Progress(s, roll, feed', steady')
      BY <3>2, <3>4, <3>5 DEF Progress
    <3> QED  BY <2>1, <2>3, <3>1, <3>3, <3>4, OneMoves
  <2> QED  BY <1>2, <2>5, <2>6, <2>7
           DEF ReadsDraft, CountsAudience, StartsSending, DeletesNotice, RequestFails
<1> QED  BY <1>1, <1>2 DEF Administrates

LEMMA PageRead ==
  ASSUME FanOutInv, NEW c \in Senders, ReadsPage(c)
  PROVE  FanOutInv'
<1> DEFINE page == PageOf(sender[c].skip, roll)
           s == [sender[c] EXCEPT !.page = page, !.at = IF page = << >> THEN "closing" ELSE "feeding"]
<1>1. sender[c] \in Sender /\ sender[c].skip \in Nat /\ roll \in Seq(Users) /\ Len(roll) \in Nat
      /\ BatchSize \in Nat \ {0}
  BY BroadcastConstants DEF FanOutInv, Sender
<1>2. page \in Seq(Users) /\ (page = << >> => Len(roll) <= sender[c].skip)
  <2> DEFINE skip == sender[c].skip
             last == IF skip + BatchSize <= Len(roll) THEN skip + BatchSize ELSE Len(roll)
  <2>1. last \in Nat /\ last <= Len(roll) /\ (last <= skip => Len(roll) <= skip)
        /\ (~(last <= skip) => skip < last /\ last - skip # 0)
    BY <1>1
  <2>2. page = SubSeq(roll, skip + 1, last)
    BY DEF PageOf
  <2>3. skip \in Nat
    BY <1>1
  <2> HIDE DEF last, skip, page
  <2>4. page \in Seq(Users) /\ (skip < last => Len(page) = last - skip)
    BY <1>1, <2>1, <2>2, <2>3, PageLength
  <2>5. page = << >> => Len(page) = 0
    OBVIOUS
  <2> QED  BY <2>1, <2>4, <2>5 DEF skip
<1>3. sender' = [sender EXCEPT ![c] = s] /\ sender[c].at = "paging"
  BY DEF ReadsPage, PageOf
<1>4. s \in Sender /\ s.page = page /\ s.skip = sender[c].skip
      /\ s.at = IF page = << >> THEN "closing" ELSE "feeding"
  <2> HIDE DEF page
  <2> QED  BY <1>1, <1>2 DEF Sender
<1>5. /\ roll' = roll /\ moved' = moved /\ lost' = lost /\ feed' = feed /\ steady' = steady
      /\ notice' = notice
  BY DEF ReadsPage
<1>6. /\ lost' \in BOOLEAN /\ feed' \in [Users -> Nat] /\ \A u \in Users : feed[u] <= feed'[u]
      /\ ~lost' /\ ~moved => SentReachesAll'
  BY <1>5 DEF FanOutInv, SentReachesAll
<1>7. ASSUME ~lost', ~moved  PROVE Progress(s, roll, feed', steady')
  <2>1. Progress(sender[c], roll, feed, steady)
    BY <1>5, <1>7 DEF FanOutInv
  <2>2. Fed(sender[c].skip, roll, feed) /\ steady \subseteq { roll[i] : i \in DOMAIN roll }
    BY <1>3, <2>1 DEF Progress, FansOutAt
  <2>3. page = << >> => Fed(Len(roll), roll, feed)
    <3> HIDE DEF page
    <3> QED  BY <1>1, <1>2, <2>2 DEF Fed
  <2>4. s.at # "paging" /\ s.at # "delivering" /\ (s.at = "closing" => page = << >>)
    <3> HIDE DEF s, page
    <3> QED  BY <1>4
  <2>5. s.page = PageOf(s.skip, roll)
    BY <1>4
  <2>6. Fed(s.skip, roll, feed)
    BY <1>4, <2>2
  <2> HIDE DEF s, page
  <2> QED  BY <1>5, <2>2, <2>3, <2>4, <2>5, <2>6 DEF Progress
<1>8. s.at \in FansOutAt
  <2> HIDE DEF s, page
  <2> QED  BY <1>4 DEF FansOutAt
<1> HIDE DEF s
<1> QED  BY <1>3, <1>4, <1>5, <1>6, <1>7, <1>8, OneMoves

LEMMA PageFed ==
  ASSUME FanOutInv, NEW c \in Senders, Feeds(c)
  PROVE  FanOutInv'
<1> DEFINE s == [sender[c] EXCEPT !.at = "delivering"]
<1>1. s \in Sender /\ s.at = "delivering" /\ s.skip = sender[c].skip /\ s.page = sender[c].page
      /\ sender' = [sender EXCEPT ![c] = s] /\ sender[c].at = "feeding"
  BY DEF Feeds, Step, FanOutInv, Sender
<1>2. s.at \in FansOutAt
  BY <1>1 DEF FansOutAt
<1> HIDE DEF s
<1>3. roll' = roll /\ moved' = moved /\ steady' = steady /\ notice' = notice
  BY DEF Feeds
<1>4. CASE lost' = TRUE /\ feed' = feed
  BY <1>1, <1>2, <1>3, <1>4, OneMoves DEF FanOutInv
<1>5. CASE /\ feed' = [u \in Users |->
                  feed[u] + Cardinality({ i \in DOMAIN sender[c].page : sender[c].page[i] = u })]
           /\ lost' = lost
  <2>1. feed' \in [Users -> Nat] /\ \A u \in Users : feed[u] <= feed'[u]
    BY <1>5, FeedsGrow
  <2>2. ASSUME ~lost', ~moved  PROVE SentReachesAll' /\ Progress(s, roll, feed', steady')
    <3>1. Progress(sender[c], roll, feed, steady) /\ SentReachesAll
      BY <1>5, <2>2 DEF FanOutInv
    <3>2. /\ Fed(sender[c].skip, roll, feed) /\ sender[c].page = PageOf(sender[c].skip, roll)
          /\ steady \subseteq { roll[i] : i \in DOMAIN roll }
      BY <1>1, <3>1 DEF Progress, FansOutAt
    <3>3. Fed(sender[c].skip + BatchSize, roll, feed')
      BY <1>5, <3>2, FeedsPage
    <3>4. Progress(s, roll, feed', steady')
      BY <1>1, <1>3, <3>2, <3>3 DEF Progress
    <3>5. SentReachesAll'
      <4>1. \A a, b \in Nat : a > 0 /\ a <= b => b > 0
        OBVIOUS
      <4>2. steady \subseteq Users
        BY <3>2 DEF FanOutInv
      <4>3. \A u \in Users : feed[u] \in Nat /\ feed'[u] \in Nat
        BY <2>1 DEF FanOutInv
      <4> QED  BY <1>3, <1>5, <2>1, <3>1, <4>1, <4>2, <4>3 DEF SentReachesAll
    <3> QED  BY <3>4, <3>5
  <2>3. lost' \in BOOLEAN
    BY <1>5 DEF FanOutInv
  <2> QED  BY <1>1, <1>2, <1>3, <1>5, <2>1, <2>2, <2>3, OneMoves
<1> QED  BY <1>4, <1>5 DEF Feeds

LEMMA PageDelivered ==
  ASSUME FanOutInv, NEW c \in Senders, Delivers(c)
  PROVE  FanOutInv'
<1> DEFINE skip == sender[c].skip
           page == sender[c].page
           s == [ at |-> IF LastPage(page) THEN "closing" ELSE "paging",
                  skip |-> skip + BatchSize, page |-> << >> ]
<1>1. /\ skip \in Nat /\ page \in Seq(Users) /\ roll \in Seq(Users) /\ Len(roll) \in Nat
      /\ Len(page) \in Nat /\ BatchSize \in Nat \ {0}
  BY BroadcastConstants DEF FanOutInv, Sender
<1>2. sender' = [sender EXCEPT ![c] = s] /\ sender[c].at = "delivering"
  BY DEF Delivers
<1>3. s \in Sender /\ s.skip = skip + BatchSize /\ s.at \in { "closing", "paging" }
      /\ (s.at = "closing" <=> LastPage(page))
  <2> HIDE DEF skip, page
  <2> QED  BY <1>1 DEF Sender
<1>4. /\ roll' = roll /\ moved' = moved /\ lost' = lost /\ feed' = feed /\ steady' = steady
      /\ notice' = notice
  BY DEF Delivers
<1>5. /\ lost' \in BOOLEAN /\ feed' \in [Users -> Nat] /\ \A u \in Users : feed[u] <= feed'[u]
      /\ ~lost' /\ ~moved => SentReachesAll'
  BY <1>4 DEF FanOutInv, SentReachesAll
<1>6. ASSUME ~lost', ~moved  PROVE Progress(s, roll, feed', steady')
  <2>1. Progress(sender[c], roll, feed, steady)
    BY <1>4, <1>6 DEF FanOutInv
  <2>2. /\ Fed(skip + BatchSize, roll, feed) /\ page = PageOf(skip, roll)
        /\ steady \subseteq { roll[i] : i \in DOMAIN roll }
    BY <1>2, <2>1 DEF Progress, FansOutAt
  <2>3. LastPage(page) => Len(roll) <= skip + BatchSize
    <3>1. SUFFICES ASSUME ~(Len(roll) <= skip + BatchSize)  PROVE ~LastPage(page)
      OBVIOUS
    <3> DEFINE last == skip + BatchSize
    <3>2. last \in Nat /\ last <= Len(roll) /\ skip < last /\ last - skip = BatchSize
      BY <1>1, <3>1
    <3>3. page = SubSeq(roll, skip + 1, last)
      BY <2>2, <3>2 DEF PageOf
    <3> HIDE DEF last, skip, page
    <3>4. Len(page) = last - skip
      BY <1>1, <3>2, <3>3, PageLength
    <3> QED  BY <1>1, <3>2, <3>4 DEF LastPage
  <2> HIDE DEF skip, page, s
  <2>4. s.at = "closing" => Fed(Len(roll), roll, feed)
    BY <1>1, <1>3, <2>2, <2>3 DEF Fed
  <2>5. s.at # "feeding" /\ s.at # "delivering"
    BY <1>3
  <2> QED  BY <1>3, <1>4, <2>2, <2>4, <2>5 DEF Progress
<1> HIDE DEF s, skip, page
<1>7. s.at \in FansOutAt
  BY <1>3 DEF FansOutAt
<1> QED  BY <1>2, <1>3, <1>4, <1>5, <1>6, <1>7, OneMoves

\* A fan-out ends, well or not.
LEMMA FanOutEnds ==
  ASSUME FanOutInv, NEW c \in Senders, Closes(c) \/ FanOutFails(c)
  PROVE  FanOutInv'
<1>1. /\ roll' = roll /\ moved' = moved /\ lost' = lost /\ feed' = feed /\ steady' = steady
      /\ sender' = [sender EXCEPT ![c] = NoSender]
  BY DEF Closes, FanOutFails, Quits
<1>2. /\ lost' \in BOOLEAN /\ feed' \in [Users -> Nat] /\ \A u \in Users : feed[u] <= feed'[u]
  BY <1>1 DEF FanOutInv
<1>3. ASSUME ~lost', ~moved  PROVE SentReachesAll'
  <2>1. Progress(sender[c], roll, feed, steady) /\ SentReachesAll /\ roll \in Seq(Users)
    BY <1>1, <1>3 DEF FanOutInv
  <2>2. CASE FanOutFails(c)
    <3>1. notice' = "FAILED" \/ notice' = notice
      BY <2>2 DEF FanOutFails
    <3> QED  BY <1>1, <1>3, <2>1, <3>1 DEF SentReachesAll
  <2>3. CASE Closes(c)
    <3>1. Fed(Len(roll), roll, feed) /\ steady \subseteq { roll[i] : i \in DOMAIN roll }
      BY <2>1, <2>3 DEF Closes, Progress, FansOutAt
    <3>2. \A i \in DOMAIN roll : feed[roll[i]] > 0
      BY <2>1, <3>1 DEF Fed
    <3> QED  BY <1>1, <3>1, <3>2 DEF SentReachesAll
  <2> QED  BY <2>2, <2>3
<1> QED  BY <1>1, <1>2, <1>3, NoSenderRests, OneMoves

LEMMA FansOutKeeps ==
  ASSUME FanOutInv, FansOut
  PROVE  FanOutInv'
<1>1. CASE Restarts
  <2>1. sender' \in [Senders -> Sender] /\ \A c \in Senders : sender'[c] = NoSender
    BY <1>1, NoSenderRests DEF Restarts
  <2> QED  BY <1>1, <2>1, NoSenderRests DEF Restarts, FanOutInv, SentReachesAll
<1> QED  BY <1>1, PageRead, PageFed, PageDelivered, FanOutEnds DEF FansOut

\* Taking one user out of the roll leaves a roll.
LEMMA WithoutIsARoll ==
  ASSUME NEW u \in OnRoll, roll \in Seq(Users)
  PROVE  Without(u) \in Seq(Users) /\ u \in Users
<1> DEFINE k == CHOOSE i \in DOMAIN roll : roll[i] = u
<1>1. k \in DOMAIN roll /\ roll[k] = u
  BY DEF OnRoll
<1>2. k \in 1 .. Len(roll) /\ Len(roll) \in Nat
  BY <1>1
<1> HIDE DEF k
<1>3. SubSeq(roll, 1, k - 1) \in Seq(Users) /\ SubSeq(roll, k + 1, Len(roll)) \in Seq(Users)
  BY <1>2
<1>4. Without(u) = SubSeq(roll, 1, k - 1) \o SubSeq(roll, k + 1, Len(roll))
  BY DEF Without, k
<1> QED  BY <1>1, <1>2, <1>3, <1>4

\* A roll that moves while nobody fans out moves under nobody's pages.
LEMMA AudienceMovesKeeps ==
  ASSUME FanOutInv, AudienceMoves
  PROVE  FanOutInv'
<1>1. PICK u \in Users : JoinsRoll(u) \/ LeavesRoll(u) \/ IsRewritten(u)
  BY DEF AudienceMoves
<1>2. roll \in Seq(Users)
  BY DEF FanOutInv
<1>3. /\ notice' = notice /\ feed' = feed /\ sender' = sender /\ lost' = lost
      /\ steady' \subseteq steady /\ Stirs
  BY <1>1 DEF JoinsRoll, LeavesRoll, IsRewritten
<1>4. roll' \in Seq(Users)
  <2>1. CASE JoinsRoll(u)
    BY <1>2, <2>1 DEF JoinsRoll
  <2>2. CASE LeavesRoll(u) \/ IsRewritten(u)
    <3>1. Without(u) \in Seq(Users) /\ (roll' = Without(u) \/ roll' = Append(Without(u), u))
      BY <1>2, <2>2, WithoutIsARoll DEF LeavesRoll, IsRewritten
    <3> QED  BY <3>1
  <2> QED  BY <1>1, <2>1, <2>2
<1>5. moved' \in BOOLEAN /\ (~moved' => ~moved /\ \A c \in Senders : sender[c].at \notin FansOutAt)
  BY <1>3 DEF Stirs, FansOutAt, FanOutInv
<1>6. ASSUME ~lost', ~moved'  PROVE SentReachesAll'
  BY <1>3, <1>5, <1>6 DEF SentReachesAll, FanOutInv
<1>7. ASSUME ~lost', ~moved', NEW c \in Senders
      PROVE  Progress(sender'[c], roll', feed', steady')
  BY <1>3, <1>5, <1>7 DEF Progress, FansOutAt
<1> QED  BY <1>3, <1>4, <1>5, <1>6, <1>7 DEF FanOutInv

Distinct(r) == \A i, j \in DOMAIN r : r[i] = r[j] => i = j

LEMMA Joined ==
  ASSUME NEW a \in Seq(Users), NEW b \in Seq(Users)
  PROVE  /\ DOMAIN (a \o b) = 1 .. Len(a) + Len(b)
         /\ \A i \in 1 .. Len(a) : (a \o b)[i] = a[i]
         /\ \A i \in 1 .. Len(b) : (a \o b)[Len(a) + i] = b[i]
<1>1. Len(a) \in Nat /\ Len(b) \in Nat /\ a \o b \in Seq(Users)
  OBVIOUS
<1>2. DOMAIN (a \o b) = 1 .. Len(a) + Len(b)
  OBVIOUS
<1>3. ASSUME NEW i \in 1 .. Len(a)  PROVE (a \o b)[i] = a[i]
  OBVIOUS
<1>4. ASSUME NEW i \in 1 .. Len(b)  PROVE (a \o b)[Len(a) + i] = b[i]
  OBVIOUS
<1> QED  BY <1>2, <1>3, <1>4

\* The front of a roll, and what follows a place in it.
LEMMA Front ==
  ASSUME NEW S, NEW s \in Seq(S), NEW n \in 0 .. Len(s)
  PROVE  /\ SubSeq(s, 1, n) \in Seq(S) /\ Len(SubSeq(s, 1, n)) = n
         /\ \A i \in 1 .. n : SubSeq(s, 1, n)[i] = s[i]
OBVIOUS

LEMMA Rest ==
  ASSUME NEW S, NEW s \in Seq(S), NEW n \in 1 .. Len(s)
  PROVE  /\ SubSeq(s, n + 1, Len(s)) \in Seq(S)
         /\ Len(SubSeq(s, n + 1, Len(s))) = Len(s) - n
         /\ \A i \in 1 .. Len(s) - n : SubSeq(s, n + 1, Len(s))[i] = s[n + i]
OBVIOUS

\* Without u, the roll names everybody else, once.
LEMMA WithoutDropsOne ==
  ASSUME NEW u \in OnRoll, roll \in Seq(Users), Distinct(roll)
  PROVE  /\ Distinct(Without(u))
         /\ { Without(u)[i] : i \in DOMAIN Without(u) } = OnRoll \ { u }
<1> DEFINE k == CHOOSE i \in DOMAIN roll : roll[i] = u
           w == Without(u)
           At(i) == IF i < k THEN i ELSE i + 1
<1>1. k \in 1 .. Len(roll) /\ roll[k] = u /\ Len(roll) \in Nat /\ DOMAIN roll = 1 .. Len(roll)
  BY DEF OnRoll
<1>2. w = SubSeq(roll, 1, k - 1) \o SubSeq(roll, k + 1, Len(roll))
  BY DEF Without
<1> HIDE DEF k, w
<1>3. DOMAIN w = 1 .. Len(roll) - 1 /\ \A i \in 1 .. Len(roll) - 1 : w[i] = roll[At(i)]
  <2>1. /\ Len(SubSeq(roll, 1, k - 1)) = k - 1
        /\ Len(SubSeq(roll, k + 1, Len(roll))) = Len(roll) - k
        /\ \A i \in 1 .. k - 1 : SubSeq(roll, 1, k - 1)[i] = roll[i]
        /\ \A i \in 1 .. Len(roll) - k : SubSeq(roll, k + 1, Len(roll))[i] = roll[k + i]
        /\ SubSeq(roll, 1, k - 1) \in Seq(Users) /\ SubSeq(roll, k + 1, Len(roll)) \in Seq(Users)
    <3>1. k - 1 \in 0 .. Len(roll)
      BY <1>1
    <3>2. k \in 1 .. Len(roll)
      BY <1>1
    <3> QED  BY <3>1, <3>2, Front, Rest
  <2> DEFINE a == SubSeq(roll, 1, k - 1)
             b == SubSeq(roll, k + 1, Len(roll))
  <2>2. /\ a \in Seq(Users) /\ b \in Seq(Users) /\ w = a \o b
        /\ Len(a) = k - 1 /\ Len(b) = Len(roll) - k
        /\ \A i \in 1 .. k - 1 : a[i] = roll[i]
        /\ \A i \in 1 .. Len(roll) - k : b[i] = roll[k + i]
    BY <1>2, <2>1
  <2> HIDE DEF a, b
  <2>3. /\ DOMAIN w = 1 .. Len(roll) - 1
        /\ \A i \in 1 .. k - 1 : w[i] = a[i]
        /\ \A i \in 1 .. Len(roll) - k : w[k - 1 + i] = b[i]
    <3>1. k - 1 + (Len(roll) - k) = Len(roll) - 1
      BY <1>1
    <3> QED  BY <2>2, <3>1, Joined, SMTT(30)
  <2>4. ASSUME NEW i \in 1 .. Len(roll) - 1  PROVE w[i] = roll[At(i)]
    <3>1. CASE i < k
      <4>1. i \in 1 .. k - 1
        BY <1>1, <3>1
      <4> QED  BY <2>2, <2>3, <3>1, <4>1
    <3>2. CASE ~(i < k)
      <4>1. PICK m \in 1 .. Len(roll) - k : i = k - 1 + m
        <5>1. i - (k - 1) \in 1 .. Len(roll) - k /\ i = k - 1 + (i - (k - 1))
          BY <1>1, <3>2
        <5> QED  BY <5>1
      <4>2. k + m = i + 1
        BY <1>1, <4>1
      <4> QED  BY <2>2, <2>3, <3>2, <4>1, <4>2
    <3> QED  BY <3>1, <3>2
  <2> QED  BY <1>1, <2>3, <2>4
<1>4. \A i \in 1 .. Len(roll) - 1 : At(i) \in 1 .. Len(roll) /\ At(i) # k
  BY <1>1
<1>5. \A i, j \in 1 .. Len(roll) - 1 : At(i) = At(j) => i = j
  BY <1>1
<1>6. \A j \in 1 .. Len(roll) : j # k => \E i \in 1 .. Len(roll) - 1 : At(i) = j
  <2>1. SUFFICES ASSUME NEW j \in 1 .. Len(roll), j # k
                 PROVE  \E i \in 1 .. Len(roll) - 1 : At(i) = j
    OBVIOUS
  <2>2. CASE j < k
    <3>1. j \in 1 .. Len(roll) - 1 /\ At(j) = j
      BY <1>1, <2>2
    <3> QED  BY <3>1
  <2>3. CASE ~(j < k)
    <3>1. j - 1 \in 1 .. Len(roll) - 1 /\ At(j - 1) = j
      BY <1>1, <2>1, <2>3
    <3> QED  BY <3>1
  <2> QED  BY <2>2, <2>3
<1> HIDE DEF At
<1>7. Distinct(w)
  BY <1>1, <1>3, <1>4, <1>5 DEF Distinct
<1>8. { w[i] : i \in DOMAIN w } = OnRoll \ { u }
  <2>1. ASSUME NEW i \in 1 .. Len(roll) - 1  PROVE w[i] \in OnRoll \ { u }
    BY <1>1, <1>3, <1>4 DEF Distinct, OnRoll
  <2>2. ASSUME NEW v \in OnRoll, v # u  PROVE \E i \in 1 .. Len(roll) - 1 : w[i] = v
    <3>1. PICK j \in 1 .. Len(roll) : roll[j] = v
      BY <1>1 DEF OnRoll
    <3>2. j # k
      BY <1>1, <2>2, <3>1
    <3> QED  BY <1>3, <1>6, <3>1, <3>2
  <2> QED  BY <1>3, <2>1, <2>2, ZenonT(40)
<1> QED  BY <1>7, <1>8 DEF w

\* One more user, who was not there.
LEMMA AppendAddsOne ==
  ASSUME NEW r \in Seq(Users), Distinct(r), NEW u \in Users,
         u \notin { r[i] : i \in DOMAIN r }
  PROVE  /\ Distinct(Append(r, u))
         /\ { Append(r, u)[i] : i \in DOMAIN Append(r, u) } = { r[i] : i \in DOMAIN r } \cup { u }
<1> DEFINE n == Len(r)
           s == Append(r, u)
<1>1. /\ n \in Nat /\ DOMAIN r = 1 .. n /\ DOMAIN s = 1 .. n + 1
      /\ s[n + 1] = u /\ \A i \in 1 .. n : s[i] = r[i]
  OBVIOUS
<1> HIDE DEF s, n
<1>2. \A i \in 1 .. n + 1 : i \in 1 .. n \/ i = n + 1
  BY <1>1
<1>3. 1 .. n \subseteq 1 .. n + 1 /\ n + 1 \in 1 .. n + 1
  BY <1>1
<1>4. Distinct(s)
  BY <1>1, <1>2 DEF Distinct
<1>5. { s[i] : i \in DOMAIN s } = { r[i] : i \in DOMAIN r } \cup { u }
  BY <1>1, <1>2, <1>3
<1> QED  BY <1>4, <1>5 DEF s

\* The roll lists nobody twice, and everybody whom a send addressed until he left.
RollInv == notice \in Notices /\ Distinct(roll) /\ steady \subseteq OnRoll

LEMMA RollStep ==
  ASSUME FanOutInv, RollInv, [BroadcastsNext]_broadcastVars
  PROVE  RollInv'
<1>1. roll \in Seq(Users)
  BY DEF FanOutInv
<1>2. CASE UNCHANGED broadcastVars
  BY <1>2 DEF broadcastVars, RollInv, Distinct, OnRoll
<1>3. CASE Administrates \/ FansOut
  <2>1. roll' = roll /\ (steady' = steady \/ steady' = OnRoll) /\ notice' \in Notices
    BY <1>3
       DEF Administrates, Drafts, ReadsDraft, CountsAudience, StartsSending, DeletesNotice,
           RequestFails, FansOut, Restarts, ReadsPage, Feeds, Delivers, Closes, FanOutFails,
           RollInv, Notices
  <2> QED  BY <2>1 DEF RollInv, Distinct, OnRoll
<1>4. CASE AudienceMoves
  <2>1. PICK u \in Users : JoinsRoll(u) \/ LeavesRoll(u) \/ IsRewritten(u)
    BY <1>4 DEF AudienceMoves
  <2>2. notice' = notice
    BY <2>1 DEF JoinsRoll, LeavesRoll, IsRewritten
  <2>3. CASE JoinsRoll(u)
    <3>1. Distinct(roll') /\ OnRoll' = OnRoll \cup { u } /\ steady' = steady
      BY <1>1, <2>3, AppendAddsOne DEF JoinsRoll, OnRoll, RollInv
    <3> QED  BY <2>2, <3>1 DEF RollInv
  <2>4. CASE LeavesRoll(u)
    <3>1. Distinct(roll') /\ OnRoll' = OnRoll \ { u } /\ steady' = steady \ { u }
      BY <1>1, <2>4, WithoutDropsOne DEF LeavesRoll, OnRoll, RollInv
    <3> QED  BY <2>2, <3>1 DEF RollInv
  <2>5. CASE IsRewritten(u)
    <3> DEFINE w == Without(u)
    <3>1. /\ w \in Seq(Users) /\ Distinct(w) /\ { w[i] : i \in DOMAIN w } = OnRoll \ { u }
      BY <1>1, <2>5, WithoutDropsOne, WithoutIsARoll DEF IsRewritten, RollInv
    <3>2. roll' = Append(w, u) /\ steady' = steady /\ u \in OnRoll
      BY <2>5 DEF IsRewritten
    <3> HIDE DEF w
    <3>3. /\ Distinct(Append(w, u))
          /\ { Append(w, u)[i] : i \in DOMAIN Append(w, u) } = (OnRoll \ { u }) \cup { u }
      BY <3>1, AppendAddsOne
    <3>4. Distinct(roll') /\ OnRoll' = (OnRoll \ { u }) \cup { u }
      BY <3>2, <3>3 DEF OnRoll
    <3> QED  BY <2>2, <3>2, <3>4 DEF RollInv
  <2> QED  BY <2>1, <2>3, <2>4, <2>5
<1> QED  BY <1>2, <1>3, <1>4 DEF BroadcastsNext

LEMMA BroadcastsInvariant == BroadcastsSpec => [](FanOutInv /\ RollInv)
<1>1. BroadcastsInit => FanOutInv
  <2> SUFFICES ASSUME BroadcastsInit  PROVE FanOutInv
    OBVIOUS
  <2>1. sender \in [Senders -> Sender] /\ \A c \in Senders : sender[c] = NoSender
    BY NoSenderRests DEF BroadcastsInit
  <2>2. roll \in Seq(Users) /\ feed \in [Users -> Nat] /\ lost = FALSE /\ moved = FALSE
    BY DEF BroadcastsInit
  <2> QED  BY <2>1, <2>2, NoSenderRests DEF BroadcastsInit, FanOutInv, SentReachesAll
<1>2. FanOutInv /\ [BroadcastsNext]_broadcastVars => FanOutInv'
  <2> SUFFICES ASSUME FanOutInv, [BroadcastsNext]_broadcastVars  PROVE FanOutInv'
    OBVIOUS
  <2>1. CASE UNCHANGED broadcastVars
    BY <2>1 DEF broadcastVars, FanOutInv, SentReachesAll
  <2> QED  BY <2>1, AdministratesKeeps, FansOutKeeps, AudienceMovesKeeps DEF BroadcastsNext
<1>3. BroadcastsInit => RollInv
  BY DEF BroadcastsInit, RollInv, Notices, Distinct, OnRoll
<1>4. FanOutInv /\ RollInv /\ [BroadcastsNext]_broadcastVars => RollInv'
  BY RollStep
<1> QED  BY <1>1, <1>2, <1>3, <1>4, PTL DEF BroadcastsSpec

\* A broadcast whose fan-out lost no page, over users who did not move in the
\* table, is in the feed of everybody it addressed, whatever else is sent,
\* deleted or restarted (processBroadcastSending).
THEOREM SentBroadcastsReach == BroadcastsSpec => []SentReachesAll
<1>1. FanOutInv => SentReachesAll
  BY DEF FanOutInv, SentReachesAll
<1> QED  BY <1>1, BroadcastsInvariant, PTL

\* Rows, requests and audiences keep their shape: nobody is on the roll twice, and
\* a page in flight is a sequence of users (send, processBroadcastSending).
THEOREM BroadcastTypeCorrect == BroadcastsSpec => []BroadcastsTypeOK
<1>1. FanOutInv /\ RollInv => BroadcastsTypeOK
  BY DEF FanOutInv, RollInv, Distinct, BroadcastsTypeOK
<1> QED  BY <1>1, BroadcastsInvariant, PTL

=============================================================================
