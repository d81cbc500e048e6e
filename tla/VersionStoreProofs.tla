-------------------------- MODULE VersionStoreProofs --------------------------
(***************************************************************************)
(* What VersionStore's runs check on a small instance, for every value of   *)
(* the constants: the store's types, that a version never points into       *)
(* nothing but where a sweep had given a body up already, and that a trim   *)
(* takes no version the promise of retention.ts keeps.                      *)
(*                                                                         *)
(* Nothing is in a transaction with anything else, so what an actor holds   *)
(* between two statements was read from a store that others have changed.   *)
(* Fit says what of it still counts; it is a predicate of one actor's       *)
(* record, so each kind of write is weighed once, against any record.       *)
(***************************************************************************)
EXTENDS VersionStore, FiniteSetTheorems, SequenceTheorems, WellFoundedInduction, TLAPS

Pcs == {"idle", "put", "pair", "report", "evidence", "attach", "copy", "birth", "again",
        "trim", "cut", "live", "gc", "delete", "repos"}
Pools == {"guard", "evidence"}
Thens == {"idle", "pair", "evidence", "birth"}
Acts == [pc : Pcs, tab : Tables, commit : Commits \cup {0}, files : SUBSET Bodies, todo : SUBSET Bodies,
         since : Nat, own : 0 .. MaxRows, from : 0 .. MaxRows, trim : SUBSET Nat, plan : Seq(Series),
         took : BOOLEAN, read : Seq(Tables), live : SUBSET Bodies, pool : Pools,
         dead : SUBSET Bodies, cut : Nat, then : Thens]

\* The tables a sweep has still to read; the ids of a series above one of them.
Unread(x) == {x.read[i] : i \in DOMAIN x.read}
Above(tab, i) == {s.id : s \in {s \in Of(tab) : s.id > i}}

\* What an actor is in the middle of has what its next statement writes.
Ready(x) ==
  /\ \/ x.pc \in {"pair", "report", "evidence", "copy", "again"} \/ x.then \in {"pair", "evidence"}
     \/ x.pc = "put" /\ x.tab # "run"
     => x.commit \in Commits
  /\ x.pc = "report" => x.cut \in 0 .. MaxRows
  /\ x.pc \in {"trim", "cut"} => x.tab \in Series
  /\ x.pc = "attach" => x.todo = {}
  /\ x.pc = "live" => x.pool = "guard"

\* A save, and the reads of a sweep, take no longer than Stall.
InTime(x) == /\ x.since <= time
             /\ x.since > 0 => time <= x.since + Stall

\* A body that a save has put is there, stamped since the save began.
Fresh(x) ==
  x.pc \in {"put", "attach"} =>
    \A b \in x.files \ x.todo : b \in exposed \/ (x.since > 0 /\ content[b] >= x.since)

\* What a sweep may take is in no version it has read, and in none that came
\* later: at first by what it holds live, once it has its cutoff by the stamp.
Reading(x) == x.pc = "live" \/ (x.pc = "gc" /\ x.pool = "guard")
Cutting(x) == x.pc = "delete" \/ (x.pc = "gc" /\ x.pool = "evidence")
Spares(x) ==
  Reading(x) =>
    /\ x.since = 0 => x.pc = "live" /\ Unread(x) = Tables
    /\ x.pc = "gc" => Unread(x) = {}
    /\ \A r \in rows : r.tab \notin Unread(x) =>
         \A b \in r.files : b \in x.live \cup exposed \/ content[b] + Stall >= x.since
Outlives(x) ==
  Cutting(x) =>
    /\ x.cut <= time
    /\ \A r \in rows : \A b \in r.files : b \in x.live \cup exposed \/ content[b] + Grace >= x.cut
GivenUp(x) ==
  \A b \in x.dead : b \in exposed \/ (x.pc = "delete" /\ b \notin x.live /\ content[b] + Grace < x.cut)

\* What a trim has chosen stays displaced, whatever other trims take.
Displaced(x) ==
  x.pc = "cut" => /\ x.trim \subseteq 1 .. next - 1
                  /\ \A r \in rows : r.id \in x.trim => /\ r.tab \in Series
                                                        /\ Cardinality(Above(r.tab, r.id)) >= Keep

Fit(x) == Ready(x) /\ InTime(x) /\ Fresh(x) /\ Spares(x) /\ Outlives(x) /\ GivenUp(x) /\ Displaced(x)

Values == /\ TypeOK /\ act \in [Everyone -> Acts]
          /\ \A r \in rows : r.id < next
AllFit == \A a \in Everyone : Fit(act[a])
Inv == Values /\ LostOnlyInTheGap /\ AllFit

-------------------------------------------------------------------------------
(* Records: the ones the operations build are of the type, field by field. *)

LEMMA IdleFields ==
  /\ Idle \in Acts
  /\ Idle.pc = "idle" /\ Idle.since = 0 /\ Idle.dead = {} /\ Idle.then = "idle"
PROOF
<1>1. <<>> \in Seq(Series) /\ <<>> \in Seq(Tables)  BY EmptySeq
<1>. QED  BY <1>1, StoreAssumption DEF Idle, Acts, Pcs, Pools, Thens, Tables, Series

LEMMA ReturnFields ==
  ASSUME NEW x \in Acts
  PROVE  /\ Return(x) \in Acts
         /\ Return(x).pc = x.then
         /\ Return(x).commit = IF x.then = "idle" THEN 0 ELSE x.commit
         /\ Return(x).since = 0 /\ Return(x).dead = {} /\ Return(x).then = "idle"
PROOF
<1>1. CASE x.then = "idle"  BY <1>1, IdleFields DEF Return, Idle
<1>2. CASE x.then # "idle"
  <2>1. /\ x.then \in Pcs /\ x.commit \in Commits \cup {0}
        /\ x.own \in 0 .. MaxRows /\ x.from \in 0 .. MaxRows
  BY DEF Acts, Thens, Pcs
  <2>2. Return(x) = [Idle EXCEPT !.pc = x.then, !.commit = x.commit, !.own = x.own, !.from = x.from]
  BY <1>2 DEF Return
  <2>3. Return(x) \in Acts  BY <2>1, <2>2, IdleFields DEF Acts
  <2>4. /\ Return(x).pc = x.then /\ Return(x).commit = x.commit
        /\ Return(x).since = 0 /\ Return(x).dead = {} /\ Return(x).then = "idle"
  BY <2>2 DEF Idle
  <2>. QED  BY <1>2, <2>3, <2>4
<1>. QED  BY <1>1, <1>2

LEMMA TrimOfFields ==
  ASSUME NEW x \in Acts, NEW tab \in Tables, NEW plan \in Seq(Series), NEW y,
         y = TrimOf(x, tab, plan)
  PROVE  /\ y \in Acts /\ y.pc = "trim" /\ y.tab = tab /\ y.plan = plan
         /\ y.commit = x.commit /\ y.then = x.then /\ y.since = 0 /\ y.dead = {}
         /\ y.own = x.own /\ y.from = x.from /\ y.pool = "guard"
PROOF
<1>1. /\ x.then \in Thens /\ x.commit \in Commits \cup {0} /\ x.took \in BOOLEAN
      /\ x.own \in 0 .. MaxRows /\ x.from \in 0 .. MaxRows
BY DEF Acts
<1>2. y = [Idle EXCEPT !.pc = "trim", !.tab = tab, !.plan = plan, !.took = x.took,
                         !.commit = x.commit, !.own = x.own, !.from = x.from, !.then = x.then]
BY DEF TrimOf
<1>3. "trim" \in Pcs  BY DEF Pcs
<1>4. y \in Acts  BY <1>1, <1>2, <1>3, IdleFields DEF Acts
<1>. QED  BY <1>2, <1>4 DEF Idle

LEMMA Elements ==
  ASSUME NEW S, NEW q \in Seq(S), q # <<>>
  PROVE  /\ Head(q) \in S /\ Tail(q) \in Seq(S)
         /\ {q[i] : i \in DOMAIN q} = {Head(q)} \cup {Tail(q)[i] : i \in DOMAIN Tail(q)}
         /\ Len(q) = 1 => Tail(q) = <<>>
PROOF
<1>1. /\ Head(q) = q[1] /\ Tail(q) \in Seq(S) /\ Len(q) \in Nat /\ Len(q) >= 1
      /\ Len(Tail(q)) = Len(q) - 1 /\ DOMAIN q = 1 .. Len(q) /\ DOMAIN Tail(q) = 1 .. Len(q) - 1
      /\ \A i \in 1 .. Len(q) - 1 : Tail(q)[i] = q[i + 1]
      /\ Head(q) \in S
  BY HeadTailProperties, LenProperties
<1>2. ASSUME NEW i \in DOMAIN q  PROVE q[i] \in {Head(q)} \cup {Tail(q)[j] : j \in DOMAIN Tail(q)}
  <2>1. CASE i = 1  BY <1>1, <2>1
  <2>2. CASE i # 1
    <3>1. i - 1 \in DOMAIN Tail(q) /\ Tail(q)[i - 1] = q[i]  BY <1>1, <1>2, <2>2
    <3>. QED  BY <3>1
  <2>. QED  BY <2>1, <2>2
<1>3. ASSUME NEW i \in DOMAIN Tail(q)  PROVE Tail(q)[i] \in {q[j] : j \in DOMAIN q}
  <2>1. i + 1 \in DOMAIN q /\ q[i + 1] = Tail(q)[i]  BY <1>1, <1>3
  <2>. QED  BY <2>1
<1>4. Head(q) \in {q[j] : j \in DOMAIN q}  BY <1>1
<1>5. Len(q) = 1 => Tail(q) = <<>>  BY <1>1, EmptySeq
<1>6. {q[i] : i \in DOMAIN q} = {Head(q)} \cup {Tail(q)[i] : i \in DOMAIN Tail(q)}  BY <1>2, <1>3, <1>4
<1>. QED  BY <1>1, <1>5, <1>6

\* An actor that holds nothing of the store is fit in any store.
Quiet == Pcs \ {"put", "attach", "live", "gc", "delete", "cut"}
LEMMA QuietFits ==
  ASSUME NEW y \in Acts, y.pc \in Quiet, Ready(y), InTime(y)', y.dead \subseteq exposed'
  PROVE  Fit(y)'
PROOF
<1>1. Ready(y)' /\ Fresh(y)'  BY DEF Ready, Fresh, Quiet
<1>2. Spares(y)' /\ Outlives(y)' /\ GivenUp(y)'  BY DEF Spares, Outlives, GivenUp, Reading, Cutting, Quiet
<1>3. Displaced(y)'  BY DEF Displaced, Quiet
<1>. QED  BY <1>1, <1>2, <1>3 DEF Fit

\* One actor moves, the others stay fit.
LEMMA OneMoves ==
  ASSUME act \in [Everyone -> Acts], AllFit, NEW a \in Everyone, NEW y \in Acts,
         act' = [act EXCEPT ![a] = y], Fit(y)',
         \A s \in Everyone : \A x \in Acts : x = act[s] /\ Fit(x) => Fit(x)'
  PROVE  act' \in [Everyone -> Acts] /\ AllFit'
PROOF
<1>1. act' \in [Everyone -> Acts]  OBVIOUS
<1>2. ASSUME NEW s \in Everyone  PROVE Fit(act[s])'
  <2>1. CASE s = a
    <3>1. act'[s] = y  BY <2>1
    <3>. QED  BY <3>1
  <2>2. CASE s # a
    <3>1. PICK x \in Acts : x = act[s]  OBVIOUS
    <3>2. Fit(x)  BY <3>1 DEF AllFit
    <3>3. Fit(x)'  BY <3>1, <3>2
    <3>4. act'[s] = x  BY <3>1, <2>2
    <3>. QED  BY <3>3, <3>4
  <2>. QED  BY <2>1, <2>2
<1>. QED  BY <1>1, <1>2 DEF AllFit
-------------------------------------------------------------------------------
(* Writes: what each kind of statement leaves of any actor's record. *)

LEMMA TypeFacts ==
  ASSUME Values
  PROVE  /\ time \in Nat /\ time > 0 /\ next \in Nat /\ next > 0
         /\ \A b \in Bodies : content[b] \in Nat
         /\ exposed \subseteq Bodies
         /\ \A r \in rows : /\ r.id \in Nat /\ r.id > 0 /\ r.id < next /\ r.id \in 0 .. MaxRows
                            /\ r.tab \in Tables /\ r.files \subseteq Bodies /\ r.commit \in Commits
                            /\ r.made \in Nat
         /\ \A r \in rows, s \in rows : r.id = s.id => r = s
PROOF BY StoreAssumption DEF Values, TypeOK, RowSet

LEMMA NothingWritten ==
  ASSUME UNCHANGED <<time, content, rows, next, exposed>>, NEW x \in Acts, Fit(x)
  PROVE  Fit(x)'
PROOF BY DEF Fit, Ready, InTime, Fresh, Spares, Outlives, GivenUp, Displaced, Reading, Cutting,
             Above, Of, Unread

LEMMA IdsFinite ==
  ASSUME NEW S \in SUBSET (0 .. MaxRows)
  PROVE  IsFiniteSet(S)
PROOF
<1>1. MaxRows \in Int /\ 0 \in Int  BY StoreAssumption
<1>2. IsFiniteSet(0 .. MaxRows)  BY <1>1, FS_Interval
<1>. QED  BY <1>2, FS_Subset

\* Ids tell versions apart, so counting the ids above one counts its versions.
LEMMA AboveCounts ==
  ASSUME Values, NEW tab, NEW i \in Nat
  PROVE  /\ IsFiniteSet(Above(tab, i)) /\ Cardinality(Above(tab, i)) \in Nat
         /\ Cardinality({s \in Of(tab) : s.id > i}) = Cardinality(Above(tab, i))
PROOF
<1>. DEFINE R == {s \in Of(tab) : s.id > i}
            f == [s \in R |-> s.id]
<1>0. \A s \in R : s \in rows  BY DEF Of
<1>1. Above(tab, i) \subseteq 0 .. MaxRows  BY <1>0, TypeFacts DEF Above
<1>2. IsFiniteSet(Above(tab, i))  BY <1>1, IdsFinite
<1>3. f \in [R -> Above(tab, i)]  BY DEF Above
<1>4. \A s, t \in R : f[s] = f[t] => s = t  BY <1>0, TypeFacts
<1>5. \A k \in Above(tab, i) : \E s \in R : f[s] = k  BY DEF Above
<1>6. f \in Injection(R, Above(tab, i))  BY <1>3, <1>4 DEF Injection, IsInjective
<1>7. f \in Surjection(R, Above(tab, i))  BY <1>3, <1>5 DEF Surjection
<1>8. Cardinality(R) = Cardinality(Above(tab, i))  BY <1>2, <1>6, <1>7, FS_Injection
<1>. QED  BY <1>2, <1>8, FS_CardinalityType

\* What holds of fewer versions above one holds of more.
LEMMA AboveGrows ==
  ASSUME NEW S, NEW T \in SUBSET S, IsFiniteSet(S), Cardinality(T) >= Keep
  PROVE  Cardinality(S) >= Keep
PROOF BY FS_Subset, FS_CardinalityType, StoreAssumption

\* A row that lands spares what no sweep that passed its table may still take.
LEMMA RowLands ==
  ASSUME Values, Values', NEW r0 \in RowSet, rows' = rows \cup {r0}, r0.id = next, next' = next + 1,
         exposed \subseteq exposed', UNCHANGED <<time, content>>,
         NEW x \in Acts, Fit(x),
         \A b \in r0.files : \/ b \in exposed'
                             \/ content[b] + Stall >= time
                             \/ content[b] > 0 /\ (Passed(x, r0.tab) => b \in x.live)
  PROVE  Fit(x)'
PROOF
<1>0. /\ x.since \in Nat /\ x.cut \in Nat /\ x.live \subseteq Bodies /\ x.dead \subseteq Bodies
      /\ x.trim \subseteq Nat /\ r0.files \subseteq Bodies
      /\ Stall \in Nat /\ Grace \in Nat /\ Stall <= Grace
BY StoreAssumption, GraceAssumption DEF Acts, RowSet
<1>1. Ready(x)' /\ InTime(x)'  BY DEF Fit, Ready, InTime
<1>2. Fresh(x)'  BY DEF Fit, Fresh
<1>3. Spares(x)'
  <2>. SUFFICES ASSUME Reading(x), NEW r \in rows', r.tab \notin Unread(x), NEW b \in r.files
                PROVE  b \in x.live \cup exposed' \/ content[b] + Stall >= x.since
    BY DEF Fit, Spares, Unread, Reading
  <2>1. CASE r \in rows  BY <2>1 DEF Fit, Spares
  <2>2. CASE r = r0
    <3>1. Passed(x, r0.tab)  BY <2>2 DEF Passed, Reading, Unread
    <3>2. CASE content[b] + Stall >= time  BY <3>2, <2>2, <1>0, TypeFacts DEF Fit, InTime
    <3>. QED  BY <3>1, <3>2, <2>2
  <2>. QED  BY <2>1, <2>2
<1>4. Outlives(x)'
  <2>. SUFFICES ASSUME Cutting(x), NEW r \in rows', NEW b \in r.files
                PROVE  b \in x.live \cup exposed' \/ content[b] + Grace >= x.cut
    BY DEF Fit, Outlives, Cutting
  <2>1. CASE r \in rows  BY <2>1 DEF Fit, Outlives
  <2>2. CASE r = r0
    <3>1. Passed(x, r0.tab)  BY DEF Passed, Cutting
    <3>2. CASE content[b] + Stall >= time  BY <3>2, <2>2, <1>0, TypeFacts DEF Fit, Outlives
    <3>. QED  BY <3>1, <3>2, <2>2
  <2>. QED  BY <2>1, <2>2
<1>5. GivenUp(x)'  BY DEF Fit, GivenUp
<1>6. Displaced(x)'
  <2>. SUFFICES ASSUME x.pc = "cut"
                PROVE  /\ x.trim \subseteq 1 .. next' - 1
                       /\ \A r \in rows' : r.id \in x.trim =>
                            r.tab \in Series /\ Cardinality(Above(r.tab, r.id)') >= Keep
    BY DEF Displaced, Above, Of
  <2>1. x.trim \subseteq 1 .. next - 1  BY DEF Fit, Displaced
  <2>2. ASSUME NEW r \in rows', r.id \in x.trim
        PROVE  r.tab \in Series /\ Cardinality(Above(r.tab, r.id)') >= Keep
    <3>1. r \in rows  BY <2>1, <2>2, TypeFacts
    <3>2. r.tab \in Series /\ Cardinality(Above(r.tab, r.id)) >= Keep  BY <3>1, <2>2 DEF Fit, Displaced
    <3>3. Above(r.tab, r.id) \subseteq Above(r.tab, r.id)'  BY DEF Above, Of
    <3>4. IsFiniteSet(Above(r.tab, r.id)')
      <4>1. Above(r.tab, r.id)' \subseteq 0 .. MaxRows  BY DEF Values, TypeOK, RowSet, Above, Of
      <4>. QED  BY <4>1, IdsFinite
    <3>. QED  BY <3>2, <3>3, <3>4, AboveGrows
  <2>3. x.trim \subseteq 1 .. next' - 1  BY <2>1, TypeFacts
  <2>. QED  BY <2>2, <2>3
<1>. QED  BY <1>1, <1>2, <1>3, <1>4, <1>5, <1>6 DEF Fit

\* Entries merged onto a row are put, and stamped since before any sweep that
\* could not know of them began.
LEMMA EntriesMerge ==
  ASSUME Values, NEW d \in Acts, Fit(d), d.pc = "attach" \/ (d.pc = "put" /\ d.todo = {}),
         rows' = {IF r.id = d.own THEN [r EXCEPT !.files = @ \cup d.files] ELSE r : r \in rows},
         UNCHANGED <<time, content, next, exposed>>,
         NEW x \in Acts, Fit(x)
  PROVE  Fit(x)'
PROOF
<1>. DEFINE Merged(r) == IF r.id = d.own THEN [r EXCEPT !.files = @ \cup d.files] ELSE r
<1>a. x.since \in Nat /\ x.cut \in Nat /\ d.since \in Nat /\ d.files \subseteq Bodies
  BY DEF Acts
<1>b. Stall \in Nat /\ Grace \in Nat /\ Stall <= Grace
  BY StoreAssumption, GraceAssumption
<1>0. /\ x.since \in Nat /\ x.cut \in Nat /\ d.since \in Nat /\ d.files \subseteq Bodies
      /\ Stall \in Nat /\ Grace \in Nat /\ Stall <= Grace
BY <1>a, <1>b
<1>1. \A b \in d.files : b \in exposed \/ content[b] + Stall >= time
  <2>. TAKE b \in d.files
  <2>1. b \in exposed \/ (d.since > 0 /\ content[b] >= d.since)  BY DEF Fit, Fresh, Ready
  <2>2. d.since > 0 => time <= d.since + Stall  BY DEF Fit, InTime
  <2>. QED  BY <1>0, <2>1, <2>2, TypeFacts
<1>2. /\ rows' = {Merged(r) : r \in rows}
      /\ \A r \in rows : /\ Merged(r).id = r.id /\ Merged(r).tab = r.tab
                         /\ Merged(r).files \subseteq r.files \cup d.files
<2>1. \A r \in rows : r \in RowSet  BY DEF Values, TypeOK
<2>. QED  BY <2>1 DEF RowSet
<1>. HIDE DEF Merged
<1>3. Ready(x)' /\ InTime(x)' /\ Fresh(x)' /\ GivenUp(x)'
  BY DEF Fit, Ready, InTime, Fresh, GivenUp
<1>4. Spares(x)'
  <2>1. ASSUME Reading(x), NEW q \in rows', q.tab \notin Unread(x), NEW b \in q.files
        PROVE  b \in x.live \cup exposed \/ content[b] + Stall >= x.since
    <3>1. PICK r \in rows : q = Merged(r)  BY <1>2
    <3>2. CASE b \in r.files  BY <1>2, <2>1, <3>1, <3>2 DEF Fit, Spares
    <3>3. CASE b \in d.files
      <4>1. x.since <= time  BY DEF Fit, InTime
      <4>. QED  BY <1>0, <1>1, <3>3, <4>1, TypeFacts
    <3>. QED  BY <1>2, <2>1, <3>1, <3>2, <3>3
  <2>2. Reading(x) => /\ x.since = 0 => x.pc = "live" /\ Unread(x) = Tables
                      /\ x.pc = "gc" => Unread(x) = {}
    BY DEF Fit, Spares
  <2>. QED  BY <2>1, <2>2 DEF Spares, Reading, Unread
<1>5. Outlives(x)'
  <2>1. ASSUME Cutting(x), NEW q \in rows', NEW b \in q.files
        PROVE  b \in x.live \cup exposed \/ content[b] + Grace >= x.cut
    <3>1. PICK r \in rows : q = Merged(r)  BY <1>2
    <3>2. CASE b \in r.files  BY <1>2, <2>1, <3>1, <3>2 DEF Fit, Outlives
    <3>3. CASE b \in d.files
      <4>1. x.cut <= time  BY <2>1 DEF Fit, Outlives
      <4>. QED  BY <1>0, <1>1, <3>3, <4>1, TypeFacts
    <3>. QED  BY <1>2, <2>1, <3>1, <3>2, <3>3
  <2>2. Cutting(x) => x.cut <= time  BY DEF Fit, Outlives
  <2>. QED  BY <2>1, <2>2 DEF Outlives, Cutting
<1>6. \A tab, i : Above(tab, i)' = Above(tab, i)
  BY <1>2 DEF Above, Of
<1>7. Displaced(x)'
  BY <1>2, <1>6 DEF Fit, Displaced
<1>. QED  BY <1>3, <1>4, <1>5, <1>7 DEF Fit

\* A put only moves a stamp forward, to now.
LEMMA BodyPut ==
  ASSUME Values, NEW b0 \in Bodies, content' = [content EXCEPT ![b0] = time],
         exposed \subseteq exposed', UNCHANGED <<time, rows, next>>,
         NEW x \in Acts, Fit(x), b0 \in x.dead => b0 \in exposed'
  PROVE  Fit(x)'
PROOF
<1>0. /\ x.since \in Nat /\ x.cut \in Nat /\ x.dead \subseteq Bodies /\ x.files \subseteq Bodies
      /\ Stall \in Nat /\ Grace \in Nat
      /\ \A r \in rows : r.files \subseteq Bodies
      /\ time \in Nat /\ \A b \in Bodies : content[b] \in Nat
      /\ x.since <= time
BY StoreAssumption, TypeFacts DEF Acts, Fit, InTime
<1>1. \A b \in Bodies : content'[b] = IF b = b0 THEN time ELSE content[b]
  BY DEF Values, TypeOK
<1>2. Ready(x)' /\ InTime(x)'  BY DEF Fit, Ready, InTime
<1>3. Fresh(x)'  BY <1>0, <1>1 DEF Fit, Fresh
<1>4. Spares(x)'
  <2>. SUFFICES ASSUME Reading(x), NEW r \in rows, r.tab \notin Unread(x), NEW b \in r.files
                PROVE  b \in x.live \cup exposed' \/ content'[b] + Stall >= x.since
    BY DEF Fit, Spares, Unread, Reading
  <2>1. b \in x.live \cup exposed \/ content[b] + Stall >= x.since  BY DEF Fit, Spares
  <2>. QED  BY <1>0, <1>1, <2>1
<1>5. Outlives(x)'
  <2>. SUFFICES ASSUME Cutting(x), NEW r \in rows, NEW b \in r.files
                PROVE  b \in x.live \cup exposed' \/ content'[b] + Grace >= x.cut
    BY DEF Fit, Outlives, Cutting
  <2>1. b \in x.live \cup exposed \/ content[b] + Grace >= x.cut  BY DEF Fit, Outlives
  <2>2. x.cut <= time  BY DEF Fit, Outlives
  <2>. QED  BY <1>0, <1>1, <2>1, <2>2
<1>6. GivenUp(x)'  BY <1>0, <1>1 DEF Fit, GivenUp
<1>7. Displaced(x)'  BY DEF Fit, Displaced, Above, Of
<1>. QED  BY <1>2, <1>3, <1>4, <1>5, <1>6, <1>7 DEF Fit

\* The bodies one sweep deletes are in no version, unless exposed, and no save
\* in progress has put them.
LEMMA NamedNotDead ==
  ASSUME Values, NEW d \in Acts, Fit(d), d.pc = "delete", NEW b \in d.dead,
         NEW r \in rows, b \in r.files
  PROVE  b \in exposed
PROOF
<1>1. b \in d.live \cup exposed \/ content[b] + Grace >= d.cut
  BY DEF Fit, Outlives, Cutting
<1>2. b \in exposed \/ (b \notin d.live /\ content[b] + Grace < d.cut)
  BY DEF Fit, GivenUp
<1>3. content[b] \in Nat /\ Grace \in Nat /\ d.cut \in Nat
  BY TypeFacts, StoreAssumption DEF Acts
<1>. QED  BY <1>1, <1>2, <1>3

LEMMA BodiesDeleted ==
  ASSUME Values, NEW d \in Acts, Fit(d), d.pc = "delete",
         content' = [b \in Bodies |-> IF b \in d.dead THEN 0 ELSE content[b]],
         UNCHANGED <<time, rows, next, exposed>>,
         NEW x \in Acts, Fit(x)
  PROVE  Fit(x)'
PROOF
<1>a. /\ x.since \in Nat /\ x.cut \in Nat /\ x.dead \subseteq Bodies /\ x.files \subseteq Bodies
      /\ d.cut \in Nat
BY DEF Acts
<1>b. Stall \in Nat /\ Grace \in Nat /\ Stall <= Grace
  BY StoreAssumption, GraceAssumption
<1>0. /\ x.since \in Nat /\ x.cut \in Nat /\ x.dead \subseteq Bodies /\ x.files \subseteq Bodies
      /\ Stall \in Nat /\ Grace \in Nat /\ Stall <= Grace /\ d.cut \in Nat
      /\ \A r \in rows : r.files \subseteq Bodies
      /\ time \in Nat /\ \A b \in Bodies : content[b] \in Nat
BY <1>a, <1>b, TypeFacts
<1>1. \A b \in Bodies : content'[b] = IF b \in d.dead THEN 0 ELSE content[b]
  OBVIOUS
<1>2. Ready(x)' /\ InTime(x)'  BY DEF Fit, Ready, InTime
<1>3. Fresh(x)'
  <2>. SUFFICES ASSUME x.pc \in {"put", "attach"}, NEW b \in x.files \ x.todo, b \in d.dead,
                       b \notin exposed
                PROVE  FALSE
    BY <1>0, <1>1 DEF Fit, Fresh
  <2>1. x.since > 0 /\ content[b] >= x.since  BY DEF Fit, Fresh
  <2>2. time <= x.since + Stall  BY <2>1 DEF Fit, InTime
  <2>3. content[b] + Grace < d.cut  BY DEF Fit, GivenUp
  <2>4. d.cut <= time  BY DEF Fit, Outlives, Cutting
  <2>. QED  BY <1>0, <2>1, <2>2, <2>3, <2>4
<1>4. \A r \in rows : \A b \in r.files : b \in exposed \/ content'[b] = content[b]
  BY <1>0, <1>1, NamedNotDead
<1>5. Spares(x)'
  <2>. SUFFICES ASSUME Reading(x), NEW r \in rows, r.tab \notin Unread(x), NEW b \in r.files
                PROVE  b \in x.live \cup exposed \/ content'[b] + Stall >= x.since
    BY DEF Fit, Spares, Unread, Reading
  <2>. QED  BY <1>4 DEF Fit, Spares
<1>6. Outlives(x)'
  <2>. SUFFICES ASSUME Cutting(x), NEW r \in rows, NEW b \in r.files
                PROVE  b \in x.live \cup exposed \/ content'[b] + Grace >= x.cut
    BY DEF Fit, Outlives, Cutting
  <2>. QED  BY <1>4 DEF Fit, Outlives
<1>7. GivenUp(x)'
  <2>1. \A b \in x.dead : content'[b] \in Nat /\ content'[b] <= content[b]  BY <1>0, <1>1
  <2>. QED  BY <1>0, <2>1 DEF Fit, GivenUp
<1>8. Displaced(x)'  BY DEF Fit, Displaced, Above, Of
<1>. QED  BY <1>2, <1>3, <1>5, <1>6, <1>7, <1>8 DEF Fit

LEMMA TimePasses ==
  ASSUME Values, time' = time + 1, UNCHANGED <<content, rows, next, exposed>>,
         NEW x \in Acts, Fit(x), x.since > 0 => time < x.since + Stall
  PROVE  Fit(x)'
PROOF
<1>0. x.since \in Nat /\ x.cut \in Nat /\ Stall \in Nat /\ time \in Nat
  BY StoreAssumption, TypeFacts DEF Acts
<1>1. Ready(x)' /\ InTime(x)'  BY <1>0 DEF Fit, Ready, InTime
<1>2. Outlives(x)'  BY <1>0 DEF Fit, Outlives, Cutting
<1>3. Fresh(x)' /\ Spares(x)' /\ GivenUp(x)' /\ Displaced(x)'
  BY DEF Fit, Fresh, Spares, GivenUp, Displaced, Reading, Unread, Above, Of
<1>. QED  BY <1>1, <1>2, <1>3 DEF Fit

LEMMA HighestId ==
  ASSUME Values, NEW R \in SUBSET rows, R # {}
  PROVE  \E r \in R : \A s \in R : s.id <= r.id
PROOF
<1>. DEFINE H == {MaxRows - s.id : s \in R}
<1>0. \A s \in R : s.id \in 0 .. MaxRows  BY TypeFacts
<1>1. H \subseteq Nat /\ H # {}
  <2>1. \A s \in R : MaxRows - s.id \in Nat  BY <1>0, StoreAssumption
  <2>. QED  BY <2>1
<1>2. PICK h \in H : \A k \in H : ~ (<<k, h>> \in OpToRel(<, Nat))
  BY <1>1, WFMin, NatLessThanWellFounded
<1>3. h \in Nat /\ \A k \in H : k \in Nat /\ ~ (k < h)
  BY <1>1, <1>2, Zenon DEF OpToRel
<1>4. PICK r \in R : h = MaxRows - r.id  OBVIOUS
<1>5. ASSUME NEW s \in R  PROVE s.id <= r.id
  <2>1. ~ (MaxRows - s.id < MaxRows - r.id)  BY <1>3, <1>4
  <2>. QED  BY <1>0, <2>1, StoreAssumption
<1>. QED  BY <1>5

LEMMA NewestIn ==
  ASSUME Values, NEW R \in SUBSET rows, R # {}
  PROVE  Newest(R) \in R
PROOF BY HighestId DEF Newest

\* What one trim takes leaves every version another trim has chosen displaced:
\* above the highest version taken, the newest are as many as before.
LEMMA VersionsTaken ==
  ASSUME Values, NEW d \in Acts, Fit(d), d.pc = "cut", NEW gone \in SUBSET rows,
         \A r \in gone : r.id \in d.trim, rows' = rows \ gone,
         UNCHANGED <<time, content, next, exposed>>,
         NEW x \in Acts, Fit(x)
  PROVE  Fit(x)'
PROOF
<1>1. Ready(x)' /\ InTime(x)' /\ Fresh(x)' /\ GivenUp(x)'
  BY DEF Fit, Ready, InTime, Fresh, GivenUp
<1>2. Spares(x)' /\ Outlives(x)'
  BY DEF Fit, Spares, Outlives, Reading, Cutting, Unread
<1>3. Displaced(x)'
  <2>. SUFFICES ASSUME x.pc = "cut", NEW r \in rows', r.id \in x.trim
                PROVE  r.tab \in Series /\ Cardinality(Above(r.tab, r.id)') >= Keep
    BY DEF Fit, Displaced, Above, Of
  <2>1. r \in rows /\ r.tab \in Series /\ Cardinality(Above(r.tab, r.id)) >= Keep
    BY DEF Fit, Displaced
  <2>. DEFINE G == {s \in gone : s.tab = r.tab /\ s.id > r.id}
  <2>2. Above(r.tab, r.id)' \subseteq 0 .. MaxRows
    BY TypeFacts DEF Above, Of
  <2>3. IsFiniteSet(Above(r.tab, r.id)')  BY <2>2, IdsFinite
  <2>4. CASE G = {}
    <3>1. Above(r.tab, r.id) \subseteq Above(r.tab, r.id)'  BY <2>4 DEF Above, Of
    <3>. QED  BY <2>1, <2>3, <3>1, AboveGrows
  <2>5. CASE G # {}
    <3>4. PICK m \in G : \A s \in G : s.id <= m.id
      <4>1. G \in SUBSET rows  OBVIOUS
      <4>. QED  BY <2>5, <4>1, HighestId
    <3>5. m \in rows /\ m.id \in d.trim /\ m.tab = r.tab /\ m.id > r.id /\ m.id \in Nat /\ r.id \in Nat
      BY TypeFacts
    <3>6. Cardinality(Above(m.tab, m.id)) >= Keep
      BY <3>5 DEF Fit, Displaced
    <3>7. ASSUME NEW s \in rows, s.tab = r.tab, s.id > m.id  PROVE s \in rows' /\ s.id > r.id
      <4>1. s.id \in Nat  BY TypeFacts
      <4>2. s.id > r.id  BY <3>5, <3>7, <4>1
      <4>3. s \notin G  BY <3>4, <3>5, <3>7, <4>1
      <4>. QED  BY <3>7, <4>2, <4>3
    <3>8. Above(m.tab, m.id) \subseteq Above(r.tab, r.id)'
      BY <3>5, <3>7 DEF Above, Of
    <3>. QED  BY <2>1, <2>3, <3>6, <3>8, AboveGrows
  <2>. QED  BY <2>4, <2>5
<1>. QED  BY <1>1, <1>2, <1>3 DEF Fit

-------------------------------------------------------------------------------
(* Steps: every action keeps the invariant.  An actor's own record is weighed *)
(* as one y, whatever the operation makes of it.                              *)

LEMMA AfterTrimFits ==
  ASSUME Values, rows' \subseteq RowSet, time' \in Nat, NEW x \in Acts, Ready(x),
         NEW y \in {AfterTrim(x)}, x.pc \in {"trim", "cut"}
  PROVE  y \in Acts /\ Fit(y)'
PROOF
<1>1. CASE x.plan # <<>>
  <2>1. Head(x.plan) \in Series /\ Tail(x.plan) \in Seq(Series)  BY <1>1, Elements DEF Acts
  <2>2. y = TrimOf(x, Head(x.plan), Tail(x.plan))  BY <1>1 DEF AfterTrim
  <2>3. /\ y \in Acts /\ y.pc = "trim" /\ y.tab \in Series /\ y.since = 0 /\ y.dead = {}
        /\ y.commit = x.commit /\ y.then = x.then
    <3>1. PICK t \in Series : t = Head(x.plan)  BY <2>1
    <3>2. PICK p \in Seq(Series) : p = Tail(x.plan)  BY <2>1
    <3>3. t \in Tables /\ y = TrimOf(x, t, p)  BY <2>2, <3>1, <3>2 DEF Tables
    <3>. QED  BY <3>3, TrimOfFields
  <2>4. Ready(y) /\ InTime(y)'  BY <2>3 DEF Ready, InTime
  <2>5. y.pc \in Quiet  BY <2>3 DEF Quiet, Pcs
  <2>. QED  BY <2>3, <2>4, <2>5, QuietFits
<1>2. CASE x.plan = <<>> /\ x.took
  <2>. DEFINE z == TrimOf(x, x.tab, <<>>)
              q == <<"scenarios", "setup", "run", "report">>
  <2>1. <<>> \in Seq(Series)  BY EmptySeq
  <2>a. x.tab \in Tables  BY DEF Acts
  <2>b. x.tab \in Series  BY DEF Ready
  <2>2. /\ z \in Acts /\ z.tab = x.tab /\ z.since = 0 /\ z.dead = {}
        /\ z.commit = x.commit /\ z.then = x.then /\ z.pool = "guard"
    <3>1. PICK t \in Tables : t = x.tab  BY <2>a
    <3>2. PICK p \in Seq(Series) : p = <<>>  BY <2>1
    <3>3. z = TrimOf(x, t, p)  BY <3>1, <3>2
    <3>. QED  BY <3>1, <3>3, TrimOfFields
  <2>. HIDE DEF z
  <2>3. y = [z EXCEPT !.pc = "live", !.read = q]  BY <1>2 DEF AfterTrim, z
  <2>4. q \in Seq(Tables) /\ {q[i] : i \in DOMAIN q} = Tables
    <3>1. q \in Seq(Tables)  BY DEF Tables, Series
    <3>2. DOMAIN q = 1 .. 4 /\ q[1] = "scenarios" /\ q[2] = "setup" /\ q[3] = "run" /\ q[4] = "report"
      OBVIOUS
    <3>. QED  BY <3>1, <3>2 DEF Tables, Series
  <2>. HIDE DEF q
  <2>5. y \in Acts  BY <2>2, <2>3, <2>4 DEF Acts, Pcs
  <2>6. /\ y.pc = "live" /\ y.read = q /\ y.since = 0 /\ y.dead = {} /\ y.then = x.then
        /\ y.commit = x.commit /\ y.pool = "guard"
    BY <2>2, <2>3 DEF Acts
  <2>7. Unread(y) = Tables  BY <2>4, <2>6 DEF Unread
  <2>8. Ready(y)' /\ InTime(y)' /\ Fresh(y)' /\ Outlives(y)' /\ GivenUp(y)' /\ Displaced(y)'
    BY <2>6 DEF Ready, InTime, Fresh, Outlives, GivenUp, Displaced, Cutting
  <2>9. Spares(y)'  BY <2>6, <2>7 DEF Spares, RowSet, Unread
  <2>. QED  BY <2>5, <2>8, <2>9 DEF Fit
<1>3. CASE x.plan = <<>> /\ ~ x.took
  <2>1. y = Return(x)  BY <1>3 DEF AfterTrim
  <2>2. /\ y \in Acts /\ y.pc = x.then /\ y.commit = (IF x.then = "idle" THEN 0 ELSE x.commit)
        /\ y.since = 0 /\ y.dead = {} /\ y.then = "idle" /\ y.pc \in Thens
    BY <2>1, ReturnFields DEF Acts
  <2>3. Ready(y) /\ InTime(y)'  BY <2>2 DEF Ready, InTime, Thens
  <2>4. y.pc \in Quiet  BY <2>2 DEF Quiet, Pcs, Thens
  <2>. QED  BY <2>2, <2>3, <2>4, QuietFits
<1>. QED  BY <1>1, <1>2, <1>3 DEF Acts

LEMMA OnlyMoves ==
  ASSUME Inv, UNCHANGED <<time, content, rows, next, restarts, exposed>>,
         NEW a \in Everyone, NEW y \in Acts, act' = [act EXCEPT ![a] = y], Fit(y)'
  PROVE  Inv'
PROOF
<1>1. \A s \in Everyone : \A x \in Acts : x = act[s] /\ Fit(x) => Fit(x)'
  BY NothingWritten
<1>2. act' \in [Everyone -> Acts] /\ AllFit'
  BY <1>1, OneMoves DEF Inv, Values
<1>3. Values'  BY <1>2 DEF Inv, Values, TypeOK
<1>4. LostOnlyInTheGap'  BY DEF Inv, LostOnlyInTheGap, Stored
<1>. QED  BY <1>2, <1>3, <1>4 DEF Inv

LEMMA RowInserted ==
  ASSUME Inv, NEW tab \in Tables, NEW commit \in Commits, NEW files \in SUBSET Bodies,
         NEW pair \in 0 .. MaxRows, NEW from \in 0 .. MaxRows,
         Insert(tab, commit, files, pair, from), UNCHANGED <<time, content, restarts>>,
         exposed \subseteq exposed', exposed' \subseteq Bodies,
         \A b \in files :
           \/ b \in exposed'
           \/ content[b] > 0 /\ content[b] + Stall >= time
           \/ content[b] > 0 /\ (\A s \in Everyone : Passed(act[s], tab) => b \in act[s].live),
         NEW a \in Everyone, NEW y \in Acts, act' = [act EXCEPT ![a] = y], Fit(y)'
  PROVE  Inv'
PROOF
<1>. DEFINE r0 == [id |-> next, tab |-> tab, commit |-> commit, files |-> files,
                   pair |-> pair, from |-> from, made |-> time]
<1>0. Values  BY DEF Inv
<1>1. next \in 1 .. MaxRows /\ next' = next + 1 /\ rows' = rows \cup {r0}
  BY <1>0, StoreAssumption DEF Insert, Values, TypeOK
<1>2. r0 \in RowSet /\ r0.id = next /\ r0.tab = tab /\ r0.files = files
  BY <1>0, <1>1 DEF RowSet, Values, TypeOK
<1>. HIDE DEF r0
<1>3. act' \in [Everyone -> Acts]  BY <1>0 DEF Values
<1>4. Values'
  <2>1. rows' \subseteq RowSet  BY <1>0, <1>1, <1>2 DEF Values, TypeOK
  <2>2. \A r \in rows', s \in rows' : r.id = s.id => r = s
    BY <1>0, <1>1, <1>2, TypeFacts
  <2>3. next' \in 1 .. MaxRows + 1 /\ \A r \in rows' : r.id < next'
    BY <1>0, <1>1, <1>2, TypeFacts, StoreAssumption
  <2>. QED  BY <1>0, <1>3, <2>1, <2>2, <2>3 DEF Values, TypeOK
<1>5. ASSUME NEW s \in Everyone, NEW x \in Acts, x = act[s], Fit(x)  PROVE Fit(x)'
  BY <1>0, <1>1, <1>2, <1>4, <1>5, RowLands
<1>6. AllFit'  BY <1>0, <1>5, OneMoves DEF Inv, Values
<1>7. LostOnlyInTheGap'  BY <1>1, <1>2 DEF Inv, LostOnlyInTheGap, Stored
<1>. QED  BY <1>4, <1>6, <1>7 DEF Inv

LEMMA StepBeginSave ==
  ASSUME Inv, NEW a \in Everyone, NEW tab \in {"scenarios", "setup"}, NEW commit \in Commits,
         NEW files \in SUBSET GuardBodies, BeginSave(a, tab, commit, files)
  PROVE  Inv'
PROOF
<1>. DEFINE y == [Idle EXCEPT !.pc = "put", !.tab = tab, !.commit = commit, !.files = files,
                              !.todo = files]
<1>1. y \in Acts  BY IdleFields DEF Acts, Pcs, Tables, Series, Bodies
<1>2. /\ y.pc = "put" /\ y.tab = tab /\ y.commit = commit /\ y.files = files /\ y.todo = files
      /\ y.since = 0 /\ y.dead = {} /\ y.then = "idle"
BY IdleFields DEF Idle
<1>3. act' = [act EXCEPT ![a] = y]  BY DEF BeginSave, Become
<1>. HIDE DEF y
<1>4. Fit(y)'
  <2>1. Ready(y)' /\ InTime(y)'  BY <1>2, TypeFacts DEF Ready, InTime, Inv, BeginSave
  <2>2. Fresh(y)' /\ Spares(y)' /\ Outlives(y)' /\ GivenUp(y)' /\ Displaced(y)'
    BY <1>2 DEF Fresh, Spares, Outlives, GivenUp, Displaced, Reading, Cutting
  <2>. QED  BY <2>1, <2>2 DEF Fit
<1>. QED  BY <1>1, <1>3, <1>4, OnlyMoves DEF BeginSave

LEMMA StepBeginBlocked ==
  ASSUME Inv, NEW a \in Everyone, NEW commit \in Commits, BeginBlocked(a, commit)
  PROVE  Inv'
PROOF
<1>. DEFINE y == [Idle EXCEPT !.pc = "pair", !.commit = commit]
<1>1. y \in Acts  BY IdleFields DEF Acts, Pcs
<1>2. y.pc = "pair" /\ y.commit = commit /\ y.since = 0 /\ y.dead = {} /\ y.then = "idle"
  BY DEF Idle
<1>3. act' = [act EXCEPT ![a] = y]  BY DEF BeginBlocked, Become
<1>. HIDE DEF y
<1>4. Ready(y) /\ InTime(y)' /\ y.pc \in Quiet
  BY <1>2, TypeFacts DEF Ready, InTime, Quiet, Pcs, Inv, BeginBlocked
<1>5. Fit(y)'  BY <1>1, <1>2, <1>4, QuietFits
<1>. QED  BY <1>1, <1>3, <1>5, OnlyMoves DEF BeginBlocked

LEMMA StepBeginRun ==
  ASSUME Inv, NEW a \in Everyone, NEW commit \in Commits, NEW files \in SUBSET Evidence,
         BeginRun(a, commit, files)
  PROVE  Inv'
PROOF
<1>. DEFINE w == [Idle EXCEPT !.pc = "put", !.tab = "run", !.own = next, !.files = files,
                              !.todo = files]
<1>0. next \in 0 .. MaxRows
  BY StoreAssumption DEF BeginRun, Insert, Inv, Values, TypeOK
<1>w. w \in Acts  BY <1>0, IdleFields DEF Acts, Pcs, Tables, Bodies
<1>1. PICK y \in Acts : y = w  BY <1>w
<1>2. /\ y.pc = "put" /\ y.tab = "run" /\ y.files = files /\ y.todo = files
      /\ y.since = 0 /\ y.dead = {} /\ y.then = "idle"
BY <1>1 DEF Idle
<1>3. act' = [act EXCEPT ![a] = y]  BY <1>1 DEF BeginRun, Become
<1>. HIDE DEF w
<1>4. Fit(y)'
  <2>1. Ready(y)' /\ InTime(y)'  BY <1>2, TypeFacts DEF Ready, InTime, Inv, BeginRun
  <2>2. Fresh(y)' /\ Spares(y)' /\ Outlives(y)' /\ GivenUp(y)' /\ Displaced(y)'
    BY <1>2 DEF Fresh, Spares, Outlives, GivenUp, Displaced, Reading, Cutting
  <2>. QED  BY <2>1, <2>2 DEF Fit
<1>5. "run" \in Tables /\ 0 \in 0 .. MaxRows /\ {} \in SUBSET Bodies /\ exposed \subseteq Bodies
  BY StoreAssumption, TypeFacts DEF Tables, Inv
<1>6. /\ Insert("run", commit, {}, 0, 0) /\ UNCHANGED <<time, content, restarts>>
      /\ exposed' = exposed
BY DEF BeginRun
<1>. QED  BY <1>1, <1>3, <1>4, <1>5, <1>6, RowInserted

LEMMA StepPutBody ==
  ASSUME Inv, NEW a \in Everyone, NEW b \in act[a].todo, PutBody(a, b)
  PROVE  Inv'
PROOF
<1>0. Values /\ AllFit  BY DEF Inv
<1>1. PICK x \in Acts : x = act[a] /\ Fit(x)  BY <1>0 DEF Values, AllFit
<1>. DEFINE w == [x EXCEPT !.todo = @ \ {b}, !.since = IF @ = 0 THEN time ELSE @]
<1>a. /\ x.since \in Nat /\ x.todo \subseteq Bodies /\ x.files \subseteq Bodies /\ x.dead \subseteq Bodies
      /\ b \in x.todo /\ b \in Bodies /\ x.pc = "put"
BY <1>1 DEF Acts, PutBody
<1>b. /\ time \in Nat /\ time > 0 /\ time' = time /\ rows' = rows /\ next' = next /\ restarts' = restarts
      /\ \A c \in Bodies : content[c] \in Nat /\ content'[c] = (IF c = b THEN time ELSE content[c])
      /\ content' = [content EXCEPT ![b] = time]
      /\ exposed \subseteq exposed' /\ exposed' \subseteq Bodies /\ Stall \in Nat
      /\ \A s \in Everyone : b \in act[s].dead => b \in exposed'
BY <1>0, <1>a, StoreAssumption, TypeFacts DEF PutBody, Values, TypeOK
<1>w. w \in Acts  BY <1>a, <1>b DEF Acts
<1>2. PICK y \in Acts : y = w  BY <1>w
<1>3. /\ y.pc = x.pc /\ y.tab = x.tab /\ y.commit = x.commit /\ y.files = x.files /\ y.then = x.then
      /\ y.todo = x.todo \ {b} /\ y.since = (IF x.since = 0 THEN time ELSE x.since) /\ y.dead = x.dead
  BY <1>2 DEF Acts
<1>4. act' = [act EXCEPT ![a] = y]  BY <1>1, <1>2 DEF PutBody
<1>. HIDE DEF w
<1>5. Fit(y)'
  <2>1. Ready(y)'  BY <1>1, <1>3, <1>a DEF Ready, Fit
  <2>2. InTime(y)'  BY <1>1, <1>3, <1>a, <1>b DEF InTime, Fit
  <2>3. Fresh(y)'
    <3>. SUFFICES ASSUME NEW c \in x.files \ y.todo, c \notin exposed'
                  PROVE  y.since > 0 /\ content'[c] >= y.since
      BY <1>3 DEF Fresh
    <3>1. CASE c = b  BY <3>1, <1>1, <1>3, <1>a, <1>b DEF Fit, InTime
    <3>2. CASE c # b
      <4>1. c \in x.files \ x.todo /\ c \notin exposed  BY <3>2, <1>3, <1>b
      <4>2. x.since > 0 /\ content[c] >= x.since  BY <4>1, <1>1, <1>a DEF Fit, Fresh
      <4>. QED  BY <4>2, <3>2, <1>3, <1>a, <1>b
    <3>. QED  BY <3>1, <3>2
  <2>4. GivenUp(y)'
    BY <1>1, <1>3, <1>a, <1>b DEF Fit, GivenUp
  <2>5. Spares(y)' /\ Outlives(y)' /\ Displaced(y)'
    BY <1>3, <1>a DEF Spares, Outlives, Displaced, Reading, Cutting
  <2>. QED  BY <2>1, <2>2, <2>3, <2>4, <2>5 DEF Fit
<1>6. ASSUME NEW s \in Everyone, NEW z \in Acts, z = act[s], Fit(z)  PROVE Fit(z)'
  BY <1>0, <1>6, <1>a, <1>b, BodyPut
<1>7. act' \in [Everyone -> Acts] /\ AllFit'
  BY <1>0, <1>2, <1>4, <1>5, <1>6, OneMoves DEF Values
<1>8. Values'
  <2>1. content' \in [Bodies -> 0 .. MaxTime]
    <3>1. time \in 0 .. MaxTime /\ content \in [Bodies -> 0 .. MaxTime]
      BY <1>0, StoreAssumption DEF Values, TypeOK
    <3>. QED  BY <1>b, <3>1
  <2>. QED  BY <1>0, <1>7, <1>b, <2>1 DEF Values, TypeOK
<1>9. LostOnlyInTheGap'
  BY <1>b DEF Inv, LostOnlyInTheGap, Stored
<1>. QED  BY <1>7, <1>8, <1>9 DEF Inv

LEMMA StepInsertVersion ==
  ASSUME Inv, NEW a \in Everyone, InsertVersion(a)
  PROVE  Inv'
PROOF
<1>0. Values /\ AllFit  BY DEF Inv
<1>1. PICK x \in Acts : x = act[a] /\ Fit(x)  BY <1>0 DEF Values, AllFit
<1>a. /\ x.pc = "put" /\ x.todo = {} /\ x.tab \in {"scenarios", "setup"}
      /\ Insert(x.tab, x.commit, x.files, 0, 0)
      /\ UNCHANGED <<time, content, restarts>> /\ exposed' = exposed
BY <1>1 DEF InsertVersion
<1>b. x.commit \in Commits /\ x.tab \in Series  BY <1>1, <1>a DEF Fit, Ready, Series
<1>c. next \in 0 .. MaxRows  BY <1>0, <1>a, StoreAssumption DEF Insert, Values, TypeOK
<1>2. PICK t \in Tables : t = x.tab  BY <1>b DEF Tables
<1>3. PICK p \in Seq(Series) : p = <<>>  BY EmptySeq
<1>. DEFINE z == TrimOf(Idle, t, p)
            w == [z EXCEPT !.commit = x.commit, !.own = next,
                           !.then = IF x.tab = "scenarios" THEN "pair" ELSE "idle"]
<1>4. z \in Acts /\ z.pc = "trim" /\ z.tab = t /\ z.since = 0 /\ z.dead = {}
  BY IdleFields, TrimOfFields
<1>5. act' = [act EXCEPT ![a] = w]  BY <1>1, <1>2, <1>3 DEF InsertVersion, Become
<1>. HIDE DEF z
<1>w. w \in Acts  BY <1>4, <1>b, <1>c DEF Acts, Thens
<1>6. PICK y \in Acts : y = w  BY <1>w
<1>7. y.pc = "trim" /\ y.tab = x.tab /\ y.since = 0 /\ y.dead = {} /\ y.commit = x.commit
  BY <1>2, <1>4, <1>6 DEF Acts
<1>. HIDE DEF w
<1>8. Ready(y) /\ InTime(y)' /\ y.pc \in Quiet
  BY <1>0, <1>7, <1>a, <1>b, TypeFacts DEF Ready, InTime, Quiet, Pcs
<1>9. Fit(y)'  BY <1>6, <1>7, <1>8, QuietFits
<1>10. /\ x.tab \in Tables /\ 0 \in 0 .. MaxRows /\ x.files \in SUBSET Bodies /\ exposed \subseteq Bodies
       /\ x.since \in Nat /\ Stall \in Nat /\ time \in Nat /\ \A b \in Bodies : content[b] \in Nat
  <2>1. x.files \in SUBSET Bodies /\ x.since \in Nat  BY DEF Acts
  <2>. QED  BY <1>0, <1>2, <2>1, StoreAssumption, TypeFacts
<1>11. \A b \in x.files : b \in exposed' \/ (content[b] > 0 /\ content[b] + Stall >= time)
  <2>. TAKE b \in x.files
  <2>1. b \in exposed \/ (x.since > 0 /\ content[b] >= x.since)  BY <1>1, <1>a DEF Fit, Fresh
  <2>2. x.since > 0 => time <= x.since + Stall  BY <1>1 DEF Fit, InTime
  <2>. QED  BY <2>1, <2>2, <1>10, <1>a
<1>. QED  BY <1>5, <1>6, <1>9, <1>10, <1>11, <1>a, <1>b, RowInserted

LEMMA StepReadPair ==
  ASSUME Inv, NEW a \in Everyone, ReadPair(a)
  PROVE  Inv'
PROOF
<1>0. Values /\ AllFit  BY DEF Inv
<1>1. PICK x \in Acts : x = act[a] /\ Fit(x)  BY <1>0 DEF Values, AllFit
<1>. DEFINE sets == {r \in Of("scenarios") : r.commit = x.commit}
            k == IF sets = {} THEN 0 ELSE Newest(sets).id
            w == [x EXCEPT !.pc = "report", !.cut = k]
<1>2. k \in 0 .. MaxRows
  <2>1. sets \in SUBSET rows  BY DEF Of
  <2>2. CASE sets # {}
    <3>1. Newest(sets) \in rows  BY <1>0, <2>1, <2>2, NewestIn
    <3>. QED  BY <1>0, <2>2, <3>1, TypeFacts
  <2>. QED  BY <2>2, StoreAssumption
<1>3. /\ act' = [act EXCEPT ![a] = w] /\ x.pc = "pair"
      /\ UNCHANGED <<time, content, rows, next, restarts, exposed>>
  BY <1>1 DEF ReadPair
<1>. HIDE DEF k
<1>4. k \in Nat /\ "report" \in Pcs  BY <1>2, StoreAssumption DEF Pcs
<1>w. w \in Acts  BY <1>4 DEF Acts
<1>5. PICK y \in Acts : y = w  BY <1>w
<1>6. /\ y.pc = "report" /\ y.cut = k /\ y.commit = x.commit /\ y.since = x.since /\ y.dead = x.dead
      /\ y.then = x.then
BY <1>5 DEF Acts
<1>. HIDE DEF w
<1>7. Ready(y)  BY <1>1, <1>2, <1>3, <1>6 DEF Fit, Ready
<1>8. InTime(y)' /\ y.pc \in Quiet  BY <1>1, <1>3, <1>6 DEF Fit, InTime, Quiet, Pcs
<1>9. y.dead \subseteq exposed'  BY <1>1, <1>3, <1>6 DEF Fit, GivenUp
<1>10. Fit(y)'  BY <1>5, <1>7, <1>8, <1>9, QuietFits
<1>. QED  BY <1>3, <1>5, <1>10, OnlyMoves

LEMMA StepInsertReport ==
  ASSUME Inv, NEW a \in Everyone, InsertReport(a)
  PROVE  Inv'
PROOF
<1>0. Values /\ AllFit  BY DEF Inv
<1>1. PICK x \in Acts : x = act[a] /\ Fit(x)  BY <1>0 DEF Values, AllFit
<1>a. /\ x.pc = "report" /\ Insert("report", x.commit, {}, x.cut, 0)
      /\ UNCHANGED <<time, content, restarts>> /\ exposed' = exposed
BY <1>1 DEF InsertReport
<1>b. x.commit \in Commits /\ x.cut \in 0 .. MaxRows  BY <1>1, <1>a DEF Fit, Ready
<1>2. PICK t \in Tables : t = "report"  BY DEF Tables, Series
<1>3. PICK p \in Seq(Series) : p = <<>>  BY EmptySeq
<1>. DEFINE z == TrimOf(Idle, t, p)
            y == [z EXCEPT !.commit = x.commit, !.then = IF x.own = 0 THEN "idle" ELSE "evidence"]
<1>4. z \in Acts /\ z.pc = "trim" /\ z.tab = t /\ z.since = 0 /\ z.dead = {}
  BY IdleFields, TrimOfFields
<1>5. act' = [act EXCEPT ![a] = y]  BY <1>1, <1>2, <1>3 DEF InsertReport, Become
<1>. HIDE DEF z
<1>6. y \in Acts  BY <1>4, <1>b DEF Acts, Thens
<1>7. y.pc = "trim" /\ y.tab = "report" /\ y.since = 0 /\ y.dead = {} /\ y.commit = x.commit
  BY <1>2, <1>4 DEF Acts
<1>. HIDE DEF y
<1>8. Ready(y) /\ InTime(y)' /\ y.pc \in Quiet
  BY <1>0, <1>7, <1>a, <1>b, TypeFacts DEF Ready, InTime, Quiet, Pcs, Series
<1>9. Fit(y)'  BY <1>6, <1>7, <1>8, QuietFits
<1>10. "report" \in Tables /\ 0 \in 0 .. MaxRows /\ {} \in SUBSET Bodies /\ exposed \subseteq Bodies
  BY <1>0, <1>2, StoreAssumption, TypeFacts
<1>. QED  BY <1>5, <1>6, <1>9, <1>10, <1>a, <1>b, RowInserted

LEMMA IdleFits ==
  ASSUME time' \in Nat
  PROVE  Idle \in Acts /\ Fit(Idle)'
PROOF
<1>1. Ready(Idle) /\ InTime(Idle)' /\ Idle.pc \in Quiet
  BY IdleFields DEF Ready, InTime, Quiet, Pcs
<1>. QED  BY <1>1, IdleFields, QuietFits

LEMMA StepBeginEvidence ==
  ASSUME Inv, NEW a \in Everyone, NEW files \in SUBSET Evidence, BeginEvidence(a, files)
  PROVE  Inv'
PROOF
<1>0. Values /\ AllFit  BY DEF Inv
<1>1. PICK x \in Acts : x = act[a] /\ Fit(x)  BY <1>0 DEF Values, AllFit
<1>a. /\ x.pc = "evidence" /\ UNCHANGED <<time, content, rows, next, restarts, exposed>>
      /\ time \in Nat
BY <1>0, <1>1, TypeFacts DEF BeginEvidence
<1>b. x.commit \in Commits  BY <1>1, <1>a DEF Fit, Ready
<1>2. CASE files = {}
  <2>1. act' = [act EXCEPT ![a] = Idle]  BY <1>1, <1>2 DEF BeginEvidence, Become
  <2>. QED  BY <1>a, <2>1, IdleFits, OnlyMoves
<1>3. CASE files # {}
  <2>. DEFINE y == [Idle EXCEPT !.pc = "put", !.tab = "report", !.commit = x.commit,
                                !.files = files, !.todo = files]
  <2>1. y \in Acts  BY <1>b, IdleFields DEF Acts, Pcs, Tables, Series, Bodies
  <2>2. /\ y.pc = "put" /\ y.tab = "report" /\ y.files = files /\ y.todo = files
        /\ y.commit = x.commit /\ y.since = 0 /\ y.dead = {} /\ y.then = "idle"
    BY DEF Idle
  <2>3. act' = [act EXCEPT ![a] = y]  BY <1>1, <1>3 DEF BeginEvidence, Become
  <2>. HIDE DEF y
  <2>4. Ready(y)' /\ InTime(y)'  BY <1>a, <1>b, <2>2 DEF Ready, InTime
  <2>5. Fresh(y)' /\ Spares(y)' /\ Outlives(y)' /\ GivenUp(y)' /\ Displaced(y)'
    BY <2>2 DEF Fresh, Spares, Outlives, GivenUp, Displaced, Reading, Cutting
  <2>6. Fit(y)'  BY <2>4, <2>5 DEF Fit
  <2>. QED  BY <1>a, <2>1, <2>3, <2>6, OnlyMoves
<1>. QED  BY <1>2, <1>3

LEMMA StepReadTarget ==
  ASSUME Inv, NEW a \in Everyone, ReadTarget(a)
  PROVE  Inv'
PROOF
<1>0. Values /\ AllFit  BY DEF Inv
<1>1. PICK x \in Acts : x = act[a] /\ Fit(x)  BY <1>0 DEF Values, AllFit
<1>a. /\ x.pc = "put" /\ x.todo = {} /\ x.tab = "report"
      /\ UNCHANGED <<time, content, rows, next, restarts, exposed>> /\ time \in Nat
BY <1>0, <1>1, TypeFacts DEF ReadTarget
<1>. DEFINE reports == {r \in Of("report") : r.commit = x.commit}
            k == Newest(reports).id
            w == [x EXCEPT !.pc = "attach", !.own = k]
<1>2. CASE reports = {}
  <2>1. act' = [act EXCEPT ![a] = Idle]  BY <1>1, <1>2 DEF ReadTarget, Become
  <2>. QED  BY <1>a, <2>1, IdleFits, OnlyMoves
<1>3. CASE reports # {}
  <2>1. reports \in SUBSET rows  BY DEF Of
  <2>2. Newest(reports) \in rows  BY <1>0, <1>3, <2>1, NewestIn
  <2>3. k \in 0 .. MaxRows  BY <1>0, <2>2, TypeFacts
  <2>4. act' = [act EXCEPT ![a] = w]  BY <1>1, <1>3 DEF ReadTarget, Become
  <2>. HIDE DEF k
  <2>5. w \in Acts  BY <2>3 DEF Acts, Pcs
  <2>6. PICK y \in Acts : y = w  BY <2>5
  <2>7. /\ y.pc = "attach" /\ y.tab = x.tab /\ y.files = x.files /\ y.todo = x.todo /\ y.commit = x.commit
        /\ y.since = x.since /\ y.dead = x.dead /\ y.then = x.then
    BY <2>6 DEF Acts
  <2>. HIDE DEF w
  <2>8. Ready(y)' /\ InTime(y)'  BY <1>1, <1>a, <2>7 DEF Fit, Ready, InTime
  <2>9. Fresh(y)' /\ GivenUp(y)'  BY <1>1, <1>a, <2>7 DEF Fit, Fresh, GivenUp
  <2>10. Spares(y)' /\ Outlives(y)' /\ Displaced(y)'
    BY <2>7 DEF Spares, Outlives, Displaced, Reading, Cutting
  <2>11. Fit(y)'  BY <2>8, <2>9, <2>10 DEF Fit
  <2>. QED  BY <1>a, <2>4, <2>6, <2>11, OnlyMoves
<1>. QED  BY <1>2, <1>3

LEMMA StepAttach ==
  ASSUME Inv, NEW a \in Everyone, Attach(a)
  PROVE  Inv'
PROOF
<1>0. Values /\ AllFit  BY DEF Inv
<1>1. PICK x \in Acts : x = act[a] /\ Fit(x)  BY <1>0 DEF Values, AllFit
<1>a. /\ x.pc = "attach" \/ (x.pc = "put" /\ x.todo = {})
      /\ rows' = {IF r.id = x.own THEN [r EXCEPT !.files = @ \cup x.files] ELSE r : r \in rows}
      /\ act' = [act EXCEPT ![a] = Idle]
      /\ UNCHANGED <<time, content, next, restarts, exposed>>
BY <1>1 DEF Attach, Become
<1>b. time' \in Nat /\ x.files \subseteq Bodies /\ x.since \in Nat
  <2>1. x.files \subseteq Bodies /\ x.since \in Nat  BY DEF Acts
  <2>. QED  BY <1>0, <1>a, <2>1, TypeFacts
<1>. DEFINE Merged(r) == IF r.id = x.own THEN [r EXCEPT !.files = @ \cup x.files] ELSE r
<1>2. /\ rows' = {Merged(r) : r \in rows}
      /\ \A r \in rows : /\ Merged(r) \in RowSet /\ Merged(r).id = r.id
                         /\ Merged(r).files \subseteq r.files \cup x.files
  <2>1. \A r \in rows : r \in RowSet  BY <1>0 DEF Values, TypeOK
  <2>2. \A r \in RowSet : [r EXCEPT !.files = @ \cup x.files] \in RowSet
    BY <1>b DEF RowSet
  <2>3. \A r \in RowSet : [r EXCEPT !.files = @ \cup x.files].files = r.files \cup x.files
    BY DEF RowSet
  <2>4. \A r \in RowSet : [r EXCEPT !.files = @ \cup x.files].id = r.id
    BY DEF RowSet
  <2>. QED  BY <1>a, <2>1, <2>2, <2>3, <2>4
<1>. HIDE DEF Merged
<1>3. ASSUME NEW s \in Everyone, NEW z \in Acts, z = act[s], Fit(z)  PROVE Fit(z)'
  BY <1>0, <1>1, <1>3, <1>a, EntriesMerge
<1>4. act' \in [Everyone -> Acts] /\ AllFit'
  BY <1>0, <1>3, <1>a, <1>b, IdleFits, OneMoves DEF Values
<1>5. Values'
  <2>1. rows' \subseteq RowSet  BY <1>2
  <2>2. \A r \in rows', s \in rows' : r.id = s.id => r = s
    <3>. TAKE q \in rows', t \in rows'
    <3>1. PICK r \in rows : q = Merged(r)  BY <1>2
    <3>2. PICK s \in rows : t = Merged(s)  BY <1>2
    <3>. QED  BY <1>0, <1>2, <3>1, <3>2, TypeFacts
  <2>3. \A r \in rows' : r.id < next'  BY <1>0, <1>2, <1>a, TypeFacts
  <2>. QED  BY <1>0, <1>4, <1>a, <2>1, <2>2, <2>3 DEF Values, TypeOK
<1>6. \A b \in x.files : b \in exposed \/ content[b] > 0
  <2>. TAKE b \in x.files
  <2>1. b \in exposed \/ (x.since > 0 /\ content[b] >= x.since)  BY <1>1, <1>a DEF Fit, Fresh, Ready
  <2>2. content[b] \in Nat  BY <1>0, <1>b, TypeFacts
  <2>. QED  BY <2>1, <2>2, <1>b
<1>7. LostOnlyInTheGap'
  <2>. SUFFICES ASSUME NEW q \in rows', NEW b \in q.files  PROVE b \in Bodies /\ (content[b] > 0 \/ b \in exposed)
    BY <1>a DEF LostOnlyInTheGap, Stored
  <2>1. PICK r \in rows : q = Merged(r)  BY <1>2
  <2>2. b \in r.files \/ b \in x.files  BY <1>2, <2>1
  <2>3. CASE b \in r.files
    <3>1. b \in Stored \cup exposed  BY <2>3 DEF Inv, LostOnlyInTheGap
    <3>. QED  BY <3>1, <1>0, TypeFacts DEF Stored
  <2>. QED  BY <1>6, <1>b, <2>2, <2>3
<1>. QED  BY <1>4, <1>5, <1>7 DEF Inv

LEMMA StepBeginRestore ==
  ASSUME Inv, NEW a \in Everyone, NEW r \in Of("scenarios"), BeginRestore(a, r)
  PROVE  Inv'
PROOF
<1>0. Values  BY DEF Inv
<1>1. r.commit \in Commits /\ r.files \subseteq Bodies /\ r.id \in 0 .. MaxRows
  BY <1>0, TypeFacts DEF Of
<1>2. UNCHANGED <<time, content, rows, next, restarts, exposed>> /\ time \in Nat
  BY <1>0, TypeFacts DEF BeginRestore
<1>. DEFINE w == [Idle EXCEPT !.pc = "copy", !.commit = r.commit, !.files = r.files, !.from = r.id]
<1>3. w \in Acts  BY <1>1, IdleFields DEF Acts, Pcs
<1>4. PICK y \in Acts : y = w  BY <1>3
<1>5. y.pc = "copy" /\ y.commit \in Commits /\ y.since = 0 /\ y.dead = {} /\ y.then = "idle"
  BY <1>1, <1>4 DEF Idle
<1>6. act' = [act EXCEPT ![a] = y]  BY <1>4 DEF BeginRestore, Become
<1>. HIDE DEF w
<1>7. Ready(y) /\ InTime(y)' /\ y.pc \in Quiet
  BY <1>2, <1>5 DEF Ready, InTime, Quiet, Pcs
<1>8. Fit(y)'  BY <1>5, <1>7, QuietFits
<1>. QED  BY <1>2, <1>6, <1>8, OnlyMoves

LEMMA StepCopySet ==
  ASSUME Inv, NEW a \in Everyone, CopySet(a)
  PROVE  Inv'
PROOF
<1>0. Values /\ AllFit  BY DEF Inv
<1>1. PICK x \in Acts : x = act[a] /\ Fit(x)  BY <1>0 DEF Values, AllFit
<1>a. /\ x.pc = "copy" /\ Insert("scenarios", x.commit, x.files, 0, x.from)
      /\ exposed' = exposed \cup {b \in x.files : Threatened("scenarios", b)}
      /\ UNCHANGED <<time, content, restarts>>
BY <1>1 DEF CopySet
<1>b. x.commit \in Commits /\ x.files \in SUBSET Bodies /\ x.from \in 0 .. MaxRows
  <2>1. x.commit \in Commits  BY <1>1, <1>a DEF Fit, Ready
  <2>2. x.files \in SUBSET Bodies /\ x.from \in 0 .. MaxRows  BY DEF Acts
  <2>. QED  BY <2>1, <2>2
<1>c. next \in 0 .. MaxRows  BY <1>0, <1>a, StoreAssumption DEF Insert, Values, TypeOK
<1>2. PICK t \in Tables : t = "scenarios"  BY DEF Tables, Series
<1>3. PICK p \in Seq(Series) : p = <<>>  BY EmptySeq
<1>. DEFINE z == TrimOf(Idle, t, p)
            w == [z EXCEPT !.own = next, !.from = x.from, !.then = "birth"]
<1>4. z \in Acts /\ z.pc = "trim" /\ z.tab = t /\ z.since = 0 /\ z.dead = {}
  BY IdleFields, TrimOfFields
<1>5. act' = [act EXCEPT ![a] = w]  BY <1>1, <1>2, <1>3 DEF CopySet, Become
<1>. HIDE DEF z
<1>w. w \in Acts  BY <1>4, <1>b, <1>c DEF Acts, Thens
<1>6. PICK y \in Acts : y = w  BY <1>w
<1>7. y.pc = "trim" /\ y.tab = "scenarios" /\ y.since = 0 /\ y.dead = {} /\ y.then = "birth"
  BY <1>2, <1>4, <1>6 DEF Acts
<1>. HIDE DEF w
<1>8. Ready(y) /\ InTime(y)' /\ y.pc \in Quiet
  BY <1>0, <1>7, <1>a, TypeFacts DEF Ready, InTime, Quiet, Pcs, Series
<1>9. Fit(y)'  BY <1>7, <1>8, QuietFits
<1>10. "scenarios" \in Tables /\ 0 \in 0 .. MaxRows
  BY <1>2, StoreAssumption
<1>11. exposed \subseteq exposed' /\ exposed' \subseteq Bodies
  BY <1>0, <1>a, <1>b, TypeFacts
<1>12. \A b \in x.files :
         b \in exposed' \/ (content[b] > 0 /\ (\A s \in Everyone : Passed(act[s], "scenarios") => b \in act[s].live))
  BY <1>a, <1>b DEF Threatened, Stored
<1>. QED  BY <1>5, <1>6, <1>9, <1>10, <1>11, <1>12, <1>a, <1>b, RowInserted

LEMMA StepReadBirth ==
  ASSUME Inv, NEW a \in Everyone, ReadBirth(a)
  PROVE  Inv'
PROOF
<1>0. Values /\ AllFit  BY DEF Inv
<1>1. PICK x \in Acts : x = act[a] /\ Fit(x)  BY <1>0 DEF Values, AllFit
<1>a. /\ x.pc = "birth" /\ UNCHANGED <<time, content, rows, next, restarts, exposed>> /\ time \in Nat
BY <1>0, <1>1, TypeFacts DEF ReadBirth
<1>. DEFINE reports == {r \in Of("report") : r.pair = x.from}
            n == Newest(reports)
            w == [x EXCEPT !.pc = "again", !.commit = n.commit, !.files = n.files, !.from = n.id]
<1>2. CASE reports = {}
  <2>1. act' = [act EXCEPT ![a] = Idle]  BY <1>1, <1>2 DEF ReadBirth, Become
  <2>. QED  BY <1>a, <2>1, IdleFits, OnlyMoves
<1>3. CASE reports # {}
  <2>1. reports \in SUBSET rows  BY DEF Of
  <2>2. n \in rows  BY <1>0, <1>3, <2>1, NewestIn
  <2>3. n.id \in 0 .. MaxRows /\ n.commit \in Commits /\ n.files \in SUBSET Bodies
    BY <1>0, <2>2, TypeFacts
  <2>4. act' = [act EXCEPT ![a] = w]  BY <1>1, <1>3 DEF ReadBirth, Become
  <2>. HIDE DEF n
  <2>5. w \in Acts  BY <2>3 DEF Acts, Pcs
  <2>6. PICK y \in Acts : y = w  BY <2>5
  <2>7. y.pc = "again" /\ y.commit = n.commit /\ y.since = x.since /\ y.dead = x.dead
    BY <2>6 DEF Acts
  <2>. HIDE DEF w
  <2>8. Ready(y) /\ InTime(y)' /\ y.pc \in Quiet
    BY <1>1, <1>a, <2>3, <2>7 DEF Fit, Ready, InTime, Quiet, Pcs
  <2>9. y.dead \subseteq exposed'  BY <1>1, <1>a, <2>7 DEF Fit, GivenUp
  <2>10. Fit(y)'  BY <2>8, <2>9, QuietFits
  <2>. QED  BY <1>a, <2>4, <2>6, <2>10, OnlyMoves
<1>. QED  BY <1>2, <1>3

LEMMA StepCopyReport ==
  ASSUME Inv, NEW a \in Everyone, CopyReport(a)
  PROVE  Inv'
PROOF
<1>0. Values /\ AllFit  BY DEF Inv
<1>1. PICK x \in Acts : x = act[a] /\ Fit(x)  BY <1>0 DEF Values, AllFit
<1>a. /\ x.pc = "again" /\ Insert("report", x.commit, x.files, x.own, x.from)
      /\ exposed' = exposed \cup {b \in x.files : Threatened("report", b)}
      /\ UNCHANGED <<time, content, restarts>>
BY <1>1 DEF CopyReport
<1>b. /\ x.commit \in Commits /\ x.files \in SUBSET Bodies /\ x.from \in 0 .. MaxRows
      /\ x.own \in 0 .. MaxRows
  <2>1. x.commit \in Commits  BY <1>1, <1>a DEF Fit, Ready
  <2>2. x.files \in SUBSET Bodies /\ x.from \in 0 .. MaxRows /\ x.own \in 0 .. MaxRows  BY DEF Acts
  <2>. QED  BY <2>1, <2>2
<1>2. PICK t \in Tables : t = "report"  BY DEF Tables, Series
<1>3. PICK p \in Seq(Series) : p = <<>>  BY EmptySeq
<1>4. PICK y \in Acts : y = TrimOf(Idle, t, p)  BY IdleFields, TrimOfFields
<1>5. y.pc = "trim" /\ y.tab = t /\ y.since = 0 /\ y.dead = {} /\ y.then = "idle"
  BY <1>4, IdleFields, TrimOfFields
<1>6. act' = [act EXCEPT ![a] = y]  BY <1>1, <1>2, <1>3, <1>4 DEF CopyReport, Become
<1>7. Ready(y) /\ InTime(y)' /\ y.pc \in Quiet
  BY <1>0, <1>2, <1>5, <1>a, TypeFacts DEF Ready, InTime, Quiet, Pcs, Series
<1>8. Fit(y)'  BY <1>5, <1>7, QuietFits
<1>9. "report" \in Tables  BY <1>2
<1>10. exposed \subseteq exposed' /\ exposed' \subseteq Bodies
  BY <1>0, <1>a, <1>b, TypeFacts
<1>11. \A b \in x.files :
         b \in exposed' \/ (content[b] > 0 /\ (\A s \in Everyone : Passed(act[s], "report") => b \in act[s].live))
  BY <1>a, <1>b DEF Threatened, Stored
<1>. QED  BY <1>6, <1>8, <1>9, <1>10, <1>11, <1>a, <1>b, RowInserted

LEMMA StepSelectTrim ==
  ASSUME Inv, NEW a \in Everyone, SelectTrim(a)
  PROVE  Inv'
PROOF
<1>0. Values /\ AllFit  BY DEF Inv
<1>1. PICK x \in Acts : x = act[a] /\ Fit(x)  BY <1>0 DEF Values, AllFit
<1>a. /\ x.pc = "trim" /\ UNCHANGED <<time, content, rows, next, restarts, exposed>> /\ time \in Nat
      /\ x.tab \in Series /\ x.tab \in Tables
BY <1>0, <1>1, TypeFacts DEF SelectTrim, Fit, Ready, Tables
<1>b. Ready(x)  BY <1>1 DEF Fit
<1>2. CASE Beyond(x.tab) = {}
  <2>1. act' = [act EXCEPT ![a] = AfterTrim(x)]  BY <1>1, <1>2 DEF SelectTrim, Become
  <2>2. rows' \subseteq RowSet  BY <1>0, <1>a DEF Values, TypeOK
  <2>3. ASSUME NEW y \in {AfterTrim(x)}  PROVE y \in Acts /\ Fit(y)'
    BY <1>0, <1>a, <1>b, <2>2, AfterTrimFits
  <2>4. PICK y \in Acts : y = AfterTrim(x)  BY <2>3
  <2>5. Fit(y)'  BY <2>3, <2>4
  <2>. QED  BY <1>a, <2>1, <2>4, <2>5, OnlyMoves
<1>3. CASE Beyond(x.tab) # {}
  <2>. DEFINE w == [x EXCEPT !.pc = "cut", !.trim = Beyond(x.tab)]
  <2>1. Beyond(x.tab) \subseteq 1 .. next - 1
    <3>1. \A r \in Of(x.tab) : r.id \in Nat /\ r.id > 0 /\ r.id < next  BY <1>0, TypeFacts DEF Of
    <3>2. next \in Nat  BY <1>0, TypeFacts
    <3>3. \A r \in Of(x.tab) : r.id \in 1 .. next - 1  BY <3>1, <3>2
    <3>. QED  BY <3>3 DEF Beyond
  <2>2. Beyond(x.tab) \in SUBSET Nat /\ "cut" \in Pcs  BY <1>0, <2>1, TypeFacts DEF Pcs
  <2>3. w \in Acts  BY <2>2 DEF Acts
  <2>4. PICK y \in Acts : y = w  BY <2>3
  <2>5. /\ y.pc = "cut" /\ y.trim = Beyond(x.tab) /\ y.tab = x.tab /\ y.commit = x.commit
        /\ y.then = x.then /\ y.since = x.since /\ y.dead = x.dead
    BY <2>4 DEF Acts
  <2>6. act' = [act EXCEPT ![a] = y]  BY <1>1, <1>3, <2>4 DEF SelectTrim, Become
  <2>. HIDE DEF w
  <2>7. Ready(y)' /\ InTime(y)'  BY <1>1, <1>a, <2>5 DEF Fit, Ready, InTime
  <2>8. Fresh(y)' /\ Spares(y)' /\ Outlives(y)'
    BY <2>5 DEF Fresh, Spares, Outlives, Reading, Cutting
  <2>9. GivenUp(y)'  BY <1>1, <1>a, <2>5 DEF Fit, GivenUp
  <2>10. ASSUME NEW r \in rows, r.id \in Beyond(x.tab)
         PROVE  r.tab \in Series /\ Cardinality(Above(r.tab, r.id)) >= Keep
    <3>1. PICK s \in Of(x.tab) : s.id = r.id /\ Cardinality({t \in Of(x.tab) : t.id > s.id}) >= Keep
      BY <2>10 DEF Beyond
    <3>2. r = s /\ r.tab = x.tab /\ r.id \in Nat  BY <1>0, <3>1, TypeFacts DEF Of
    <3>3. Cardinality({t \in Of(x.tab) : t.id > r.id}) = Cardinality(Above(x.tab, r.id))
      BY <1>0, <3>2, AboveCounts
    <3>. QED  BY <1>a, <3>1, <3>2, <3>3
  <2>11. Displaced(y)'
    BY <1>a, <2>1, <2>5, <2>10 DEF Displaced, Above, Of
  <2>12. Fit(y)'  BY <2>7, <2>8, <2>9, <2>11 DEF Fit
  <2>. QED  BY <1>a, <2>6, <2>12, OnlyMoves
<1>. QED  BY <1>2, <1>3

LEMMA StepDeleteTrim ==
  ASSUME Inv, NEW a \in Everyone, DeleteTrim(a)
  PROVE  Inv'
PROOF
<1>0. Values /\ AllFit  BY DEF Inv
<1>1. PICK x \in Acts : x = act[a] /\ Fit(x)  BY <1>0 DEF Values, AllFit
<1>. DEFINE gone == {r \in rows : r.id \in x.trim /\ r.made + KeepFor < time}
            w == [x EXCEPT !.took = @ \/ gone # {}]
<1>a. /\ x.pc = "cut" /\ rows' = rows \ gone /\ act' = [act EXCEPT ![a] = AfterTrim(w)]
      /\ UNCHANGED <<time, content, next, restarts, exposed>> /\ time \in Nat
BY <1>0, <1>1, TypeFacts DEF DeleteTrim, Become
<1>2. gone \in SUBSET rows /\ \A r \in gone : r.id \in x.trim  OBVIOUS
<1>3. (x.took \/ gone # {}) \in BOOLEAN  OBVIOUS
<1>4. w \in Acts  BY <1>3 DEF Acts
<1>5. PICK v \in Acts : v = w  BY <1>4
<1>6. v.pc = "cut" /\ v.tab = x.tab /\ v.commit = x.commit /\ v.then = x.then
  BY <1>5, <1>a DEF Acts
<1>. HIDE DEF gone, w
<1>7. Ready(v)  BY <1>1, <1>6, <1>a DEF Fit, Ready
<1>8. rows' \subseteq RowSet  BY <1>0, <1>a DEF Values, TypeOK
<1>9. ASSUME NEW y \in {AfterTrim(v)}  PROVE y \in Acts /\ Fit(y)'
  BY <1>0, <1>6, <1>7, <1>8, <1>a, AfterTrimFits
<1>10. PICK y \in Acts : y = AfterTrim(v)  BY <1>9
<1>11. Fit(y)'  BY <1>9, <1>10
<1>12. act' = [act EXCEPT ![a] = y]  BY <1>5, <1>10, <1>a
<1>13. ASSUME NEW s \in Everyone, NEW z \in Acts, z = act[s], Fit(z)  PROVE Fit(z)'
  BY <1>0, <1>1, <1>2, <1>13, <1>a, VersionsTaken
<1>14. act' \in [Everyone -> Acts] /\ AllFit'
  BY <1>0, <1>11, <1>12, <1>13, OneMoves DEF Values
<1>15. Values'  BY <1>0, <1>14, <1>a DEF Values, TypeOK
<1>16. LostOnlyInTheGap'  BY <1>a DEF Inv, LostOnlyInTheGap, Stored
<1>. QED  BY <1>14, <1>15, <1>16 DEF Inv

LEMMA StepReadLive ==
  ASSUME Inv, NEW a \in Everyone, ReadLive(a)
  PROVE  Inv'
PROOF
<1>0. Values /\ AllFit  BY DEF Inv
<1>1. PICK x \in Acts : x = act[a] /\ Fit(x)  BY <1>0 DEF Values, AllFit
<1>. DEFINE L == UNION {r.files : r \in Of(Head(x.read))}
            w == [x EXCEPT !.live = @ \cup L, !.since = IF @ = 0 THEN time ELSE @,
                           !.read = Tail(@), !.pc = IF Len(x.read) = 1 THEN "gc" ELSE "live"]
<1>a. /\ x.pc = "live" /\ x.read # <<>> /\ time \in Nat /\ time > 0
      /\ UNCHANGED <<time, content, rows, next, restarts, exposed>>
BY <1>0, <1>1, TypeFacts DEF ReadLive
<1>b. /\ x.since \in Nat /\ x.read \in Seq(Tables) /\ x.live \subseteq Bodies /\ x.dead \subseteq Bodies
      /\ L \subseteq Bodies
  <2>1. x.since \in Nat /\ x.read \in Seq(Tables) /\ x.live \subseteq Bodies /\ x.dead \subseteq Bodies
    BY DEF Acts
  <2>2. \A r \in Of(Head(x.read)) : r.files \subseteq Bodies  BY <1>0, TypeFacts DEF Of
  <2>. QED  BY <2>1, <2>2
<1>2. act' = [act EXCEPT ![a] = w]  BY <1>1 DEF ReadLive
<1>3. /\ Tail(x.read) \in Seq(Tables)
      /\ Unread(x) = {Head(x.read)} \cup {Tail(x.read)[i] : i \in DOMAIN Tail(x.read)}
      /\ Len(x.read) = 1 => Tail(x.read) = <<>>
  BY <1>a, <1>b, Elements DEF Unread
<1>. HIDE DEF L
<1>4. w \in Acts  BY <1>a, <1>b, <1>3 DEF Acts, Pcs
<1>5. PICK y \in Acts : y = w  BY <1>4
<1>6. /\ y.pc = (IF Len(x.read) = 1 THEN "gc" ELSE "live") /\ y.since = (IF x.since = 0 THEN time ELSE x.since)
      /\ y.live = x.live \cup L /\ y.read = Tail(x.read) /\ y.dead = x.dead /\ y.commit = x.commit
      /\ y.then = x.then /\ y.pool = x.pool /\ y.tab = x.tab
  BY <1>5 DEF Acts
<1>. HIDE DEF w
<1>7. Ready(y)' /\ InTime(y)'
  <2>1. Stall \in Nat  BY StoreAssumption
  <2>2. Ready(y)'  BY <1>1, <1>6, <1>a DEF Fit, Ready
  <2>3. InTime(y)'  BY <1>1, <1>6, <1>a, <1>b, <2>1 DEF Fit, InTime
  <2>. QED  BY <2>2, <2>3
<1>8. Unread(x) = {Head(x.read)} \cup Unread(y)  BY <1>3, <1>6 DEF Unread
<1>9. Spares(x)  BY <1>1 DEF Fit
<1>10. Spares(y)'
  <2>1. y.since # 0  BY <1>6, <1>a
  <2>2. y.pc = "gc" => Unread(y) = {}
    <3>1. DOMAIN <<>> = {}  OBVIOUS
    <3>. QED  BY <1>3, <1>6, <3>1 DEF Unread
  <2>3. ASSUME NEW r \in rows, r.tab \notin Unread(y), NEW b \in r.files
        PROVE  b \in y.live \cup exposed \/ content[b] + Stall >= y.since
    <3>1. CASE r.tab = Head(x.read)  BY <1>6, <2>3, <3>1 DEF L, Of
    <3>2. CASE r.tab # Head(x.read)
      <4>1. r.tab \notin Unread(x)  BY <1>8, <2>3, <3>2
      <4>2. r.tab \in Tables  BY <1>0, TypeFacts
      <4>3. x.since # 0  BY <1>9, <1>a, <4>1, <4>2 DEF Spares, Reading
      <4>4. b \in x.live \cup exposed \/ content[b] + Stall >= x.since
        BY <1>9, <1>a, <2>3, <4>1 DEF Spares, Reading
      <4>. QED  BY <1>6, <4>3, <4>4
    <3>. QED  BY <3>1, <3>2
  <2>. QED  BY <1>a, <2>1, <2>2, <2>3 DEF Spares, Unread
<1>11. GivenUp(y)'  BY <1>1, <1>6, <1>a DEF Fit, GivenUp
<1>12. Outlives(y)'
  <2>1. CASE y.pc = "live"  BY <2>1 DEF Outlives, Cutting
  <2>2. CASE y.pc = "gc" /\ y.pool = "guard"  BY <2>2 DEF Outlives, Cutting
  <2>3. y.pool = "guard"  BY <1>1, <1>6, <1>a DEF Fit, Ready
  <2>. QED  BY <1>6, <2>1, <2>2, <2>3
<1>13. Fresh(y)' /\ Displaced(y)'  BY <1>6 DEF Fresh, Displaced
<1>14. Fit(y)'  BY <1>7, <1>10, <1>11, <1>12, <1>13 DEF Fit
<1>. QED  BY <1>2, <1>5, <1>14, <1>a, OnlyMoves

LEMMA AfterPoolFits ==
  ASSUME NEW x \in Acts, Ready(x), x.pc \in {"gc", "delete"}, time' \in Nat,
         x.pool = "guard" =>
           /\ x.cut <= time'
           /\ \A r \in rows' : \A b \in r.files : b \in x.live \cup exposed' \/ content'[b] + Grace >= x.cut,
         NEW y \in {AfterPool(x)}
  PROVE  y \in Acts /\ Fit(y)'
PROOF
<1>1. CASE x.pool = "guard"
  <2>. DEFINE w == [x EXCEPT !.pc = "gc", !.pool = "evidence", !.dead = {}, !.since = 0]
  <2>1. y = w /\ w \in Acts  BY <1>1 DEF AfterPool, Acts, Pcs, Pools
  <2>2. /\ y.pc = "gc" /\ y.pool = "evidence" /\ y.dead = {} /\ y.since = 0 /\ y.cut = x.cut
        /\ y.live = x.live /\ y.then = x.then /\ y.commit = x.commit
    BY <2>1 DEF Acts
  <2>. HIDE DEF w
  <2>3. Ready(y)' /\ InTime(y)' /\ Fresh(y)' /\ GivenUp(y)' /\ Displaced(y)'
    BY <2>2 DEF Ready, InTime, Fresh, GivenUp, Displaced
  <2>4. Spares(y)'  BY <2>2 DEF Spares, Reading
  <2>5. Outlives(y)'  BY <1>1, <2>2 DEF Outlives
  <2>. QED  BY <2>1, <2>3, <2>4, <2>5 DEF Fit
<1>2. CASE x.pool # "guard"
  <2>1. y = Return(x)  BY <1>2 DEF AfterPool
  <2>2. /\ y \in Acts /\ y.pc = x.then /\ y.commit = (IF x.then = "idle" THEN 0 ELSE x.commit)
        /\ y.since = 0 /\ y.dead = {} /\ y.then = "idle" /\ y.pc \in Thens
    BY <2>1, ReturnFields DEF Acts
  <2>3. Ready(y) /\ InTime(y)'  BY <2>2 DEF Ready, InTime, Thens
  <2>4. y.pc \in Quiet  BY <2>2 DEF Quiet, Pcs, Thens
  <2>. QED  BY <2>2, <2>3, <2>4, QuietFits
<1>. QED  BY <1>1, <1>2

LEMMA StepSelectDead ==
  ASSUME Inv, NEW a \in Everyone, SelectDead(a)
  PROVE  Inv'
PROOF
<1>0. Values /\ AllFit  BY DEF Inv
<1>1. PICK x \in Acts : x = act[a] /\ Fit(x)  BY <1>0 DEF Values, AllFit
<1>. DEFINE cut == IF x.pool = "guard" THEN time ELSE x.cut
            pool == IF x.pool = "guard" THEN GuardBodies ELSE Evidence
            dead == {b \in pool \cap Stored : content[b] + Grace < cut} \ x.live
            w == [x EXCEPT !.cut = cut]
            u == [w EXCEPT !.pc = "delete", !.dead = dead, !.since = 0]
<1>a. /\ x.pc = "gc" /\ act' = [act EXCEPT ![a] = IF dead = {} THEN AfterPool(w) ELSE u]
      /\ UNCHANGED <<time, content, rows, next, restarts, exposed>>
BY <1>1 DEF SelectDead, Become
<1>b. /\ time \in Nat /\ Stall \in Nat /\ Grace \in Nat /\ Stall + Stall <= Grace
      /\ \A b \in Bodies : content[b] \in Nat
      /\ \A r \in rows : r.files \subseteq Bodies
BY <1>0, StoreAssumption, GraceAssumption, TypeFacts
<1>c. x.since \in Nat /\ x.cut \in Nat /\ x.live \subseteq Bodies /\ x.pool \in Pools
  BY DEF Acts
<1>2. cut \in Nat /\ dead \subseteq Bodies /\ \A b \in dead : b \notin x.live /\ content[b] + Grace < cut
  BY <1>b, <1>c DEF Stored
<1>. HIDE DEF cut, dead
<1>3. /\ cut <= time
      /\ \A r \in rows : \A b \in r.files : b \in x.live \cup exposed \/ content[b] + Grace >= cut
  <2>1. CASE x.pool = "guard"
    <3>1. cut = time  BY <2>1 DEF cut
    <3>2. Unread(x) = {} /\ x.since # 0
      BY <1>1, <1>a, <2>1 DEF Fit, Spares, Reading
    <3>3. time <= x.since + Stall  BY <1>1, <1>c, <3>2 DEF Fit, InTime
    <3>4. ASSUME NEW r \in rows, NEW b \in r.files, b \notin x.live \cup exposed
          PROVE  content[b] + Grace >= cut
      <4>1. content[b] + Stall >= x.since
        BY <1>1, <1>a, <2>1, <3>2, <3>4 DEF Fit, Spares, Reading
      <4>2. content[b] \in Nat  BY <1>b
      <4>. QED  BY <1>b, <1>c, <3>1, <3>3, <4>1, <4>2
    <3>. QED  BY <1>b, <3>1, <3>4
  <2>2. CASE x.pool = "evidence"
    <3>1. cut = x.cut  BY <2>2 DEF cut
    <3>. QED  BY <1>1, <1>a, <2>2, <3>1 DEF Fit, Outlives, Cutting
  <2>. QED  BY <1>c, <2>1, <2>2 DEF Pools
<1>4. w \in Acts  BY <1>2 DEF Acts
<1>5. PICK v \in Acts : v = w  BY <1>4
<1>6. /\ v.pc = "gc" /\ v.cut = cut /\ v.live = x.live /\ v.pool = x.pool /\ v.then = x.then
      /\ v.commit = x.commit /\ v.tab = x.tab /\ v.since = x.since
  BY <1>5, <1>a DEF Acts
<1>7. Ready(v)  BY <1>1, <1>6, <1>a DEF Fit, Ready
<1>. HIDE DEF w
<1>8. CASE dead = {}
  <2>1. ASSUME NEW y \in {AfterPool(v)}  PROVE y \in Acts /\ Fit(y)'
    BY <1>3, <1>6, <1>7, <1>a, <1>b, AfterPoolFits
  <2>2. PICK y \in Acts : y = AfterPool(v)  BY <2>1
  <2>3. Fit(y)'  BY <2>1, <2>2
  <2>4. act' = [act EXCEPT ![a] = y]  BY <1>5, <1>8, <1>a, <2>2
  <2>. QED  BY <1>a, <2>3, <2>4, OnlyMoves
<1>9. CASE dead # {}
  <2>1. u \in Acts  BY <1>2, <1>4 DEF Acts, Pcs
  <2>2. PICK y \in Acts : y = u  BY <2>1
  <2>3. /\ y.pc = "delete" /\ y.dead = dead /\ y.since = 0 /\ y.cut = cut /\ y.live = x.live
        /\ y.then = x.then /\ y.commit = x.commit
    BY <1>5, <1>6, <2>2 DEF Acts
  <2>4. act' = [act EXCEPT ![a] = y]  BY <1>9, <1>a, <2>2
  <2>. HIDE DEF u
  <2>5. Ready(y)' /\ InTime(y)' /\ Fresh(y)' /\ Displaced(y)'
    BY <1>1, <1>a, <1>b, <2>3 DEF Ready, InTime, Fresh, Displaced, Fit
  <2>6. Spares(y)'  BY <2>3 DEF Spares, Reading
  <2>7. Outlives(y)'  BY <1>3, <1>a, <2>3 DEF Outlives
  <2>8. GivenUp(y)'  BY <1>2, <1>a, <2>3 DEF GivenUp
  <2>9. Fit(y)'  BY <2>5, <2>6, <2>7, <2>8 DEF Fit
  <2>. QED  BY <1>a, <2>4, <2>9, OnlyMoves
<1>. QED  BY <1>8, <1>9

LEMMA StepDeleteDead ==
  ASSUME Inv, NEW a \in Everyone, DeleteDead(a)
  PROVE  Inv'
PROOF
<1>0. Values /\ AllFit  BY DEF Inv
<1>1. PICK x \in Acts : x = act[a] /\ Fit(x)  BY <1>0 DEF Values, AllFit
<1>a. /\ x.pc = "delete" /\ act' = [act EXCEPT ![a] = AfterPool(x)]
      /\ content' = [b \in Bodies |-> IF b \in x.dead THEN 0 ELSE content[b]]
      /\ UNCHANGED <<time, rows, next, restarts, exposed>> /\ time \in Nat
BY <1>0, <1>1, TypeFacts DEF DeleteDead, Become
<1>b. Ready(x)  BY <1>1 DEF Fit
<1>2. \A r \in rows : \A b \in r.files : b \in exposed \/ content'[b] = content[b]
  <2>. SUFFICES ASSUME NEW r \in rows, NEW b \in r.files  PROVE b \in exposed \/ content'[b] = content[b]
    OBVIOUS
  <2>1. b \in Bodies  BY <1>0, TypeFacts
  <2>2. b \in x.dead => b \in exposed  BY <1>0, <1>1, <1>a, NamedNotDead
  <2>. QED  BY <1>a, <2>1, <2>2
<1>3. /\ x.cut <= time
      /\ \A r \in rows : \A b \in r.files : b \in x.live \cup exposed \/ content[b] + Grace >= x.cut
  BY <1>1, <1>a DEF Fit, Outlives, Cutting
<1>4. ASSUME NEW y \in {AfterPool(x)}  PROVE y \in Acts /\ Fit(y)'
  <2>1. /\ x.cut <= time' /\ time' \in Nat
        /\ \A r \in rows' : \A b \in r.files : b \in x.live \cup exposed' \/ content'[b] + Grace >= x.cut
    BY <1>2, <1>3, <1>a
  <2>. QED  BY <1>a, <1>b, <2>1, AfterPoolFits
<1>5. PICK y \in Acts : y = AfterPool(x)  BY <1>4
<1>6. Fit(y)'  BY <1>4, <1>5
<1>7. act' = [act EXCEPT ![a] = y]  BY <1>5, <1>a
<1>8. ASSUME NEW s \in Everyone, NEW z \in Acts, z = act[s], Fit(z)  PROVE Fit(z)'
  BY <1>0, <1>1, <1>8, <1>a, BodiesDeleted
<1>9. act' \in [Everyone -> Acts] /\ AllFit'
  BY <1>0, <1>6, <1>7, <1>8, OneMoves DEF Values
<1>10. Values'
  <2>1. content' \in [Bodies -> 0 .. MaxTime]
    <3>1. 0 \in 0 .. MaxTime /\ content \in [Bodies -> 0 .. MaxTime]
      BY <1>0, StoreAssumption DEF Values, TypeOK
    <3>. QED  BY <1>a, <3>1
  <2>. QED  BY <1>0, <1>9, <1>a, <2>1 DEF Values, TypeOK
<1>11. LostOnlyInTheGap'
  <2>. SUFFICES ASSUME NEW r \in rows, NEW b \in r.files  PROVE b \in Stored' \cup exposed
    BY <1>a DEF LostOnlyInTheGap
  <2>1. b \in Stored \cup exposed /\ b \in Bodies
    BY <1>0, TypeFacts DEF Inv, LostOnlyInTheGap
  <2>. QED  BY <1>2, <2>1 DEF Stored
<1>. QED  BY <1>9, <1>10, <1>11 DEF Inv

LEMMA StepRestart ==
  ASSUME Inv, Restart
  PROVE  Inv'
PROOF
<1>0. Values  BY DEF Inv
<1>1. time' \in Nat /\ UNCHANGED <<time, content, rows, next, exposed>> /\ restarts' \in 0 .. MaxRestarts
  BY <1>0, StoreAssumption, TypeFacts DEF Restart, Values, TypeOK
<1>. DEFINE y == [Idle EXCEPT !.pc = "repos"]
<1>2. y \in Acts  BY IdleFields DEF Acts, Pcs
<1>3. y.pc = "repos" /\ y.since = 0 /\ y.dead = {} /\ y.then = "idle"  BY DEF Idle
<1>4. act' = [a \in Everyone |-> IF a = "boot" THEN y ELSE Idle]  BY DEF Restart
<1>. HIDE DEF y
<1>5. Ready(y) /\ InTime(y)' /\ y.pc \in Quiet  BY <1>1, <1>3 DEF Ready, InTime, Quiet, Pcs
<1>6. Fit(y)'  BY <1>2, <1>3, <1>5, QuietFits
<1>7. Idle \in Acts /\ Fit(Idle)'  BY <1>1, IdleFits
<1>8. act' \in [Everyone -> Acts]  BY <1>2, <1>4, <1>7
<1>9. ASSUME NEW s \in Everyone  PROVE Fit(act[s])'
  <2>1. CASE s = "boot"
    <3>1. act'[s] = y  BY <1>4, <2>1
    <3>. QED  BY <1>6, <3>1
  <2>2. CASE s # "boot"
    <3>1. act'[s] = Idle  BY <1>4, <2>2
    <3>. QED  BY <1>7, <3>1
  <2>. QED  BY <2>1, <2>2
<1>10. AllFit'  BY <1>9 DEF AllFit
<1>11. Values'  BY <1>0, <1>1, <1>8 DEF Values, TypeOK
<1>12. LostOnlyInTheGap'  BY <1>1 DEF Inv, LostOnlyInTheGap, Stored
<1>. QED  BY <1>10, <1>11, <1>12 DEF Inv

LEMMA StepSweepRepo ==
  ASSUME Inv, SweepRepo
  PROVE  Inv'
PROOF
<1>0. Values  BY DEF Inv
<1>1. time \in Nat /\ UNCHANGED <<time, content, rows, next, restarts, exposed>> /\ "boot" \in Everyone
  BY <1>0, TypeFacts DEF SweepRepo, Everyone
<1>2. CASE \A tab \in Series : Of(tab) = {}
  <2>1. act' = [act EXCEPT !["boot"] = Idle]  BY <1>2 DEF SweepRepo, Become
  <2>. QED  BY <1>1, <2>1, IdleFits, OnlyMoves
<1>3. CASE ~ \A tab \in Series : Of(tab) = {}
  <2>1. PICK t \in Tables : t = "report"  BY DEF Tables, Series
  <2>2. <<"scenarios", "setup">> \in Seq(Series)  BY DEF Series
  <2>3. PICK p \in Seq(Series) : p = <<"scenarios", "setup">>  BY <2>2
  <2>4. [Idle EXCEPT !.took = TRUE] \in Acts  BY IdleFields DEF Acts
  <2>5. PICK x \in Acts : x = [Idle EXCEPT !.took = TRUE]  BY <2>4
  <2>6. x.then = "idle"  BY <2>5 DEF Idle
  <2>7. PICK y \in Acts : y = TrimOf(x, t, p)  BY TrimOfFields
  <2>8. y.pc = "trim" /\ y.tab = t /\ y.then = "idle" /\ y.since = 0 /\ y.dead = {}
    BY <2>6, <2>7, TrimOfFields
  <2>9. act' = [act EXCEPT !["boot"] = y]
    BY <1>3, <2>1, <2>3, <2>5, <2>7 DEF SweepRepo, Become
  <2>10. Ready(y) /\ InTime(y)' /\ y.pc \in Quiet
    BY <1>1, <2>1, <2>8 DEF Ready, InTime, Quiet, Pcs, Series
  <2>11. Fit(y)'  BY <2>8, <2>10, QuietFits
  <2>. QED  BY <1>1, <2>9, <2>11, OnlyMoves
<1>. QED  BY <1>2, <1>3

LEMMA StepTick ==
  ASSUME Inv, Tick
  PROVE  Inv'
PROOF
<1>0. Values /\ AllFit  BY DEF Inv
<1>1. /\ time' = time + 1 /\ UNCHANGED <<content, rows, next, restarts, exposed>> /\ act' = act
      /\ \A a \in Everyone : act[a].since > 0 => time < act[a].since + Stall
BY DEF Tick
<1>2. ASSUME NEW s \in Everyone  PROVE Fit(act[s])'
  <2>1. PICK x \in Acts : x = act[s] /\ Fit(x)  BY <1>0 DEF Values, AllFit
  <2>2. x.since > 0 => time < x.since + Stall  BY <1>1, <2>1
  <2>3. Fit(x)'  BY <1>0, <1>1, <2>1, <2>2, TimePasses
  <2>4. act'[s] = x  BY <1>1, <2>1
  <2>. QED  BY <2>3, <2>4
<1>3. AllFit'  BY <1>2 DEF AllFit
<1>4. Values'  BY <1>0, <1>1, StoreAssumption DEF Values, TypeOK, Tick
<1>5. LostOnlyInTheGap'  BY <1>1 DEF Inv, LostOnlyInTheGap, Stored
<1>. QED  BY <1>3, <1>4, <1>5 DEF Inv

LEMMA InvInit == Init => Inv
PROOF
<1>. SUFFICES ASSUME Init  PROVE Inv
  OBVIOUS
<1>1. time \in Nat  BY DEF Init
<1>2. TypeOK
  <2>1. time \in 1 .. MaxTime  BY StoreAssumption DEF Init
  <2>. QED  BY <2>1, StoreAssumption DEF Init, TypeOK
<1>3. Values  BY <1>2, IdleFields DEF Init, Values
<1>4. LostOnlyInTheGap  BY DEF Init, LostOnlyInTheGap
<1>5. Ready(Idle) /\ InTime(Idle)  BY <1>1, IdleFields DEF Ready, InTime
<1>6. Fresh(Idle) /\ Spares(Idle) /\ Outlives(Idle) /\ GivenUp(Idle) /\ Displaced(Idle)
  BY IdleFields DEF Fresh, Spares, Outlives, GivenUp, Displaced, Reading, Cutting
<1>7. AllFit
  <2>1. \A a \in Everyone : act[a] = Idle  BY DEF Init
  <2>2. Fit(Idle)  BY <1>5, <1>6 DEF Fit
  <2>. QED  BY <2>1, <2>2 DEF AllFit
<1>. QED  BY <1>3, <1>4, <1>7 DEF Inv

LEMMA InvNext == Inv /\ [Next]_vars => Inv'
PROOF
<1>. SUFFICES ASSUME Inv, [Next]_vars  PROVE Inv'
  OBVIOUS
<1>1. CASE Tick  BY <1>1, StepTick
<1>2. CASE Restart  BY <1>2, StepRestart
<1>3. CASE SweepRepo  BY <1>3, StepSweepRepo
<1>4. ASSUME NEW a \in Actors, Begin(a)  PROVE Inv'
  <2>0. a \in Everyone  BY DEF Everyone
  <2>1. ASSUME NEW tab \in {"scenarios", "setup"}, NEW c \in Commits, NEW files \in SUBSET GuardBodies,
               BeginSave(a, tab, c, files)
        PROVE  Inv'
    BY <2>0, <2>1, StepBeginSave
  <2>2. ASSUME NEW c \in Commits, BeginBlocked(a, c)  PROVE Inv'
    BY <2>0, <2>2, StepBeginBlocked
  <2>3. ASSUME NEW c \in Commits, NEW files \in SUBSET Evidence, BeginRun(a, c, files)  PROVE Inv'
    BY <2>0, <2>3, StepBeginRun
  <2>4. ASSUME NEW r \in Of("scenarios"), BeginRestore(a, r)  PROVE Inv'
    BY <2>0, <2>4, StepBeginRestore
  <2>. QED  BY <1>4, <2>1, <2>2, <2>3, <2>4 DEF Begin
<1>5. ASSUME NEW a \in Everyone, Proceed(a)  PROVE Inv'
  <2>1. ASSUME NEW b \in act[a].todo, PutBody(a, b)  PROVE Inv'
    BY <2>1, StepPutBody
  <2>2. ASSUME NEW files \in SUBSET Evidence, BeginEvidence(a, files)  PROVE Inv'
    BY <2>2, StepBeginEvidence
  <2>3. CASE InsertVersion(a)  BY <2>3, StepInsertVersion
  <2>4. CASE ReadPair(a)  BY <2>4, StepReadPair
  <2>5. CASE InsertReport(a)  BY <2>5, StepInsertReport
  <2>6. CASE ReadTarget(a)  BY <2>6, StepReadTarget
  <2>7. CASE Attach(a)  BY <2>7, StepAttach
  <2>8. CASE CopySet(a)  BY <2>8, StepCopySet
  <2>9. CASE ReadBirth(a)  BY <2>9, StepReadBirth
  <2>10. CASE CopyReport(a)  BY <2>10, StepCopyReport
  <2>11. CASE SelectTrim(a)  BY <2>11, StepSelectTrim
  <2>12. CASE DeleteTrim(a)  BY <2>12, StepDeleteTrim
  <2>13. CASE ReadLive(a)  BY <2>13, StepReadLive
  <2>14. CASE SelectDead(a)  BY <2>14, StepSelectDead
  <2>15. CASE DeleteDead(a)  BY <2>15, StepDeleteDead
  <2>. QED
    BY <1>5, <2>1, <2>2, <2>3, <2>4, <2>5, <2>6, <2>7, <2>8, <2>9, <2>10, <2>11, <2>12, <2>13,
       <2>14, <2>15
    DEF Proceed
<1>6. CASE UNCHANGED vars
  <2>0. Values /\ AllFit  BY DEF Inv
  <2>1. UNCHANGED <<time, content, rows, next, restarts, exposed>> /\ act' = act
    BY <1>6 DEF vars
  <2>2. ASSUME NEW s \in Everyone  PROVE Fit(act[s])'
    <3>1. PICK x \in Acts : x = act[s] /\ Fit(x)  BY <2>0 DEF Values, AllFit
    <3>2. Fit(x)'  BY <2>1, <3>1, NothingWritten
    <3>3. act'[s] = x  BY <2>1, <3>1
    <3>. QED  BY <3>2, <3>3
  <2>3. AllFit'  BY <2>2 DEF AllFit
  <2>4. Values' /\ LostOnlyInTheGap'
    BY <2>0, <2>1 DEF Inv, Values, TypeOK, LostOnlyInTheGap, Stored
  <2>. QED  BY <2>3, <2>4 DEF Inv
<1>. QED  BY <1>1, <1>2, <1>3, <1>4, <1>5, <1>6 DEF Next

\* Only a trim takes a version, and what it takes is displaced as it goes.
LEMMA NewestStay ==
  ASSUME Inv, [Next]_vars, NEW r \in rows, \A s \in rows' : s.id # r.id
  PROVE  /\ r.tab \in Series
         /\ Cardinality({s \in Of(r.tab) : s.id > r.id}) >= Keep
         /\ r.made + KeepFor < time
PROOF
<1>0. Values /\ AllFit  BY DEF Inv
<1>1. ASSUME NEW a \in Everyone, DeleteTrim(a)
      PROVE  /\ r.tab \in Series
             /\ Cardinality({s \in Of(r.tab) : s.id > r.id}) >= Keep
             /\ r.made + KeepFor < time
  <2>1. PICK x \in Acts : x = act[a] /\ Fit(x)  BY <1>0 DEF Values, AllFit
  <2>2. /\ x.pc = "cut"
        /\ rows' = rows \ {q \in rows : q.id \in x.trim /\ q.made + KeepFor < time}
    BY <1>1, <2>1 DEF DeleteTrim
  <2>3. r.id \in x.trim /\ r.made + KeepFor < time  BY <2>2
  <2>4. r.tab \in Series /\ Cardinality(Above(r.tab, r.id)) >= Keep
    BY <2>1, <2>2, <2>3 DEF Fit, Displaced
  <2>5. r.id \in Nat  BY <1>0, TypeFacts
  <2>6. Cardinality({s \in Of(r.tab) : s.id > r.id}) = Cardinality(Above(r.tab, r.id))
    BY <1>0, <2>5, AboveCounts
  <2>. QED  BY <2>3, <2>4, <2>6
<1>2. ASSUME NEW a \in Everyone, Attach(a)  PROVE FALSE
  <2>1. \A q \in RowSet : \A F : [q EXCEPT !.files = F].id = q.id  BY DEF RowSet
  <2>2. r \in RowSet  BY <1>0 DEF Values, TypeOK
  <2>3. (IF r.id = act[a].own THEN [r EXCEPT !.files = @ \cup act[a].files] ELSE r) \in rows'
    BY <1>2 DEF Attach
  <2>. QED  BY <2>1, <2>2, <2>3
<1>3. CASE rows \subseteq rows'  BY <1>3
<1>4. CASE Tick \/ Restart \/ SweepRepo \/ UNCHANGED vars
  BY <1>4 DEF Tick, Restart, SweepRepo, vars
<1>5. ASSUME NEW a \in Actors, Begin(a)  PROVE rows \subseteq rows'
  BY <1>5 DEF Begin, BeginSave, BeginBlocked, BeginRun, BeginRestore, Insert
<1>6. ASSUME NEW a \in Everyone, Proceed(a), ~ Attach(a), ~ DeleteTrim(a)  PROVE rows \subseteq rows'
  BY <1>6 DEF Proceed, PutBody, BeginEvidence, InsertVersion, ReadPair, InsertReport, ReadTarget,
              CopySet, ReadBirth, CopyReport, SelectTrim, ReadLive, SelectDead, DeleteDead, Insert
<1>. QED  BY <1>1, <1>2, <1>3, <1>4, <1>5, <1>6 DEF Next

-------------------------------------------------------------------------------
(* Theorems. *)

LEMMA InvHolds == Spec => []Inv
PROOF BY InvInit, InvNext, PTL DEF Spec

\* The tables, the pool and the clock hold what the store can put into them.
THEOREM TypesHold == Spec => []TypeOK
PROOF
<1>1. Inv => TypeOK  BY DEF Inv, Values
<1>. QED  BY <1>1, InvHolds, PTL

\* No sweep, however it is interleaved with saves, other sweeps, rollbacks and
\* restarts, takes a body that a version points into, but a body it had given
\* up before the save or the rollback that named it again: the stamps and the
\* grace (`gc` of content-store.ts) cover everything else.
THEOREM BodiesOutliveVersions == Spec => []LostOnlyInTheGap
PROOF
<1>1. Inv => LostOnlyInTheGap  BY DEF Inv
<1>. QED  BY <1>1, InvHolds, PTL

\* The delete of a trim takes by the ids its select chose (`trimVersions` of
\* version-sweep.ts), and still never one of the newest of its series.
THEOREM NewestAreKept == Spec => NewestKept
PROOF
<1>1. Inv /\ [Next]_vars =>
        [\A r \in rows : (\A s \in rows' : s.id # r.id) =>
           /\ r.tab \in Series
           /\ Cardinality({s \in Of(r.tab) : s.id > r.id}) >= Keep
           /\ r.made + KeepFor < time]_vars
  BY NewestStay
<1>. QED  BY <1>1, InvHolds, PTL DEF Spec, NewestKept
===============================================================================
