------------------------------ MODULE BatchProofs ------------------------------
(***************************************************************************)
(* What holds of research runs and of imports for every number of          *)
(* requests, worker slots, candidates, queries and rows, in the behaviours *)
(* of MCServices that run them.                                            *)
(***************************************************************************)
EXTENDS CallAndJobProofs, InboxAndAiProofs

(***************************************************************************)
(* The research run                                                        *)
(***************************************************************************)
DiscoverPlaces == {"read", "pause", "load", "harvest", "record", "count", "fail", "succeed",
                   "handover", "begin"}
VerifyPlaces == {"read", "pause", "look", "claim", "judge", "left", "finalize", "again"}
Ahead == {"enqueue", "undo"}

Candidates == [is : Research!Verdicts \cup {"absent"}, by : Slots \cup {"none", "dead"},
               live : BOOLEAN, tries : 0 .. MaxTries]

Asks == [at : {"idle", "reopen", "claim"} \cup Ahead, was : Research!Statuses, from : 0 .. Queries]

Slices == [kind : Research!Kinds \cup {"none"}, at : DiscoverPlaces \cup VerifyPlaces \cup {"idle"},
           next : 0 .. Queries, passes : Nat, broke : BOOLEAN,
           look : SUBSET Found, mine : SUBSET Found]

\* A slice is at a place of its kind, at a query that exists, and judges what it has claimed.
SliceOk(w) ==
    /\ w.kind = "none" <=> w = Research!NoSlice
    /\ w.kind = "discover" => w.at \in DiscoverPlaces
    /\ w.kind = "verify" => w.at \in VerifyPlaces
    /\ w.at \in {"harvest", "record"} => w.next < Queries
    /\ w.mine # {} => w.at = "judge"

RunType ==
    /\ status \in Research!Statuses /\ position \in 0 .. Queries
    /\ pausing \in BOOLEAN /\ warm \in BOOLEAN /\ startedAt \in BOOLEAN
    /\ found \in [Found -> Candidates]
    /\ queue \in [Research!Kinds -> Nat]
    /\ ask \in [Requests -> Asks]
    /\ slice \in [Slots -> Slices] /\ \A w \in Slots : SliceOk(slice[w])
    /\ searched \subseteq 0 .. Queries - 1
    /\ doubled \in BOOLEAN /\ unqueued \in BOOLEAN /\ muted \in BOOLEAN

\* Every query before a cursor, the row's or a slice's, was run, and verification begins
\* behind the last one.
Behind(w) == w.kind = "verify" \/ w.at \in {"count", "fail", "succeed", "begin"}
WalkedInOrder ==
    /\ 0 .. position - 1 \subseteq searched
    /\ \A w \in Slots : 0 .. slice[w].next - 1 \subseteq searched
    /\ \A w \in Slots : slice[w].at = "record" => slice[w].next \in searched
    /\ \/ queue["verify"] > 0
       \/ \E w \in Slots : Behind(slice[w])
       => 0 .. Queries - 1 \subseteq searched

\* A run that nobody claimed beside its runner has one job, slice or request at most.
OneRunner ==
    ~doubled =>
      /\ queue["discover"] + queue["verify"] <= 1
      /\ Research!Waiting => ~Research!Worked
      /\ \A v, w \in Slots :
           slice[v] # Research!NoSlice /\ slice[w] # Research!NoSlice => v = w
      /\ \A q, r \in Requests : ask[q].at \in Ahead /\ ask[r].at \in Ahead => q = r
      /\ \A r \in Requests : ask[r].at = "enqueue" => ~Research!Waiting /\ ~Research!Worked

\* Its runner finds nothing left to check, and nobody adds to it.
NothingLeft ==
    ~doubled =>
      \A w \in Slots : slice[w].at \in {"succeed", "finalize"} => Research!Pending = {}

\* A claim stands while its slice judges.
ClaimsStand ==
    ~muted =>
      \A w \in Slots : \A c \in slice[w].mine :
        found[c].is = "pending" /\ found[c].by = w /\ found[c].live

ResearchInv ==
    /\ RunType /\ WalkedInOrder /\ OneRunner /\ NothingLeft /\ ClaimsStand
    /\ Research!RunningIsWorked
ResearchGood == service = "research" => ResearchInv

\* The bounds of a run are numbers.
LEMMA RunBounds ==
  Queries \in Nat /\ MaxTries \in Nat /\ "none" \notin Slots /\ "dead" \notin Slots
  <1>1. {Queries, MaxTries} \subseteq Nat /\ {"none", "dead"} \cap Slots = {}
    BY RunAssumption
  <1> QED
    BY <1>1

\* The records that stand for nobody.
LEMMA Idlers ==
  /\ Research!NoSlice \in Slices /\ SliceOk(Research!NoSlice)
  /\ Research!NoAsk \in Asks /\ Research!Absent \in Candidates /\ Research!New \in Candidates
  <1> USE RunBounds
  <1>1. Research!NoSlice \in Slices
    BY DEF Research!NoSlice, Slices
  <1>2. SliceOk(Research!NoSlice)
    BY DEF Research!NoSlice, SliceOk
  <1>3. Research!NoAsk \in Asks
    BY DEF Research!NoAsk, Asks, Research!Statuses
  <1>4. Research!Absent \in Candidates
    BY DEF Research!Absent, Candidates
  <1>5. Research!New \in Candidates
    BY <1>4 DEF Research!New, Candidates, Research!Verdicts
  <1> QED
    BY <1>1, <1>2, <1>3, <1>4, <1>5

\* The run's types hold at first.
LEMMA RunTypeStart == Research!Init => RunType
  <1> SUFFICES ASSUME Research!Init PROVE RunType
    OBVIOUS
  <1> USE RunBounds, Idlers DEF Research!Init
  <1>1. status \in Research!Statuses /\ position \in 0 .. Queries
    BY DEF Research!Statuses
  <1>2. found \in [Found -> Candidates] /\ queue \in [Research!Kinds -> Nat]
    OBVIOUS
  <1>3. ask \in [Requests -> Asks]
    OBVIOUS
  <1>4. slice \in [Slots -> Slices] /\ \A w \in Slots : SliceOk(slice[w])
    OBVIOUS
  <1> QED
    BY <1>1, <1>2, <1>3, <1>4 DEF RunType

\* A request keeps the types.
LEMMA RequestTypes ==
  ASSUME RunType, NEW r \in Requests,
         Research!Ask(r) \/ Research!Reopen(r) \/ Research!Claim(r) \/ Research!Enqueue(r)
           \/ Research!Undo(r)
  PROVE  RunType'
  <1> USE RunBounds, Idlers
  <1>0. ask[r] \in Asks
    BY DEF RunType
  <1>1. CASE Research!Ask(r)
    BY <1>0, <1>1 DEF Research!Ask, Research!row, RunType, Asks
  <1>2. CASE Research!Reopen(r)
    BY <1>0, <1>2 DEF Research!Reopen, Research!Answer, Research!AskAt, Research!row, RunType, Asks,
           Research!Busy
  <1>3. CASE Research!Claim(r)
    <2>1. doubled' \in BOOLEAN
      BY <1>3 DEF Research!Claim, RunType
    <2>2. ask' \in [Requests -> Asks]
      BY <1>0, <1>3 DEF Research!Claim, Research!Answer, Research!AskAt, RunType, Asks, Ahead
    <2>3. status' \in Research!Statuses /\ pausing' \in BOOLEAN /\ warm' \in BOOLEAN
      BY <1>3 DEF Research!Claim, Research!Set, Research!Touch, RunType, Research!Statuses
    <2> QED
      BY <1>3, <2>1, <2>2, <2>3 DEF Research!Claim, RunType
  <1>4. CASE Research!Enqueue(r)
    BY <1>0, <1>4 DEF Research!Enqueue, Research!Answer, Research!AskAt, Research!row, RunType, Asks,
           Ahead, Research!Kinds
  <1>5. CASE Research!Undo(r)
    BY <1>0, <1>5 DEF Research!Undo, Research!Answer, Research!IfRunning, Research!Set, Research!Touch,
           Research!past, RunType, Asks, Research!Statuses
  <1> QED
    BY <1>1, <1>2, <1>3, <1>4, <1>5

\* A slice keeps the types: what it writes about itself, and what its kind writes.
LEMMA SliceMoves ==
  ASSUME RunType, NEW w \in Slots, NEW x \in Slices, SliceOk(x),
         slice' = [slice EXCEPT ![w] = x]
  PROVE  /\ slice' \in [Slots -> Slices] /\ \A v \in Slots : SliceOk(slice'[v])
         /\ slice'[w] = x /\ \A v \in Slots : v # w => slice'[v] = slice[v]
  <1>1. slice \in [Slots -> Slices] /\ \A v \in Slots : SliceOk(slice[v])
    BY DEF RunType
  <1>2. slice'[w] = x /\ \A v \in Slots : v # w => slice'[v] = slice[v]
    BY <1>1
  <1> QED
    BY <1>1, <1>2

\* A slice that is over leaves an idle slot, and one that goes on is at another place.
LEMMA SliceGoes ==
  ASSUME RunType, NEW w \in Slots, NEW l,
         \/ slice[w].kind = "discover" /\ l \in DiscoverPlaces \ {"harvest", "record"}
         \/ slice[w].kind = "verify" /\ l \in VerifyPlaces,
         slice[w].mine = {}
  PROVE  /\ [slice[w] EXCEPT !.at = l] \in Slices /\ SliceOk([slice[w] EXCEPT !.at = l])
         /\ Research!GoTo(w, l) => slice' = [slice EXCEPT ![w] = [slice[w] EXCEPT !.at = l]]
  <1> DEFINE x == [slice[w] EXCEPT !.at = l]
  <1>1. slice \in [Slots -> Slices] /\ slice[w] \in Slices
    BY DEF RunType
  <1>2. x \in Slices
    BY <1>1 DEF Slices
  <1>3. x.kind = slice[w].kind /\ x.mine = slice[w].mine /\ x.at = l
    BY <1>1 DEF Slices
  <1>4. x # Research!NoSlice
    BY <1>3 DEF Research!NoSlice
  <1>5. SliceOk(x)
    BY <1>3, <1>4 DEF SliceOk, VerifyPlaces
  <1>6. Research!GoTo(w, l) => slice' = [slice EXCEPT ![w] = x]
    BY DEF Research!GoTo
  <1> QED
    BY <1>2, <1>5, <1>6

\* What the place of a slice says of it.
LEMMA KindOf ==
  ASSUME RunType, NEW w \in Slots
  PROVE  /\ slice[w] \in Slices /\ SliceOk(slice[w])
         /\ slice[w].at \in DiscoverPlaces \ {"read", "pause"} => slice[w].kind = "discover"
         /\ slice[w].at \in VerifyPlaces \ {"read", "pause"} => slice[w].kind = "verify"
         /\ slice[w].kind = "discover" \/ slice[w].kind = "verify" \/ slice[w] = Research!NoSlice
         /\ slice[w].at # "judge" => slice[w].mine = {}
         /\ slice[w].at = "idle" <=> slice[w] = Research!NoSlice
  <1>1. slice[w] \in Slices /\ SliceOk(slice[w])
    BY DEF RunType
  <1>2. slice[w].kind = "discover" \/ slice[w].kind = "verify" \/ slice[w].kind = "none"
    BY <1>1 DEF Slices, Research!Kinds
  <1>3. slice[w] = Research!NoSlice => slice[w].at = "idle"
    BY DEF Research!NoSlice
  <1> QED
    BY <1>1, <1>2, <1>3 DEF SliceOk, DiscoverPlaces, VerifyPlaces

\* A slice at a place of its kind is well-formed.
LEMMA WellPlaced ==
  ASSUME NEW x \in Slices,
         \/ x.kind = "discover" /\ x.at \in DiscoverPlaces
         \/ x.kind = "verify" /\ x.at \in VerifyPlaces,
         x.at \in {"harvest", "record"} => x.next < Queries,
         x.mine # {} => x.at = "judge"
  PROVE  SliceOk(x)
  <1>1. x # Research!NoSlice /\ x.kind # "none"
    BY DEF Research!NoSlice
  <1> QED
    BY <1>1 DEF SliceOk

\* The slice in slot w is replaced by a well-formed one.
SliceStepped(w) == \E x \in Slices : SliceOk(x) /\ slice' = [slice EXCEPT ![w] = x]

\* What a step leaves in the slot of w, of any step but the ends below.
LEMMA SliceSteps ==
  ASSUME RunType, NEW w \in Slots
  PROVE  /\ Research!Done(w) => SliceStepped(w)
         /\ \A k \in Research!Kinds : Research!Take(w, k) => SliceStepped(w)
         /\ Research!ReadRun(w) => SliceStepped(w)
         /\ Research!Load(w) => SliceStepped(w)
         /\ Research!Harvest(w) => SliceStepped(w)
         /\ Research!Record(w) => SliceStepped(w)
         /\ Research!Count(w) => SliceStepped(w)
         /\ Research!Look(w) => SliceStepped(w)
         /\ Research!ClaimFound(w) => SliceStepped(w)
         /\ Research!Judge(w) => SliceStepped(w)
         /\ Research!Left(w) => SliceStepped(w)
  <1>0. /\ slice \in [Slots -> Slices] /\ position \in 0 .. Queries
        /\ slice[w] \in Slices /\ SliceOk(slice[w])
        /\ slice[w].at \in DiscoverPlaces \ {"read", "pause"} => slice[w].kind = "discover"
        /\ slice[w].at \in VerifyPlaces \ {"read", "pause"} => slice[w].kind = "verify"
        /\ slice[w].at # "idle" => slice[w].kind = "discover" \/ slice[w].kind = "verify"
        /\ slice[w].at # "judge" => slice[w].mine = {}
    BY KindOf DEF RunType
  <1> USE <1>0, RunBounds
  <1>1. Research!Done(w) => SliceStepped(w)
    BY Idlers DEF Research!Done, SliceStepped
  <1>2. ASSUME NEW k \in Research!Kinds, Research!Take(w, k) PROVE SliceStepped(w)
    <2> DEFINE x == [Research!NoSlice EXCEPT !.kind = k, !.at = "read"]
    <2>1. x \in Slices
      BY Idlers DEF Slices, DiscoverPlaces
    <2>2. x.kind = k /\ x.at = "read" /\ x.mine = {}
      BY DEF Research!NoSlice
    <2>3. k # "none"
      BY DEF Research!Kinds
    <2>4. SliceOk(x)
      BY <2>2, <2>3 DEF SliceOk, DiscoverPlaces, VerifyPlaces, Research!NoSlice
    <2> QED
      BY <1>2, <2>1, <2>4 DEF SliceStepped, Research!Take
  <1>3. ASSUME Research!ReadRun(w) PROVE SliceStepped(w)
    <2>1. slice[w].at = "read"
      BY <1>3 DEF Research!ReadRun, Research!At
    <2> DEFINE l == IF slice[w].kind = "discover" THEN "load" ELSE "look"
    <2>2. Research!Done(w) \/ Research!GoTo(w, "pause") \/ Research!GoTo(w, l)
      BY <1>3 DEF Research!ReadRun
    <2>3. CASE Research!GoTo(w, "pause")
      BY <2>1, <2>3, SliceGoes DEF SliceStepped, DiscoverPlaces, VerifyPlaces
    <2>4. CASE Research!GoTo(w, l)
      BY <2>1, <2>4, SliceGoes DEF SliceStepped, DiscoverPlaces, VerifyPlaces
    <2> QED
      BY <1>1, <2>2, <2>3, <2>4
  <1>4. ASSUME Research!Load(w) PROVE SliceStepped(w)
    <2> DEFINE l == IF position < Queries THEN "harvest" ELSE "count"
               x == [slice[w] EXCEPT !.next = position, !.broke = FALSE, !.at = l]
    <2>1. slice[w].at = "load" /\ slice' = [slice EXCEPT ![w] = x]
      BY <1>4 DEF Research!Load, Research!At
    <2>2. /\ l \in DiscoverPlaces \ {"record"}
          /\ l = "harvest" => position < Queries
      BY DEF DiscoverPlaces
    <2>3. x \in Slices
      BY <2>2 DEF Slices
    <2>4. x.kind = "discover" /\ x.at = l /\ x.next = position /\ x.mine = {}
      BY <2>1 DEF Slices, DiscoverPlaces
    <2> HIDE DEF x, l
    <2>5. SliceOk(x)
      BY <2>2, <2>3, <2>4, WellPlaced
    <2> QED
      BY <2>1, <2>3, <2>5 DEF SliceStepped
  <1>5. ASSUME Research!Harvest(w) PROVE SliceStepped(w)
    <2>1. PICK broke \in BOOLEAN :
            slice' = [slice EXCEPT ![w].at = "record", ![w].broke = @ \/ broke]
      BY <1>5 DEF Research!Harvest
    <2> DEFINE x == [slice[w] EXCEPT !.at = "record", !.broke = slice[w].broke \/ broke]
    <2>2. slice[w].at = "harvest" /\ slice' = [slice EXCEPT ![w] = x]
      BY <1>5, <2>1 DEF Research!Harvest, Research!At
    <2>3. x \in Slices
      BY DEF Slices, DiscoverPlaces
    <2>4. x.kind = "discover" /\ x.at = "record" /\ x.next = slice[w].next /\ x.mine = {}
      BY <2>2 DEF Slices, DiscoverPlaces
    <2>5. x.next < Queries
      BY <2>2, <2>4 DEF SliceOk
    <2> HIDE DEF x
    <2>6. SliceOk(x)
      BY <2>3, <2>4, <2>5, WellPlaced DEF DiscoverPlaces
    <2> QED
      BY <2>2, <2>3, <2>6 DEF SliceStepped
  <1>6. ASSUME Research!Record(w) PROVE SliceStepped(w)
    <2> DEFINE n == slice[w].next + 1
               l == IF n >= Queries THEN "count"
                    ELSE IF slice[w].passes + 1 < PassesPerSlice THEN "read" ELSE "handover"
               x == [slice[w] EXCEPT !.next = n, !.passes = slice[w].passes + 1, !.at = l]
    <2>1. slice[w].at = "record" /\ slice' = [slice EXCEPT ![w] = x]
      BY <1>6 DEF Research!Record, Research!At
    <2>2. /\ l \in DiscoverPlaces \ {"harvest", "record"} /\ n \in 0 .. Queries
          /\ slice[w].passes + 1 \in Nat
      BY <2>1 DEF DiscoverPlaces, SliceOk, Slices
    <2> HIDE DEF n, l
    <2>3. x \in Slices
      BY <2>2 DEF Slices
    <2>4. x.kind = "discover" /\ x.at = l /\ x.mine = {}
      BY <2>1 DEF Slices, DiscoverPlaces
    <2> HIDE DEF x, l
    <2>5. SliceOk(x)
      BY <2>2, <2>3, <2>4, WellPlaced
    <2> QED
      BY <2>1, <2>3, <2>5 DEF SliceStepped
  <1>7. ASSUME Research!Count(w) PROVE SliceStepped(w)
    <2>1. slice[w].at = "count" /\ \E l \in {"fail", "begin", "succeed"} : Research!GoTo(w, l)
      <3>1. slice[w].at = "count"
        BY <1>7 DEF Research!Count, Research!At
      <3> QED
        BY <1>7, <3>1 DEF Research!Count
    <2> QED
      BY <2>1, SliceGoes DEF SliceStepped, DiscoverPlaces
  <1>8. ASSUME Research!Look(w) PROVE SliceStepped(w)
    <2>1. slice[w].at = "look"
      BY <1>8 DEF Research!Look, Research!At
    <2>2. CASE Research!GoTo(w, "left")
      BY <2>1, <2>2, SliceGoes DEF SliceStepped, VerifyPlaces
    <2>3. CASE \E c \in Found : slice' = [slice EXCEPT ![w].look = {c}, ![w].at = "claim"]
      <3>1. PICK c \in Found : slice' = [slice EXCEPT ![w].look = {c}, ![w].at = "claim"]
        BY <2>3
      <3> DEFINE x == [slice[w] EXCEPT !.look = {c}, !.at = "claim"]
      <3>2. slice' = [slice EXCEPT ![w] = x]
        BY <3>1
      <3>3. x \in Slices
        BY DEF Slices, VerifyPlaces
      <3>4. x.kind = "verify" /\ x.at = "claim" /\ x.mine = {}
        BY <2>1 DEF Slices, VerifyPlaces
      <3> HIDE DEF x
      <3>5. SliceOk(x)
        BY <3>3, <3>4, WellPlaced DEF VerifyPlaces
      <3> QED
        BY <3>2, <3>3, <3>5 DEF SliceStepped
    <2> QED
      BY <1>8, <2>2, <2>3 DEF Research!Look
  <1>9. ASSUME Research!ClaimFound(w) PROVE SliceStepped(w)
    <2> DEFINE mine == {c \in slice[w].look : Research!Claimable(c)}
               l == IF mine = {} THEN "left" ELSE "judge"
               x == [slice[w] EXCEPT !.look = {}, !.mine = mine, !.at = l]
    <2>1. slice[w].at = "claim" /\ slice' = [slice EXCEPT ![w] = x]
      BY <1>9 DEF Research!ClaimFound, Research!At
    <2>2. mine \in SUBSET Found /\ l \in VerifyPlaces /\ (mine # {} => l = "judge")
      BY DEF Slices, VerifyPlaces
    <2>3. x \in Slices
      BY <2>2 DEF Slices
    <2>4. x.kind = "verify" /\ x.at = l /\ x.mine = mine
      BY <2>1 DEF Slices, VerifyPlaces
    <2> HIDE DEF x, l, mine
    <2>5. SliceOk(x)
      BY <2>2, <2>3, <2>4, WellPlaced DEF VerifyPlaces
    <2> QED
      BY <2>1, <2>3, <2>5 DEF SliceStepped
  <1>10. ASSUME Research!Judge(w) PROVE SliceStepped(w)
    <2> DEFINE x == [slice[w] EXCEPT !.mine = {}, !.at = "left"]
    <2>1. slice[w].at = "judge" /\ slice' = [slice EXCEPT ![w] = x]
      BY <1>10 DEF Research!Judge, Research!At
    <2>2. x \in Slices
      BY DEF Slices, VerifyPlaces
    <2>3. x.kind = "verify" /\ x.at = "left" /\ x.mine = {}
      BY <2>1 DEF Slices, VerifyPlaces
    <2> HIDE DEF x
    <2>4. SliceOk(x)
      BY <2>2, <2>3, WellPlaced DEF VerifyPlaces
    <2> QED
      BY <2>1, <2>2, <2>4 DEF SliceStepped
  <1>11. ASSUME Research!Left(w) PROVE SliceStepped(w)
    <2>1. slice[w].at = "left" /\ \E l \in {"finalize", "again"} : Research!GoTo(w, l)
      BY <1>11 DEF Research!Left, Research!At
    <2> QED
      BY <2>1, SliceGoes DEF SliceStepped, VerifyPlaces
  <1> QED
    BY <1>1, <1>2, <1>3, <1>4, <1>5, <1>6, <1>7, <1>8, <1>9, <1>10, <1>11

\* What the steps of a slice write about it.
LEMMA SliceWrites ==
  ASSUME RunType, NEW w \in Slots
  PROVE  /\ \A k \in Research!Kinds : Research!Take(w, k) =>
              /\ slice[w] = Research!NoSlice
              /\ slice'[w].kind = k /\ slice'[w].at = "read"
              /\ slice'[w].next = 0 /\ slice'[w].mine = {}
         /\ Research!ReadRun(w) =>
              /\ slice[w].at = "read"
              /\ \/ Research!Done(w) /\ status # "running"
                 \/ /\ slice'[w].at \in {"pause", "load", "look"} /\ slice'[w].mine = {}
                    /\ slice'[w].kind = slice[w].kind /\ slice'[w].next = slice[w].next
         /\ Research!Load(w) =>
              /\ slice[w].at = "load" /\ slice'[w].kind = "discover"
              /\ slice'[w].next = position /\ slice'[w].mine = {}
              /\ slice'[w].at = IF position < Queries THEN "harvest" ELSE "count"
         /\ Research!Harvest(w) =>
              /\ slice[w].at = "harvest" /\ slice'[w].kind = "discover"
              /\ slice'[w].next = slice[w].next /\ slice'[w].mine = {}
              /\ slice'[w].at = "record"
         /\ Research!Record(w) =>
              /\ slice[w].at = "record" /\ slice'[w].kind = "discover"
              /\ slice'[w].next = slice[w].next + 1 /\ slice'[w].mine = {}
              /\ slice'[w].at \in {"count", "read", "handover"}
              /\ slice'[w].at = "count" => slice[w].next + 1 >= Queries
         /\ Research!Count(w) =>
              /\ slice[w].at = "count" /\ slice'[w].kind = "discover"
              /\ slice'[w].next = slice[w].next /\ slice'[w].mine = {}
              /\ slice'[w].at \in {"fail", "begin", "succeed"}
              /\ slice'[w].at = "succeed" => Research!Pending = {}
         /\ Research!Look(w) =>
              /\ slice[w].at = "look" /\ slice'[w].kind = "verify"
              /\ slice'[w].next = slice[w].next /\ slice'[w].mine = {}
              /\ slice'[w].at \in {"claim", "left"}
         /\ Research!ClaimFound(w) =>
              /\ slice[w].at = "claim" /\ slice'[w].kind = "verify"
              /\ slice'[w].next = slice[w].next
              /\ slice'[w].mine = {c \in slice[w].look : Research!Claimable(c)}
              /\ slice'[w].at \in {"left", "judge"}
         /\ Research!Judge(w) =>
              /\ slice[w].at = "judge" /\ slice'[w].kind = "verify"
              /\ slice'[w].next = slice[w].next /\ slice'[w].mine = {}
              /\ slice'[w].at = "left"
         /\ Research!Left(w) =>
              /\ slice[w].at = "left" /\ slice'[w].kind = "verify"
              /\ slice'[w].next = slice[w].next /\ slice'[w].mine = {}
              /\ slice'[w].at \in {"finalize", "again"}
              /\ slice'[w].at = "finalize" => Research!Pending = {}
  <1>0. /\ slice \in [Slots -> Slices] /\ slice[w] \in Slices
        /\ slice[w].at \in DiscoverPlaces \ {"read", "pause"} => slice[w].kind = "discover"
        /\ slice[w].at \in VerifyPlaces \ {"read", "pause"} => slice[w].kind = "verify"
        /\ slice[w].at # "judge" => slice[w].mine = {}
    BY KindOf DEF RunType
  <1>l. ASSUME NEW l, Research!GoTo(w, l)
        PROVE  /\ slice'[w].at = l /\ slice'[w].kind = slice[w].kind
               /\ slice'[w].next = slice[w].next /\ slice'[w].mine = slice[w].mine
    BY <1>0, <1>l DEF Research!GoTo, Slices
  <1>1. ASSUME NEW k \in Research!Kinds, Research!Take(w, k)
        PROVE  /\ slice[w] = Research!NoSlice
               /\ slice'[w].kind = k /\ slice'[w].at = "read"
               /\ slice'[w].next = 0 /\ slice'[w].mine = {}
    BY <1>0, <1>1 DEF Research!Take, Research!NoSlice
  <1>2. ASSUME Research!ReadRun(w)
        PROVE  /\ slice[w].at = "read"
               /\ \/ Research!Done(w) /\ status # "running"
                  \/ /\ slice'[w].at \in {"pause", "load", "look"} /\ slice'[w].mine = {}
                     /\ slice'[w].kind = slice[w].kind /\ slice'[w].next = slice[w].next
    <2>1. slice[w].at = "read"
      BY <1>2 DEF Research!ReadRun, Research!At
    <2>2. CASE status # "running"
      BY <1>2, <2>1, <2>2 DEF Research!ReadRun
    <2>3. CASE status = "running"
      <3>1. \E l \in {"pause", "load", "look"} : Research!GoTo(w, l)
        BY <1>2, <2>3 DEF Research!ReadRun
      <3> QED
        BY <1>0, <1>l, <2>1, <3>1
    <2> QED
      BY <2>2, <2>3
  <1>3. ASSUME Research!Load(w)
        PROVE  /\ slice[w].at = "load" /\ slice'[w].kind = "discover"
               /\ slice'[w].next = position /\ slice'[w].mine = {}
               /\ slice'[w].at = IF position < Queries THEN "harvest" ELSE "count"
    BY <1>0, <1>3 DEF Research!Load, Research!At, Slices, DiscoverPlaces
  <1>4. ASSUME Research!Harvest(w)
        PROVE  /\ slice[w].at = "harvest" /\ slice'[w].kind = "discover"
               /\ slice'[w].next = slice[w].next /\ slice'[w].mine = {}
               /\ slice'[w].at = "record"
    <2>1. PICK broke \in BOOLEAN :
            slice' = [slice EXCEPT ![w].at = "record", ![w].broke = @ \/ broke]
      BY <1>4 DEF Research!Harvest
    <2> QED
      BY <1>0, <1>4, <2>1 DEF Research!Harvest, Research!At, Slices, DiscoverPlaces
  <1>5. ASSUME Research!Record(w)
        PROVE  /\ slice[w].at = "record" /\ slice'[w].kind = "discover"
               /\ slice'[w].next = slice[w].next + 1 /\ slice'[w].mine = {}
               /\ slice'[w].at \in {"count", "read", "handover"}
               /\ slice'[w].at = "count" => slice[w].next + 1 >= Queries
    BY <1>0, <1>5 DEF Research!Record, Research!At, Slices, DiscoverPlaces
  <1>6. ASSUME Research!Count(w)
        PROVE  /\ slice[w].at = "count" /\ slice'[w].kind = "discover"
               /\ slice'[w].next = slice[w].next /\ slice'[w].mine = {}
               /\ slice'[w].at \in {"fail", "begin", "succeed"}
               /\ slice'[w].at = "succeed" => Research!Pending = {}
    <2>1. slice[w].at = "count"
      BY <1>6 DEF Research!Count, Research!At
    <2>2. \/ Research!GoTo(w, "fail") \/ Research!GoTo(w, "begin")
          \/ Research!GoTo(w, "succeed") /\ Research!Pending = {}
      <3>1. CASE Research!In("absent") = Found /\ slice[w].broke
        BY <1>6, <3>1 DEF Research!Count
      <3>2. CASE Research!In("absent") # Found /\ Research!Pending # {}
        BY <1>6, <3>2 DEF Research!Count
      <3>3. CASE /\ ~(Research!In("absent") = Found /\ slice[w].broke)
                 /\ ~(Research!In("absent") # Found /\ Research!Pending # {})
        <4>1. Research!GoTo(w, "succeed")
          BY <1>6, <3>3 DEF Research!Count
        <4>2. Research!In("absent") = Found => Research!Pending = {}
          BY DEF Research!In, Research!Pending
        <4> QED
          BY <3>3, <4>1, <4>2
      <3> QED
        BY <3>1, <3>2, <3>3
    <2> QED
      BY <1>0, <1>l, <2>1, <2>2 DEF DiscoverPlaces
  <1>7. ASSUME Research!Look(w)
        PROVE  /\ slice[w].at = "look" /\ slice'[w].kind = "verify"
               /\ slice'[w].next = slice[w].next /\ slice'[w].mine = {}
               /\ slice'[w].at \in {"claim", "left"}
    <2>1. slice[w].at = "look"
      BY <1>7 DEF Research!Look, Research!At
    <2>2. CASE Research!GoTo(w, "left")
      BY <1>0, <1>l, <2>1, <2>2 DEF VerifyPlaces
    <2>3. ASSUME NEW c \in Found, slice' = [slice EXCEPT ![w].look = {c}, ![w].at = "claim"]
          PROVE  /\ slice'[w].kind = "verify" /\ slice'[w].next = slice[w].next
                 /\ slice'[w].mine = {} /\ slice'[w].at = "claim"
      BY <1>0, <2>1, <2>3 DEF Slices, VerifyPlaces
    <2> QED
      BY <1>7, <2>1, <2>2, <2>3 DEF Research!Look
  <1>8. ASSUME Research!ClaimFound(w)
        PROVE  /\ slice[w].at = "claim" /\ slice'[w].kind = "verify"
               /\ slice'[w].next = slice[w].next
               /\ slice'[w].mine = {c \in slice[w].look : Research!Claimable(c)}
               /\ slice'[w].at \in {"left", "judge"}
    <2> DEFINE mine == {c \in slice[w].look : Research!Claimable(c)}
               l == IF mine = {} THEN "left" ELSE "judge"
    <2>1. slice[w].at = "claim"
      BY <1>8 DEF Research!ClaimFound, Research!At
    <2>2. slice' = [slice EXCEPT ![w].look = {}, ![w].mine = mine, ![w].at = l]
      BY <1>8 DEF Research!ClaimFound
    <2>3. l \in {"left", "judge"}
      OBVIOUS
    <2> HIDE DEF mine, l
    <2>4. /\ slice'[w].kind = "verify" /\ slice'[w].next = slice[w].next
          /\ slice'[w].mine = mine /\ slice'[w].at = l
      BY <1>0, <2>1, <2>2 DEF Slices, VerifyPlaces
    <2> QED
      BY <2>1, <2>3, <2>4 DEF mine
  <1>9. ASSUME Research!Judge(w)
        PROVE  /\ slice[w].at = "judge" /\ slice'[w].kind = "verify"
               /\ slice'[w].next = slice[w].next /\ slice'[w].mine = {}
               /\ slice'[w].at = "left"
    BY <1>0, <1>9 DEF Research!Judge, Research!At, Slices, VerifyPlaces
  <1>10. ASSUME Research!Left(w)
         PROVE  /\ slice[w].at = "left" /\ slice'[w].kind = "verify"
                /\ slice'[w].next = slice[w].next /\ slice'[w].mine = {}
                /\ slice'[w].at \in {"finalize", "again"}
                /\ slice'[w].at = "finalize" => Research!Pending = {}
    <2>1. slice[w].at = "left"
      BY <1>10 DEF Research!Left, Research!At
    <2>2. \/ Research!GoTo(w, "finalize") /\ Research!Pending = {}
          \/ Research!GoTo(w, "again")
      BY <1>10 DEF Research!Left
    <2> QED
      BY <1>0, <1>l, <2>1, <2>2 DEF VerifyPlaces
  <1> QED
    BY <1>1, <1>2, <1>3, <1>4, <1>5, <1>6, <1>7, <1>8, <1>9, <1>10

\* A worker slot takes a step.
SliceStep(w) ==
    \/ \E k \in Research!Kinds : Research!Take(w, k)
    \/ Research!ReadRun(w) \/ Research!HonourPause(w)
    \/ Research!Load(w) \/ Research!NoProvider(w) \/ Research!Harvest(w) \/ Research!Record(w)
    \/ Research!Count(w) \/ Research!Settle(w)
    \/ Research!HandOver(w) \/ Research!Throw(w)
    \/ Research!Look(w) \/ Research!ClaimFound(w) \/ Research!Judge(w) \/ Research!Left(w)
    \/ Research!Finalize(w) \/ Research!Again(w)
    \/ Research!Die(w)

\* What a slot's step leaves of the candidates is a row of the table.
LEMMA FoundTypes ==
  ASSUME RunType, NEW w \in Slots, SliceStep(w)
  PROVE  found' \in [Found -> Candidates]
  <1> USE RunBounds
  <1>0. found \in [Found -> Candidates]
    BY DEF RunType
  <1>1. [Research!Absent EXCEPT !.is = "settled"] \in Candidates
    BY Idlers DEF Candidates, Research!Verdicts
  <1>2. CASE Research!Harvest(w)
    <2>1. \E hits \in SUBSET Found, as \in Research!AtInsert :
            found' = [c \in Found |-> IF c \in hits THEN as ELSE found[c]]
      BY <1>2 DEF Research!Harvest, Research!In
    <2>2. Research!AtInsert \subseteq Candidates
      BY <1>1, Idlers DEF Research!AtInsert
    <2> QED
      BY <1>0, <2>1, <2>2
  <1>3. CASE Research!ClaimFound(w)
    <2>1. \A c \in Found : [found[c] EXCEPT !.by = w, !.live = TRUE] \in Candidates
      BY <1>0 DEF Candidates
    <2>2. \E mine : found' = [c \in Found |->
            IF c \in mine THEN [found[c] EXCEPT !.by = w, !.live = TRUE] ELSE found[c]]
      BY <1>3 DEF Research!ClaimFound
    <2> QED
      BY <1>0, <2>1, <2>2
  <1>4. CASE Research!Judge(w)
    <2>1. slice[w].mine \subseteq Found
      BY KindOf DEF Slices
    <2>2. ASSUME NEW c \in Found PROVE Research!Outcome(c) \subseteq Candidates
      <3>1. found[c].tries \in 0 .. MaxTries
        BY <1>0 DEF Candidates
      <3>2. [Research!Absent EXCEPT !.is = "settled", !.tries = found[c].tries] \in Candidates
        BY <3>1, Idlers DEF Candidates, Research!Verdicts
      <3>3. [Research!New EXCEPT !.tries = found[c].tries] \in Candidates
        BY <3>1, Idlers DEF Candidates
      <3>4. [Research!Absent EXCEPT !.is = "unverified", !.tries = MaxTries] \in Candidates
        <4>1. MaxTries \in 0 .. MaxTries /\ "unverified" \in Research!Verdicts
          BY DEF Research!Verdicts
        <4> QED
          BY <4>1, Idlers DEF Candidates
      <3>5. ~(found[c].tries + 1 >= MaxTries) =>
              [Research!New EXCEPT !.tries = found[c].tries + 1] \in Candidates
        BY <3>1, Idlers DEF Candidates
      <3> QED
        BY <3>2, <3>3, <3>4, <3>5 DEF Research!Outcome
    <2>3. \/ \E c \in Found : \E o \in Candidates : found' = [found EXCEPT ![c] = o]
          \/ found' = found
      BY <1>4, <2>1, <2>2 DEF Research!Judge
    <2> QED
      BY <1>0, <2>3
  <1>5. CASE Research!Die(w)
    <2>1. \A c \in Found : [found[c] EXCEPT !.by = "dead"] \in Candidates
      BY <1>0 DEF Candidates
    <2> QED
      BY <1>0, <1>5, <2>1 DEF Research!Die
  <1>6. CASE found' = found
    BY <1>0, <1>6
  <1> QED
    BY <1>2, <1>3, <1>4, <1>5, <1>6 DEF SliceStep, Research!Take, Research!ReadRun,
       Research!HonourPause, Research!Load, Research!NoProvider, Research!Record, Research!Count,
       Research!Settle, Research!HandOver, Research!Throw, Research!Look, Research!Left,
       Research!Finalize, Research!Again

\* A slot's step leaves a slot with a well-formed slice or with none.
LEMMA EverySliceSteps ==
  ASSUME RunType, NEW w \in Slots, SliceStep(w)
  PROVE  SliceStepped(w)
  <1>1. Research!HonourPause(w) \/ Research!NoProvider(w) \/ Research!Settle(w)
          \/ Research!HandOver(w) \/ Research!Throw(w) \/ Research!Finalize(w)
          \/ Research!Again(w) \/ Research!Die(w) => Research!Done(w)
    BY DEF Research!HonourPause, Research!NoProvider, Research!Settle, Research!HandOver,
       Research!Throw, Research!Finalize, Research!Again, Research!Die
  <1> QED
    BY <1>1, SliceSteps DEF SliceStep

\* The row and the queue after a slot's step.
LEMMA RowTypes ==
  ASSUME RunType, NEW w \in Slots, SliceStep(w)
  PROVE  /\ status' \in Research!Statuses /\ position' \in 0 .. Queries
         /\ pausing' \in BOOLEAN /\ warm' \in BOOLEAN /\ startedAt' \in BOOLEAN
         /\ searched' \subseteq 0 .. Queries - 1 /\ searched \subseteq searched'
         /\ unqueued' \in BOOLEAN /\ doubled' = doubled /\ muted' = muted /\ ask' = ask
  <1> USE RunBounds
  <1>0. /\ status \in Research!Statuses /\ position \in 0 .. Queries
        /\ pausing \in BOOLEAN /\ warm \in BOOLEAN /\ startedAt \in BOOLEAN
        /\ searched \subseteq 0 .. Queries - 1 /\ unqueued \in BOOLEAN
        /\ slice[w] \in Slices /\ SliceOk(slice[w])
    BY KindOf DEF RunType
  <1> USE <1>0
  <1>1. CASE \E k \in Research!Kinds : Research!Take(w, k)
    BY <1>1 DEF Research!Take, Research!row, Research!past
  <1>2. CASE Research!ReadRun(w) \/ Research!Count(w) \/ Research!Look(w) \/ Research!ClaimFound(w)
               \/ Research!Left(w)
    BY <1>2 DEF Research!ReadRun, Research!Count, Research!Look, Research!ClaimFound, Research!Left,
       Research!row, Research!past
  <1>3. CASE Research!HonourPause(w)
    BY <1>3 DEF Research!HonourPause, Research!IfRunning, Research!Set, Research!Touch,
       Research!Statuses, Research!past
  <1>4. CASE Research!Load(w)
    BY <1>4 DEF Research!Load, Research!Set, Research!Touch, Research!Statuses, Research!past
  <1>5. CASE Research!NoProvider(w)
    BY <1>5 DEF Research!NoProvider, Research!Set, Research!Touch, Research!Statuses
  <1>6. CASE Research!Harvest(w)
    <2>1. slice[w].next \in 0 .. Queries - 1
      BY <1>6, SliceWrites DEF SliceOk, Slices
    <2> QED
      BY <1>6, <2>1 DEF Research!Harvest, Research!row
  <1>7. CASE Research!Record(w)
    <2>1. slice[w].next + 1 \in 0 .. Queries
      BY <1>7, SliceWrites DEF SliceOk, Slices
    <2> QED
      BY <1>7, <2>1 DEF Research!Record, Research!Touch, Research!past
  <1>8. CASE Research!Settle(w)
    BY <1>8 DEF Research!Settle, Research!Set, Research!Touch, Research!Statuses, Research!past
  <1>9. CASE Research!HandOver(w)
    BY <1>9 DEF Research!HandOver, Research!IfRunning, Research!Set, Research!Touch,
       Research!Statuses
  <1>10. CASE Research!Throw(w)
    BY <1>10 DEF Research!Throw, Research!IfRunning, Research!Set, Research!Touch,
       Research!Statuses
  <1>11. CASE Research!Judge(w)
    BY <1>11 DEF Research!Judge, Research!past
  <1>12. CASE Research!Finalize(w)
    BY <1>12 DEF Research!Finalize, Research!IfRunning, Research!Set, Research!Touch,
       Research!Statuses, Research!past
  <1>13. CASE Research!Again(w)
    BY <1>13 DEF Research!Again, Research!row
  <1>14. CASE Research!Die(w)
    BY <1>14 DEF Research!Die, Research!row
  <1> QED
    BY <1>1, <1>2, <1>3, <1>4, <1>5, <1>6, <1>7, <1>8, <1>9, <1>10, <1>11, <1>12, <1>13, <1>14
       DEF SliceStep

\* A slot keeps its job, hands it on, or takes one that waits.
Keeps(w) == slice[w] # Research!NoSlice /\ queue' = queue
HandsOn(w) ==
    /\ slice[w] # Research!NoSlice /\ slice'[w] = Research!NoSlice
    /\ \E k \in Research!Kinds : queue' = [queue EXCEPT ![k] = @ + 1]
Takes(w) ==
    /\ slice[w] = Research!NoSlice
    /\ \E k \in Research!Kinds : queue[k] > 0 /\ queue' = [queue EXCEPT ![k] = @ - 1]

\* Every step of a slot is one of the three.
LEMMA RunnerSteps ==
  ASSUME RunType, NEW w \in Slots, SliceStep(w)
  PROVE  Keeps(w) \/ HandsOn(w) \/ Takes(w)
  <1>0. /\ slice \in [Slots -> Slices] /\ slice[w] \in Slices
        /\ slice[w].at # "idle" => slice[w] # Research!NoSlice
        /\ slice[w].kind \in Research!Kinds \/ slice[w] = Research!NoSlice
        /\ Research!NoSlice.kind = "none"
        /\ Research!Done(w) => slice'[w] = Research!NoSlice
    BY KindOf DEF RunType, Research!NoSlice, Research!Done, Research!Kinds
  <1>1. CASE \E k \in Research!Kinds : Research!Take(w, k)
    BY <1>1 DEF Research!Take, Takes
  <1>2. CASE Research!ReadRun(w)
    BY <1>0, <1>2, SliceWrites DEF Keeps, Research!ReadRun
  <1>3. CASE Research!Count(w) \/ Research!Look(w) \/ Research!ClaimFound(w)
               \/ Research!Left(w) \/ Research!Load(w) \/ Research!Harvest(w) \/ Research!Record(w)
               \/ Research!Judge(w)
    <2>1. slice[w].at # "idle"
      BY <1>3, SliceWrites
    <2> QED
      BY <1>0, <1>3, <2>1 DEF Keeps, Research!Count, Research!Look, Research!ClaimFound,
         Research!Left, Research!Load, Research!Harvest, Research!Record, Research!Judge
  <1>4. CASE Research!HonourPause(w) \/ Research!NoProvider(w) \/ Research!Settle(w)
               \/ Research!Finalize(w)
    BY <1>0, <1>4 DEF Keeps, Research!HonourPause, Research!NoProvider, Research!Settle,
       Research!Finalize, Research!At
  <1>5. CASE Research!Throw(w)
    BY <1>0, <1>5 DEF Keeps, Research!Throw
  <1>6. CASE Research!HandOver(w)
    <2>1. slice[w] # Research!NoSlice /\ slice'[w] = Research!NoSlice
      BY <1>0, <1>6 DEF Research!HandOver
    <2>2. queue' = queue \/ \E k \in Research!Kinds : queue' = [queue EXCEPT ![k] = @ + 1]
      BY <1>6 DEF Research!HandOver, Research!Kinds
    <2> QED
      BY <2>1, <2>2 DEF Keeps, HandsOn
  <1>7. CASE Research!Again(w)
    BY <1>0, <1>7 DEF Keeps, HandsOn, Research!Again, Research!At, Research!Kinds
  <1>8. CASE Research!Die(w)
    BY <1>0, <1>8 DEF Keeps, HandsOn, Research!Die
  <1> QED
    BY <1>1, <1>2, <1>3, <1>4, <1>5, <1>6, <1>7, <1>8 DEF SliceStep

\* A step of a slot leaves every other slot as it was.
LEMMA OtherSlots ==
  ASSUME RunType, NEW w \in Slots, SliceStep(w)
  PROVE  /\ slice' \in [Slots -> Slices] /\ \A v \in Slots : SliceOk(slice'[v])
         /\ \A v \in Slots : v # w => slice'[v] = slice[v]
  <1>1. PICK x \in Slices : SliceOk(x) /\ slice' = [slice EXCEPT ![w] = x]
    BY EverySliceSteps DEF SliceStepped
  <1> QED
    BY <1>1, SliceMoves

\* The queue after a slot's step.
LEMMA QueueSlice ==
  ASSUME RunType, NEW w \in Slots, SliceStep(w)
  PROVE  queue' \in [Research!Kinds -> Nat]
  <1>0. queue \in [Research!Kinds -> Nat]
    BY DEF RunType
  <1> QED
    BY <1>0, RunnerSteps DEF Keeps, HandsOn, Takes

\* A slot's step leaves the run with one runner.
LEMMA OneRunnerSlice ==
  ASSUME RunType, OneRunner, NEW w \in Slots, SliceStep(w)
  PROVE  OneRunner'
  <1>0. /\ ask' = ask /\ doubled' = doubled /\ queue \in [Research!Kinds -> Nat]
        /\ \A v \in Slots : v # w => slice'[v] = slice[v]
    BY RowTypes, OtherSlots DEF RunType
  <1>1. "discover" \in Research!Kinds /\ "verify" \in Research!Kinds
    BY DEF Research!Kinds
  <1>2. CASE Keeps(w)
    BY <1>0, <1>2 DEF Keeps, OneRunner, Research!Waiting, Research!Worked
  <1>3. CASE HandsOn(w)
    <2>1. PICK k \in Research!Kinds : queue' = [queue EXCEPT ![k] = @ + 1]
      BY <1>3 DEF HandsOn
    <2>2. slice[w] # Research!NoSlice /\ slice'[w] = Research!NoSlice
      BY <1>3 DEF HandsOn
    <2>4. SUFFICES ASSUME ~doubled PROVE OneRunner'
      BY <1>0 DEF OneRunner
    <2>5. Research!Worked /\ ~Research!Waiting
      BY <2>2, <2>4 DEF OneRunner, Research!Worked
    <2>6. queue["discover"] = 0 /\ queue["verify"] = 0
      BY <1>0, <1>1, <2>5 DEF Research!Waiting
    <2>7. queue'["discover"] + queue'["verify"] <= 1
      BY <1>0, <1>1, <2>1, <2>6 DEF Research!Kinds
    <2>8. \A v \in Slots : slice'[v] = Research!NoSlice
      BY <1>0, <2>2, <2>4 DEF OneRunner
    <2>9. \A r \in Requests : ask[r].at # "enqueue"
      BY <2>4, <2>5 DEF OneRunner
    <2> QED
      BY <1>0, <2>4, <2>7, <2>8, <2>9 DEF OneRunner, Research!Worked
  <1>4. CASE Takes(w)
    <2>1. PICK k \in Research!Kinds : queue[k] > 0 /\ queue' = [queue EXCEPT ![k] = @ - 1]
      BY <1>4 DEF Takes
    <2>4. SUFFICES ASSUME ~doubled PROVE OneRunner'
      BY <1>0 DEF OneRunner
    <2>5. Research!Waiting /\ ~Research!Worked
      BY <2>1, <2>4 DEF OneRunner, Research!Waiting
    <2>6. queue["discover"] + queue["verify"] <= 1
      BY <2>4 DEF OneRunner
    <2>7. queue'["discover"] = 0 /\ queue'["verify"] = 0
      BY <1>0, <1>1, <2>1, <2>6 DEF Research!Kinds
    <2>8. \A v \in Slots : v # w => slice'[v] = Research!NoSlice
      BY <1>0, <2>5 DEF Research!Worked
    <2>9. \A r \in Requests : ask[r].at # "enqueue"
      BY <2>4, <2>5 DEF OneRunner
    <2>10. ~Research!Waiting'
      BY <2>7 DEF Research!Waiting, Research!Kinds
    <2>11. queue'["discover"] + queue'["verify"] <= 1
      BY <2>7
    <2> QED
      BY <1>0, <2>4, <2>8, <2>9, <2>10, <2>11 DEF OneRunner
  <1> QED
    BY <1>2, <1>3, <1>4, RunnerSteps

\* A slot's step runs the queries in order: a cursor moves only over a query that was run.
LEMMA WalkedSlice ==
  ASSUME RunType, WalkedInOrder, NEW w \in Slots, SliceStep(w)
  PROVE  WalkedInOrder'
  <1> USE RunBounds
  <1> DEFINE All == 0 .. Queries - 1 \subseteq searched
  <1>0. /\ \A v \in Slots : v # w => slice'[v] = slice[v]
        /\ searched \subseteq searched' /\ searched' \subseteq 0 .. Queries - 1
        /\ slice[w] \in Slices /\ SliceOk(slice[w]) /\ position \in 0 .. Queries
        /\ queue \in [Research!Kinds -> Nat] /\ "verify" \in Research!Kinds
        /\ Research!NoSlice.next = 0 /\ Research!NoSlice.at = "idle"
        /\ Research!NoSlice.kind = "none"
        /\ slice[w].at \in VerifyPlaces \ {"read", "pause"} => slice[w].kind = "verify"
        /\ slice[w].at # "idle" => slice[w] # Research!NoSlice
    BY RowTypes, OtherSlots, KindOf DEF RunType, Research!Kinds, Research!NoSlice
  <1>1. /\ 0 .. position - 1 \subseteq searched
        /\ 0 .. slice[w].next - 1 \subseteq searched
        /\ slice[w].at = "record" => slice[w].next \in searched
        /\ Behind(slice[w]) \/ queue["verify"] > 0 => All
    BY DEF WalkedInOrder
  <1>2. Research!Done(w) => slice'[w] = Research!NoSlice
    BY DEF RunType, Research!Done
  <1> HIDE DEF All
  \* It is enough that the slot's own cursor and the row's stand behind what was run.
  <1>3. ASSUME 0 .. position' - 1 \subseteq searched',
               0 .. slice'[w].next - 1 \subseteq searched',
               slice'[w].at = "record" => slice'[w].next \in searched',
               Behind(slice'[w]) => All,
               queue'["verify"] > queue["verify"] => All
        PROVE  WalkedInOrder'
    <2>1. queue'["verify"] > 0 => All
      <3>1. queue' \in [Research!Kinds -> Nat]
        BY QueueSlice
      <3> QED
        BY <1>0, <1>1, <1>3, <3>1
    <2>2. \A v \in Slots : Behind(slice'[v]) => All
      BY <1>0, <1>3 DEF WalkedInOrder, All
    <2>3. \A v \in Slots : 0 .. slice'[v].next - 1 \subseteq searched'
      BY <1>0, <1>3 DEF WalkedInOrder
    <2>4. \A v \in Slots : slice'[v].at = "record" => slice'[v].next \in searched'
      BY <1>0, <1>3 DEF WalkedInOrder
    <2>5. All => 0 .. Queries - 1 \subseteq searched'
      BY <1>0 DEF All
    <2> QED
      BY <1>3, <2>1, <2>2, <2>3, <2>4, <2>5 DEF WalkedInOrder
  <1>4. ASSUME Research!Done(w), position' = position, queue' = queue PROVE WalkedInOrder'
    BY <1>0, <1>1, <1>2, <1>3, <1>4 DEF Behind
  <1>5. ASSUME NEW k \in Research!Kinds, Research!Take(w, k) PROVE WalkedInOrder'
    <2>1. /\ slice'[w].kind = k /\ slice'[w].at = "read" /\ slice'[w].next = 0
          /\ queue[k] > 0 /\ queue' = [queue EXCEPT ![k] = @ - 1] /\ position' = position
      BY <1>5, SliceWrites DEF Research!Take, Research!row
    <2>2. ~(queue'["verify"] > queue["verify"])
      BY <1>0, <2>1
    <2> QED
      BY <1>0, <1>1, <1>3, <2>1, <2>2 DEF Behind
  <1>6. ASSUME Research!ReadRun(w) PROVE WalkedInOrder'
    <2>1. position' = position /\ queue' = queue
      BY <1>6 DEF Research!ReadRun, Research!row
    <2>2. CASE Research!Done(w)
      BY <1>4, <2>1, <2>2
    <2>3. CASE ~Research!Done(w)
      <3>1. /\ slice[w].at = "read" /\ slice'[w].at \in {"pause", "load", "look"}
            /\ slice'[w].kind = slice[w].kind /\ slice'[w].next = slice[w].next
        BY <1>6, <2>3, SliceWrites
      <3> QED
        BY <1>0, <1>1, <1>3, <2>1, <3>1 DEF Behind
    <2> QED
      BY <2>2, <2>3
  <1>7. ASSUME Research!Load(w) PROVE WalkedInOrder'
    <2>1. /\ position' = position /\ queue' = queue /\ slice'[w].kind = "discover"
          /\ slice'[w].next = position
          /\ slice'[w].at = IF position < Queries THEN "harvest" ELSE "count"
      BY <1>7, SliceWrites DEF Research!Load
    <2>2. ~(position < Queries) => All
      BY <1>0, <1>1 DEF All
    <2> QED
      BY <1>0, <1>1, <1>3, <2>1, <2>2 DEF Behind
  <1>8. ASSUME Research!Harvest(w) PROVE WalkedInOrder'
    <2>1. /\ position' = position /\ queue' = queue /\ slice'[w].kind = "discover"
          /\ slice'[w].next = slice[w].next /\ slice'[w].at = "record"
          /\ searched' = searched \cup {slice[w].next}
      BY <1>8, SliceWrites DEF Research!Harvest, Research!row
    <2> QED
      BY <1>0, <1>1, <1>3, <2>1 DEF Behind
  <1>9. ASSUME Research!Record(w) PROVE WalkedInOrder'
    <2>1. /\ slice[w].at = "record" /\ position' = slice[w].next + 1 /\ queue' = queue
          /\ slice'[w].kind = "discover" /\ slice'[w].next = slice[w].next + 1
          /\ slice'[w].at \in {"count", "read", "handover"}
          /\ slice'[w].at = "count" => slice[w].next + 1 >= Queries
          /\ slice[w].next \in 0 .. Queries
      BY <1>0, <1>9, SliceWrites DEF Research!Record, Research!past, Slices
    <2>2. 0 .. slice[w].next \subseteq searched
      BY <1>1, <2>1
    <2>3. slice[w].next + 1 >= Queries => All
      BY <2>1, <2>2 DEF All
    <2>4. 0 .. position' - 1 \subseteq searched' /\ 0 .. slice'[w].next - 1 \subseteq searched'
      BY <1>0, <2>1, <2>2
    <2> QED
      BY <1>0, <1>3, <2>1, <2>3, <2>4 DEF Behind
  <1>10. ASSUME Research!Count(w) \/ Research!Look(w) \/ Research!ClaimFound(w)
                  \/ Research!Judge(w) \/ Research!Left(w)
         PROVE  WalkedInOrder'
    <2>1. position' = position /\ queue' = queue
      BY <1>10 DEF Research!Count, Research!Look, Research!ClaimFound, Research!Judge,
         Research!Left, Research!row
    <2>2. /\ slice'[w].next = slice[w].next /\ slice'[w].at # "record"
          /\ slice[w].at \in {"count", "look", "claim", "judge", "left"}
      BY <1>10, SliceWrites
    <2>3. Behind(slice[w])
      BY <1>0, <2>2 DEF Behind, VerifyPlaces
    <2> QED
      BY <1>0, <1>1, <1>3, <2>1, <2>2, <2>3
  <1>11. ASSUME Research!HonourPause(w) \/ Research!NoProvider(w) \/ Research!Settle(w)
                  \/ Research!Throw(w) \/ Research!Finalize(w)
         PROVE  WalkedInOrder'
    BY <1>4, <1>11 DEF Research!HonourPause, Research!NoProvider, Research!Settle,
       Research!Throw, Research!Finalize
  <1>12. ASSUME Research!HandOver(w) \/ Research!Again(w) \/ Research!Die(w) PROVE WalkedInOrder'
    <2>1. /\ Research!Done(w) /\ position' = position
          /\ slice[w] # Research!NoSlice
      BY <1>0, <1>12 DEF Research!HandOver, Research!Again, Research!Die, Research!row, Research!At
    <2>2. queue'["verify"] > queue["verify"] => Behind(slice[w])
      <3>1. CASE Research!HandOver(w)
        <4>1. CASE slice[w].at = "begin"
          BY <4>1 DEF Behind
        <4>2. CASE slice[w].at # "begin"
          <5>1. queue' = queue \/ queue' = [queue EXCEPT !["discover"] = @ + 1]
            BY <3>1, <4>2 DEF Research!HandOver, Research!At
          <5> QED
            BY <1>0, <5>1
        <4> QED
          BY <4>1, <4>2
      <3>2. CASE Research!Again(w)
        BY <1>0, <3>2 DEF Research!Again, Research!At, Behind, VerifyPlaces
      <3>3. CASE Research!Die(w)
        <4>1. queue' = queue \/ queue' = [queue EXCEPT ![slice[w].kind] = @ + 1]
          BY <3>3 DEF Research!Die
        <4> QED
          BY <1>0, <4>1 DEF Behind
      <3> QED
        BY <1>12, <3>1, <3>2, <3>3
    <2> QED
      BY <1>0, <1>1, <1>2, <1>3, <2>1, <2>2 DEF Behind
  <1> QED
    BY <1>5, <1>6, <1>7, <1>8, <1>9, <1>10, <1>11, <1>12 DEF SliceStep

\* A slot's step leaves nothing pending where a slice is about to declare the run succeeded.
LEMMA NothingLeftSlice ==
  ASSUME RunType, OneRunner, NothingLeft, NEW w \in Slots, SliceStep(w)
  PROVE  NothingLeft'
  <1> DEFINE End == {"succeed", "finalize"}
  <1>0. /\ \A v \in Slots : v # w => slice'[v] = slice[v]
        /\ doubled' = doubled /\ slice \in [Slots -> Slices]
        /\ Research!NoSlice.at = "idle"
        /\ Research!Done(w) => slice'[w].at = "idle"
        /\ slice[w].at # "idle" => slice[w] # Research!NoSlice
    BY RowTypes, OtherSlots, KindOf DEF RunType, Research!NoSlice, Research!Done
  <1>1. SUFFICES ASSUME ~doubled, NEW v \in Slots, slice'[v].at \in End
                 PROVE  Research!Pending' = {}
    BY <1>0 DEF NothingLeft
  <1>2. ASSUME found' = found, slice'[w].at \in End => Research!Pending = {}
        PROVE  Research!Pending' = {}
    BY <1>0, <1>1, <1>2 DEF NothingLeft, Research!Pending, Research!In
  <1>3. ASSUME slice[w] # Research!NoSlice, slice'[w].at \notin End PROVE FALSE
    BY <1>0, <1>1, <1>3 DEF OneRunner
  <1>4. CASE \E k \in Research!Kinds : Research!Take(w, k)
    BY <1>2, <1>4, SliceWrites DEF Research!Take
  <1>5. CASE Research!ReadRun(w)
    BY <1>0, <1>2, <1>5, SliceWrites DEF Research!ReadRun
  <1>6. CASE Research!Load(w) \/ Research!Record(w) \/ Research!Look(w)
    BY <1>0, <1>3, <1>6, SliceWrites
  <1>7. CASE Research!Count(w)
    BY <1>2, <1>7, SliceWrites DEF Research!Count
  <1>8. CASE Research!Left(w)
    BY <1>2, <1>8, SliceWrites DEF Research!Left
  <1>9. CASE Research!Harvest(w) \/ Research!ClaimFound(w) \/ Research!Judge(w)
    BY <1>0, <1>3, <1>9, SliceWrites
  <1>10. CASE Research!HonourPause(w) \/ Research!NoProvider(w) \/ Research!Settle(w)
                \/ Research!HandOver(w) \/ Research!Throw(w) \/ Research!Finalize(w)
                \/ Research!Again(w)
    BY <1>0, <1>2, <1>10 DEF Research!HonourPause, Research!NoProvider, Research!Settle,
       Research!HandOver, Research!Throw, Research!Finalize, Research!Again
  <1>11. CASE Research!Die(w)
    BY <1>0, <1>3, <1>11 DEF Research!Die
  <1> QED
    BY <1>4, <1>5, <1>6, <1>7, <1>8, <1>9, <1>10, <1>11 DEF SliceStep

\* A slot's step takes no candidate from a slice that judges it.
LEMMA ClaimsSlice ==
  ASSUME RunType, ClaimsStand, NEW w \in Slots, SliceStep(w)
  PROVE  ClaimsStand'
  <1> USE RunBounds
  <1>0. /\ \A v \in Slots : v # w => slice'[v] = slice[v]
        /\ muted' = muted /\ slice \in [Slots -> Slices] /\ found \in [Found -> Candidates]
        /\ Research!NoSlice.mine = {}
        /\ Research!Done(w) => slice'[w].mine = {}
        /\ \A v \in Slots : slice[v].mine \subseteq Found
    BY RowTypes, OtherSlots DEF RunType, Research!NoSlice, Research!Done, Slices
  <1>1. SUFFICES ASSUME ~muted, NEW v \in Slots, NEW c \in slice'[v].mine
                 PROVE  found'[c].is = "pending" /\ found'[c].by = v /\ found'[c].live
    BY <1>0 DEF ClaimsStand
  <1>2. ASSUME v # w
        PROVE  /\ c \in slice[v].mine /\ c \in Found
               /\ found[c].is = "pending" /\ found[c].by = v /\ found[c].live
    BY <1>0, <1>1, <1>2 DEF ClaimsStand
  <1>3. ASSUME slice'[w].mine = {} PROVE v # w
    BY <1>1, <1>3
  <1>4. CASE Research!Harvest(w)
    <2>1. v # w
      BY <1>3, <1>4, SliceWrites
    <2>2. PICK hits \in SUBSET Research!In("absent"), as \in Research!AtInsert :
            found' = [d \in Found |-> IF d \in hits THEN as ELSE found[d]]
      BY <1>4 DEF Research!Harvest
    <2>3. c \notin hits
      BY <1>2, <2>1, <2>2 DEF Research!In
    <2> QED
      BY <1>2, <2>1, <2>2, <2>3
  <1>5. CASE Research!ClaimFound(w)
    <2> DEFINE mine == {d \in slice[w].look : Research!Claimable(d)}
    <2>1. found' = [d \in Found |-> IF d \in mine THEN [found[d] EXCEPT !.by = w, !.live = TRUE]
                                    ELSE found[d]]
      BY <1>5 DEF Research!ClaimFound
    <2>2. slice'[w].mine = mine
      BY <1>5, SliceWrites
    <2>3. CASE v = w
      <3>1. c \in mine /\ c \in Found /\ found[c].is = "pending"
        BY <1>1, <2>2, <2>3, KindOf DEF Slices, Research!Claimable
      <3> HIDE DEF mine
      <3>2. found'[c] = [found[c] EXCEPT !.by = w, !.live = TRUE]
        BY <2>1, <3>1
      <3> QED
        BY <1>0, <2>3, <3>1, <3>2 DEF Candidates
    <2>4. CASE v # w
      <3>1. c \notin mine
        BY <1>2, <2>4 DEF Research!Claimable
      <3> HIDE DEF mine
      <3> QED
        BY <1>2, <2>1, <2>4, <3>1
    <2> QED
      BY <2>3, <2>4
  <1>6. CASE Research!Judge(w)
    <2>1. v # w
      BY <1>3, <1>6, SliceWrites
    <2>2. PICK d \in slice[w].mine :
            found' = found \/ \E o \in Research!Outcome(d) : found' = [found EXCEPT ![d] = o]
      BY <1>6 DEF Research!Judge
    <2>3. found[d].by = w
      BY <1>1, <2>2 DEF ClaimsStand
    <2>4. c # d
      BY <1>2, <2>1, <2>3
    <2> QED
      BY <1>0, <1>2, <2>1, <2>2, <2>4
  <1>7. CASE Research!Die(w)
    <2>1. v # w
      BY <1>0, <1>3, <1>7 DEF Research!Die
    <2> QED
      BY <1>2, <1>7, <2>1 DEF Research!Die
  <1>8. CASE found' = found /\ slice'[w].mine = {}
    BY <1>2, <1>3, <1>8
  <1>9. CASE Research!HonourPause(w) \/ Research!NoProvider(w) \/ Research!Settle(w)
               \/ Research!HandOver(w) \/ Research!Throw(w) \/ Research!Finalize(w)
               \/ Research!Again(w)
    BY <1>0, <1>8, <1>9 DEF Research!HonourPause, Research!NoProvider, Research!Settle,
       Research!HandOver, Research!Throw, Research!Finalize, Research!Again
  <1>10. CASE Research!Load(w) \/ Research!Record(w) \/ Research!Look(w) \/ Research!Count(w)
                \/ Research!Left(w) \/ \E k \in Research!Kinds : Research!Take(w, k)
    BY <1>8, <1>10, SliceWrites DEF Research!Load, Research!Record, Research!Look, Research!Count,
       Research!Left, Research!Take
  <1>11. CASE Research!ReadRun(w)
    BY <1>0, <1>8, <1>11, SliceWrites DEF Research!ReadRun
  <1> QED
    BY <1>4, <1>5, <1>6, <1>7, <1>9, <1>10, <1>11 DEF SliceStep

\* A slot's step leaves a running run with someone to work it.
LEMMA WorkedSlice ==
  ASSUME RunType, Research!RunningIsWorked, NEW w \in Slots, SliceStep(w)
  PROVE  Research!RunningIsWorked'
  <1>0. /\ \A v \in Slots : v # w => slice'[v] = slice[v]
        /\ queue \in [Research!Kinds -> Nat] /\ slice \in [Slots -> Slices]
        /\ Research!NoSlice.at = "idle"
    BY OtherSlots DEF RunType, Research!NoSlice
  <1>1. slice'[w].at # "idle" => Research!RunningIsWorked'
    BY <1>0 DEF Research!RunningIsWorked, Research!Worked
  <1>2. ASSUME NEW k \in Research!Kinds, queue' = [queue EXCEPT ![k] = @ + 1]
        PROVE  Research!RunningIsWorked'
    <2>1. queue'[k] > 0
      BY <1>0, <1>2
    <2> QED
      BY <2>1 DEF Research!RunningIsWorked, Research!Waiting
  <1>3. status' # "running" \/ unqueued' => Research!RunningIsWorked'
    BY DEF Research!RunningIsWorked
  <1>4. CASE \/ Research!Load(w) \/ Research!Harvest(w) \/ Research!Record(w) \/ Research!Count(w)
             \/ Research!Look(w) \/ Research!ClaimFound(w) \/ Research!Judge(w) \/ Research!Left(w)
             \/ \E k \in Research!Kinds : Research!Take(w, k)
    BY <1>1, <1>4, SliceWrites
  <1>5. CASE Research!ReadRun(w)
    BY <1>1, <1>3, <1>5, SliceWrites DEF Research!ReadRun, Research!row
  <1>6. CASE Research!HonourPause(w) \/ Research!Throw(w)
    BY <1>3, <1>6 DEF Research!HonourPause, Research!Throw, Research!IfRunning, Research!Set
  <1>7. CASE Research!NoProvider(w) \/ Research!Settle(w)
    BY <1>3, <1>7 DEF Research!NoProvider, Research!Settle, Research!Set
  <1>8. CASE Research!Finalize(w)
    BY <1>3, <1>8 DEF Research!Finalize, Research!IfRunning, Research!Set
  <1>9. CASE Research!HandOver(w)
    <2>1. \/ \E k \in Research!Kinds : queue' = [queue EXCEPT ![k] = @ + 1]
          \/ Research!IfRunning("paused")
      BY <1>9 DEF Research!HandOver, Research!Kinds
    <2> QED
      BY <1>2, <1>3, <2>1 DEF Research!IfRunning, Research!Set
  <1>10. CASE Research!Again(w)
    BY <1>2, <1>3, <1>10 DEF Research!Again, Research!Kinds
  <1>11. CASE Research!Die(w)
    <2>1. slice[w].kind \in Research!Kinds
      BY <1>11, KindOf DEF Research!Die, Research!Kinds
    <2> QED
      BY <1>2, <1>3, <1>11, <2>1 DEF Research!Die
  <1> QED
    BY <1>4, <1>5, <1>6, <1>7, <1>8, <1>9, <1>10, <1>11 DEF SliceStep

\* A request takes a step.
RequestStep(r) ==
    \/ Research!Ask(r) \/ Research!Reopen(r) \/ Research!Claim(r) \/ Research!Enqueue(r)
    \/ Research!Undo(r)

\* Where a request goes, and what it leaves alone.
LEMMA RequestMoves ==
  ASSUME RunType, NEW r \in Requests, RequestStep(r)
  PROVE  /\ slice' = slice /\ position' = position /\ searched' = searched
         /\ unqueued' = unqueued /\ muted' = muted
         /\ \A q \in Requests : q # r => ask'[q] = ask[q]
         /\ Research!Ask(r) => ask[r].at = "idle" /\ ask'[r].at \in {"reopen", "claim"}
         /\ Research!Reopen(r) => ask[r].at = "reopen" /\ ask'[r].at \in {"idle", "claim"}
         /\ Research!Claim(r) => ask[r].at = "claim" /\ ask'[r].at \in {"idle", "enqueue"}
         /\ Research!Enqueue(r) => ask[r].at = "enqueue" /\ ask'[r].at \in {"idle", "undo"}
         /\ Research!Undo(r) => ask[r].at = "undo" /\ ask'[r].at = "idle"
  <1>0. ask \in [Requests -> Asks] /\ ask[r] \in Asks /\ Research!NoAsk.at = "idle"
    BY DEF RunType, Research!NoAsk
  <1>1. ASSUME NEW l, Research!AskAt(r, l)
        PROVE  ask'[r].at = l /\ \A q \in Requests : q # r => ask'[q] = ask[q]
    BY <1>0, <1>1 DEF Research!AskAt, Asks
  <1>2. ASSUME Research!Answer(r)
        PROVE  ask'[r].at = "idle" /\ \A q \in Requests : q # r => ask'[q] = ask[q]
    BY <1>0, <1>2 DEF Research!Answer
  <1>3. CASE Research!Ask(r)
    BY <1>0, <1>3 DEF Research!Ask, Research!Reopen, Research!Claim, Research!Enqueue, Research!Undo,
       Research!row
  <1>4. CASE Research!Reopen(r)
    BY <1>0, <1>1, <1>2, <1>4 DEF Research!Ask, Research!Reopen, Research!Claim, Research!Enqueue,
       Research!Undo, Research!row
  <1>5. CASE Research!Claim(r)
    BY <1>0, <1>1, <1>2, <1>5 DEF Research!Ask, Research!Reopen, Research!Claim, Research!Enqueue,
       Research!Undo
  <1>6. CASE Research!Enqueue(r)
    BY <1>0, <1>1, <1>2, <1>6 DEF Research!Ask, Research!Reopen, Research!Claim, Research!Enqueue,
       Research!Undo, Research!row
  <1>7. CASE Research!Undo(r)
    BY <1>0, <1>1, <1>2, <1>7 DEF Research!Ask, Research!Reopen, Research!Claim, Research!Enqueue,
       Research!Undo, Research!past
  <1> QED
    BY <1>3, <1>4, <1>5, <1>6, <1>7 DEF RequestStep

\* A request keeps what is known of the slices.
LEMMA RequestKeeps ==
  ASSUME RunType, WalkedInOrder, NothingLeft, ClaimsStand, NEW r \in Requests, RequestStep(r)
  PROVE  WalkedInOrder' /\ NothingLeft' /\ ClaimsStand'
  <1>0. /\ slice' = slice /\ position' = position /\ searched' = searched /\ muted' = muted
        /\ slice \in [Slots -> Slices] /\ found \in [Found -> Candidates]
        /\ queue \in [Research!Kinds -> Nat] /\ Research!NoSlice.at = "idle"
        /\ \A v \in Slots : slice[v].mine \subseteq Found
    BY RequestMoves DEF RunType, Research!NoSlice, Slices
  <1>1. queue'["verify"] = queue["verify"]
    <2>1. queue' = queue \/ queue' = [queue EXCEPT !["discover"] = @ + 1]
      BY DEF RequestStep, Research!Ask, Research!Reopen, Research!Claim, Research!Enqueue,
         Research!Undo
    <2> QED
      BY <1>0, <2>1 DEF Research!Kinds
  <1>2. WalkedInOrder'
    BY <1>0, <1>1 DEF WalkedInOrder
  <1>3. CASE found' = found /\ (doubled => doubled')
    BY <1>0, <1>2, <1>3 DEF NothingLeft, ClaimsStand, Research!Pending, Research!In
  <1>4. CASE Research!Reopen(r)
    <2>1. NothingLeft'
      <3>1. doubled' \/ ~Research!Worked
        BY <1>4 DEF Research!Reopen, Research!Busy
      <3> QED
        BY <1>0, <3>1 DEF NothingLeft, Research!Worked
    <2>2. ClaimsStand'
      <3>1. found' = [c \in Found |-> IF found[c].is = "unverified" THEN Research!New ELSE found[c]]
        BY <1>4 DEF Research!Reopen
      <3>2. \A c \in Found : found[c].is = "pending" => found'[c] = found[c]
        BY <3>1
      <3> QED
        BY <1>0, <3>2 DEF ClaimsStand
    <2> QED
      BY <1>2, <2>1, <2>2
  <1>5. CASE Research!Claim(r)
    BY <1>3, <1>5 DEF Research!Claim
  <1> QED
    BY <1>3, <1>4, <1>5 DEF RequestStep, Research!Ask, Research!Enqueue, Research!Undo, Research!past

\* A request that claims the run beside its runner is noted.
LEMMA OneRunnerRequest ==
  ASSUME RunType, OneRunner, NEW r \in Requests, RequestStep(r)
  PROVE  OneRunner'
  <1>0. /\ slice' = slice /\ queue \in [Research!Kinds -> Nat]
        /\ \A q \in Requests : q # r => ask'[q] = ask[q]
        /\ Research!Worked' = Research!Worked
    BY RequestMoves DEF RunType, Research!Worked
  <1>1. "discover" \in Research!Kinds /\ "verify" \in Research!Kinds
    BY DEF Research!Kinds
  <1>2. ASSUME queue' = queue, (doubled => doubled'), ask'[r].at \notin {"enqueue"},
               ask'[r].at \in Ahead => ask[r].at \in Ahead
        PROVE  OneRunner'
    <2>1. Research!Waiting' = Research!Waiting
      BY <1>2 DEF Research!Waiting
    <2> QED
      BY <1>0, <1>2, <2>1 DEF OneRunner
  <1>3. CASE Research!Ask(r) \/ Research!Reopen(r)
    <2>1. /\ queue' = queue /\ (doubled => doubled')
          /\ ask'[r].at \in {"idle", "reopen", "claim"}
      BY <1>3, RequestMoves DEF Research!Ask, Research!Reopen, RunType
    <2> QED
      BY <1>2, <2>1 DEF Ahead
  <1>4. CASE Research!Claim(r)
    <2>1. queue' = queue /\ (doubled => doubled')
      BY <1>4 DEF Research!Claim
    <2>2. CASE ask'[r].at = "idle"
      BY <1>2, <2>1, <2>2 DEF Ahead
    <2>3. CASE ask'[r].at = "enqueue"
      <3>1. doubled' = (doubled \/ Research!Busy(r))
        <4>1. ask' # [ask EXCEPT ![r] = Research!NoAsk]
          BY <2>3 DEF RunType, Research!NoAsk
        <4> QED
          BY <1>4, <4>1 DEF Research!Claim, Research!Answer
      <3>2. SUFFICES ASSUME ~doubled' PROVE OneRunner'
        BY DEF OneRunner
      <3>3. /\ ~doubled /\ ~Research!Waiting /\ ~Research!Worked
            /\ \A q \in Requests \ {r} : ask[q].at \notin Ahead
        BY <3>1, <3>2 DEF Research!Busy, Ahead
      <3>4. queue'["discover"] + queue'["verify"] <= 1 /\ ~Research!Waiting'
        BY <2>1, <3>3 DEF OneRunner, Research!Waiting
      <3>5. \A q \in Requests : ask'[q].at \in Ahead => q = r
        BY <1>0, <3>3
      <3> QED
        BY <1>0, <3>3, <3>4, <3>5 DEF OneRunner
    <2> QED
      BY <1>4, <2>2, <2>3, RequestMoves
  <1>5. CASE Research!Enqueue(r)
    <2>1. /\ ask[r].at = "enqueue" /\ ask'[r].at \in {"idle", "undo"} /\ doubled' = doubled
          /\ queue' \in {queue, [queue EXCEPT !["discover"] = @ + 1]}
      BY <1>5, RequestMoves DEF Research!Enqueue
    <2>2. SUFFICES ASSUME ~doubled PROVE OneRunner'
      BY <2>1 DEF OneRunner
    <2>3. /\ ~Research!Waiting /\ ~Research!Worked
          /\ \A q \in Requests \ {r} : ask[q].at \notin Ahead
      BY <2>1, <2>2 DEF OneRunner, Ahead
    <2>4. queue["discover"] = 0 /\ queue["verify"] = 0
      BY <1>0, <1>1, <2>3 DEF Research!Waiting
    <2>5. queue'["discover"] + queue'["verify"] <= 1
      BY <1>0, <1>1, <2>1, <2>4
    <2>6. \A q \in Requests : ask'[q].at \in Ahead => q = r
      BY <1>0, <2>3
    <2> QED
      BY <1>0, <2>1, <2>2, <2>3, <2>5, <2>6 DEF OneRunner, Ahead, Research!Worked
  <1>6. CASE Research!Undo(r)
    <2>1. queue' = queue /\ doubled' = doubled /\ ask'[r].at = "idle"
      BY <1>6, RequestMoves DEF Research!Undo, Research!past
    <2> QED
      BY <1>2, <2>1 DEF Ahead
  <1> QED
    BY <1>3, <1>4, <1>5, <1>6 DEF RequestStep

\* A request leaves a running run with someone to work it.
LEMMA WorkedRequest ==
  ASSUME RunType, Research!RunningIsWorked, NEW r \in Requests, RequestStep(r)
  PROVE  Research!RunningIsWorked'
  <1>0. /\ slice' = slice /\ queue \in [Research!Kinds -> Nat] /\ unqueued' = unqueued
        /\ \A q \in Requests : q # r => ask'[q] = ask[q]
        /\ Research!Worked' = Research!Worked
    BY RequestMoves DEF RunType, Research!Worked
  <1>1. ASSUME queue' = queue, status' = status, ask[r].at \notin {"enqueue", "undo"}
        PROVE  Research!RunningIsWorked'
    <2>1. Research!Waiting' = Research!Waiting
      BY <1>1 DEF Research!Waiting
    <2> QED
      BY <1>0, <1>1, <2>1 DEF Research!RunningIsWorked
  <1>2. CASE ask'[r].at \in {"enqueue", "undo"}
    BY <1>2 DEF Research!RunningIsWorked
  <1>3. CASE Research!Ask(r) \/ Research!Reopen(r)
    BY <1>1, <1>3, RequestMoves DEF Research!Ask, Research!Reopen, Research!row
  <1>4. CASE Research!Claim(r)
    <2>1. ask[r].at = "claim" /\ queue' = queue
      BY <1>4 DEF Research!Claim
    <2>2. CASE Research!AskAt(r, "enqueue")
      <3>1. ask'[r].at = "enqueue"
        BY <2>2 DEF Research!AskAt, RunType, Asks
      <3> QED
        BY <1>2, <3>1
    <2>3. CASE status' = status
      BY <1>1, <2>1, <2>3
    <2> QED
      BY <1>4, <2>2, <2>3 DEF Research!Claim
  <1>5. CASE Research!Enqueue(r)
    <2>1. CASE queue' = [queue EXCEPT !["discover"] = @ + 1]
      <3>1. "discover" \in Research!Kinds /\ queue'["discover"] > 0
        BY <1>0, <2>1 DEF Research!Kinds
      <3> QED
        BY <3>1 DEF Research!RunningIsWorked, Research!Waiting
    <2>2. CASE Research!AskAt(r, "undo")
      <3>1. ask'[r].at = "undo"
        BY <2>2 DEF Research!AskAt, RunType, Asks
      <3> QED
        BY <1>2, <3>1
    <2> QED
      BY <1>5, <2>1, <2>2 DEF Research!Enqueue
  <1>6. CASE Research!Undo(r)
    <2>1. status' # "running"
      BY <1>6 DEF Research!Undo, Research!IfRunning, Research!Set
    <2> QED
      BY <2>1 DEF Research!RunningIsWorked
  <1> QED
    BY <1>3, <1>4, <1>5, <1>6 DEF RequestStep

\* A pause, and the passing of time, keep what is known of the run.
LEMMA PauseAndTime ==
  ASSUME ResearchInv,
         Research!Pause \/ Research!RunGoesStale
           \/ \E c \in Found : Research!ClaimGoesStale(c)
  PROVE  ResearchInv'
  <1> USE RunBounds
  <1>0. /\ RunType /\ WalkedInOrder /\ OneRunner /\ NothingLeft /\ ClaimsStand
        /\ Research!RunningIsWorked
    BY DEF ResearchInv
  <1>1. UNCHANGED <<position, startedAt, queue, ask, slice, searched, doubled, unqueued>>
    BY DEF Research!Pause, Research!RunGoesStale, Research!ClaimGoesStale, Research!row, Research!past
  <1>2. WalkedInOrder'
    BY <1>0, <1>1 DEF WalkedInOrder
  <1>3. OneRunner'
    BY <1>0, <1>1 DEF OneRunner, Research!Waiting, Research!Worked
  <1>4. CASE Research!Pause \/ Research!RunGoesStale
    <2>1. /\ status' \in Research!Statuses /\ pausing' \in BOOLEAN /\ warm' \in BOOLEAN
          /\ muted' = muted /\ found' = found /\ (status' = "running" => status = "running")
      BY <1>0, <1>4 DEF Research!Pause, Research!RunGoesStale, Research!Set, Research!Touch,
         Research!Statuses, Research!past, RunType
    <2>2. RunType'
      BY <1>0, <1>1, <2>1 DEF RunType
    <2>3. NothingLeft' /\ ClaimsStand'
      BY <1>0, <1>1, <2>1 DEF NothingLeft, ClaimsStand, Research!Pending, Research!In
    <2>4. Research!RunningIsWorked'
      BY <1>0, <1>1, <2>1 DEF Research!RunningIsWorked, Research!Waiting, Research!Worked
    <2> QED
      BY <1>2, <1>3, <2>2, <2>3, <2>4 DEF ResearchInv
  <1>5. ASSUME NEW c \in Found, Research!ClaimGoesStale(c) PROVE ResearchInv'
    <2>1. /\ status' = status /\ pausing' = pausing /\ warm' = warm
          /\ found' = [found EXCEPT ![c].live = FALSE]
          /\ IF found[c].by = "dead" THEN muted' = muted ELSE muted' = TRUE
      BY <1>5 DEF Research!ClaimGoesStale, Research!row
    <2>2. found \in [Found -> Candidates] /\ slice \in [Slots -> Slices] /\ muted \in BOOLEAN
      BY <1>0 DEF RunType
    <2>3. found' \in [Found -> Candidates]
      <3>1. [found[c] EXCEPT !.live = FALSE] \in Candidates
        BY <2>2 DEF Candidates
      <3> QED
        BY <2>1, <2>2, <3>1
    <2>4. RunType'
      BY <1>0, <1>1, <2>1, <2>3 DEF RunType
    <2>5. NothingLeft'
      <3>1. \A d \in Found : found'[d].is = found[d].is
        BY <2>1, <2>2 DEF Candidates
      <3>2. Research!Pending' = Research!Pending
        BY <3>1 DEF Research!Pending, Research!In
      <3> QED
        BY <1>0, <1>1, <3>2 DEF NothingLeft
    <2>6. ClaimsStand'
      <3>1. SUFFICES ASSUME ~muted', NEW w \in Slots, NEW d \in slice[w].mine
                     PROVE  found'[d].is = "pending" /\ found'[d].by = w /\ found'[d].live
        BY <1>1 DEF ClaimsStand
      <3>2. found[c].by = "dead" /\ ~muted
        BY <2>1, <3>1
      <3>3. found[d].is = "pending" /\ found[d].by = w /\ found[d].live
        BY <1>0, <3>1, <3>2 DEF ClaimsStand
      <3>4. d \in Found /\ d # c
        BY <2>2, <3>1, <3>2, <3>3 DEF Slices
      <3> QED
        BY <2>1, <2>2, <3>3, <3>4
    <2>7. Research!RunningIsWorked'
      BY <1>0, <1>1, <2>1 DEF Research!RunningIsWorked, Research!Waiting, Research!Worked
    <2> QED
      BY <1>2, <1>3, <2>4, <2>5, <2>6, <2>7 DEF ResearchInv
  <1> QED
    BY <1>4, <1>5

\* The research invariant holds at first.
LEMMA ResearchStart == Research!Init => ResearchInv
  <1> SUFFICES ASSUME Research!Init PROVE ResearchInv
    OBVIOUS
  <1> USE RunBounds
  <1>1. RunType
    BY RunTypeStart
  <1>2. /\ \A w \in Slots : slice[w] = Research!NoSlice
        /\ \A r \in Requests : ask[r] = Research!NoAsk
        /\ queue["discover"] = 0 /\ queue["verify"] = 0
        /\ position = 0 /\ status = "queued"
    BY DEF Research!Init, Research!Kinds
  <1>3. /\ Research!NoSlice.at = "idle" /\ Research!NoSlice.kind = "none"
        /\ Research!NoSlice.next = 0 /\ Research!NoSlice.mine = {} /\ Research!NoAsk.at = "idle"
    BY DEF Research!NoSlice, Research!NoAsk
  <1>4. WalkedInOrder
    <2>1. \A w \in Slots : 0 .. slice[w].next - 1 \subseteq searched /\ ~Behind(slice[w])
      BY <1>2, <1>3 DEF Behind
    <2> QED
      BY <1>2, <1>3, <2>1 DEF WalkedInOrder
  <1>5. OneRunner
    BY <1>2, <1>3 DEF OneRunner, Ahead, Research!Worked
  <1>6. NothingLeft /\ ClaimsStand
    BY <1>2, <1>3 DEF NothingLeft, ClaimsStand
  <1>7. Research!RunningIsWorked
    BY <1>2 DEF Research!RunningIsWorked
  <1> QED
    BY <1>1, <1>4, <1>5, <1>6, <1>7 DEF ResearchInv

\* Every step of a run keeps it.
LEMMA ResearchStep ==
  ASSUME ResearchInv, Research!Next
  PROVE  ResearchInv'
  <1>0. /\ RunType /\ WalkedInOrder /\ OneRunner /\ NothingLeft /\ ClaimsStand
        /\ Research!RunningIsWorked
    BY DEF ResearchInv
  <1>1. CASE \E r \in Requests : RequestStep(r)
    <2>1. PICK r \in Requests : RequestStep(r)
      BY <1>1
    <2>2. RunType'
      BY <1>0, <2>1, RequestTypes DEF RequestStep
    <2>3. WalkedInOrder' /\ NothingLeft' /\ ClaimsStand'
      BY <1>0, <2>1, RequestKeeps
    <2>4. OneRunner'
      BY <1>0, <2>1, OneRunnerRequest
    <2>5. Research!RunningIsWorked'
      BY <1>0, <2>1, WorkedRequest
    <2> QED
      BY <2>2, <2>3, <2>4, <2>5 DEF ResearchInv
  <1>2. CASE \E w \in Slots : SliceStep(w)
    <2>1. PICK w \in Slots : SliceStep(w)
      BY <1>2
    <2>2. RunType'
      <3>1. found' \in [Found -> Candidates]
        BY <1>0, <2>1, FoundTypes
      <3>2. slice' \in [Slots -> Slices] /\ \A v \in Slots : SliceOk(slice'[v])
        BY <1>0, <2>1, OtherSlots
      <3>3. queue' \in [Research!Kinds -> Nat]
        BY <1>0, <2>1, QueueSlice
      <3> QED
        BY <1>0, <2>1, <3>1, <3>2, <3>3, RowTypes DEF RunType
    <2>3. WalkedInOrder'
      BY <1>0, <2>1, WalkedSlice
    <2>4. OneRunner'
      BY <1>0, <2>1, OneRunnerSlice
    <2>5. NothingLeft'
      BY <1>0, <2>1, NothingLeftSlice
    <2>6. ClaimsStand'
      BY <1>0, <2>1, ClaimsSlice
    <2>7. Research!RunningIsWorked'
      BY <1>0, <2>1, WorkedSlice
    <2> QED
      BY <2>2, <2>3, <2>4, <2>5, <2>6, <2>7 DEF ResearchInv
  <1>3. CASE Research!Pause \/ Research!RunGoesStale
               \/ \E c \in Found : Research!ClaimGoesStale(c)
    BY <1>3, PauseAndTime
  <1> QED
    BY <1>1, <1>2, <1>3 DEF Research!Next, RequestStep, SliceStep

\* What does not run stays as it began.
LEMMA ResearchRests == ResearchInv /\ UNCHANGED research => ResearchInv'
  <1> SUFFICES ASSUME ResearchInv, UNCHANGED research PROVE ResearchInv'
    OBVIOUS
  <1>1. UNCHANGED <<status, position, pausing, warm, startedAt, found, queue, ask, slice,
                    searched, doubled, unqueued, muted>>
    BY DEF research
  <1>2. RunType' /\ WalkedInOrder' /\ ClaimsStand'
    BY <1>1 DEF ResearchInv, RunType, WalkedInOrder, ClaimsStand
  <1>3. OneRunner' /\ NothingLeft' /\ Research!RunningIsWorked'
    BY <1>1 DEF ResearchInv, OneRunner, NothingLeft, Research!RunningIsWorked, Research!Waiting,
       Research!Worked, Research!Pending, Research!In
  <1> QED
    BY <1>2, <1>3 DEF ResearchInv

\* The research invariant is one of every behaviour that runs it.
LEMMA ResearchInvariant == Spec => []ResearchGood
  <1>1. Init => ResearchGood
    BY ResearchStart DEF Init, ResearchGood
  <1>2. ResearchGood /\ [Next]_vars => ResearchGood'
    BY ResearchStep, ResearchRests DEF Next, vars, ResearchGood
  <1> QED
    BY <1>1, <1>2, PTL DEF Spec

\* A set of one element at most.
LEMMA AtMostOne ==
  ASSUME NEW S, \A v, w \in S : v = w
  PROVE  Research!Cardinality(S) <= 1
  <1>1. Research!Cardinality(S) = Cardinality(S)
    BY DEF Research!Cardinality, Cardinality
  <1>2. CASE S = {}
    BY <1>1, <1>2, FS_EmptySet
  <1>3. CASE S # {}
    <2>1. PICK v : v \in S
      BY <1>3
    <2>2. S = {v}
      BY <2>1
    <2> QED
      BY <1>1, <2>2, FS_Singleton
  <1> QED
    BY <1>2, <1>3

\* A running run has a job, a slice or a request behind it, unless a job was lost or a
\* verification slice could not be queued; and a candidate is judged by one slice at a time,
\* unless a live slice's heartbeats were lost.
THEOREM RunIsWorked == Spec => []WorkedByOne
  <1>1. ResearchGood => WorkedByOne
    <2> SUFFICES ASSUME ResearchInv
                 PROVE  Research!RunningIsWorked /\ Research!JudgedByOne
      BY DEF ResearchGood, WorkedByOne, Research!WorkedByOne
    <2>1. ASSUME ~muted, NEW c \in Found
          PROVE  Research!Cardinality({w \in Slots : c \in slice[w].mine}) <= 1
      <3>1. \A v, w \in {u \in Slots : c \in slice[u].mine} : v = w
        BY <2>1 DEF ResearchInv, ClaimsStand
      <3> QED
        BY <3>1, AtMostOne
    <2> QED
      BY <2>1 DEF ResearchInv, Research!JudgedByOne
  <1> QED
    BY <1>1, ResearchInvariant, PTL

\* A slice declares a run succeeded only behind its last query, and with every candidate
\* checked where the run had one runner.
THEOREM SucceedsWhole == Spec => SuccessIsComplete
  <1> DEFINE Whole == searched = 0 .. Queries - 1 /\ (doubled \/ Research!Pending = {})
             Success == status = "running" /\ status' = "succeeded" /\ ask' = ask => Whole
  <1>1. ResearchGood /\ [Next]_vars => [Success]_(Research!vars)
    <2> SUFFICES ASSUME ResearchGood, [Next]_vars,
                        status = "running", status' = "succeeded", ask' = ask
                 PROVE  Whole
      BY DEF Research!vars
    <2> USE RunBounds
    <2>1. ResearchInv /\ Research!Next
      BY DEF ResearchGood, Next, vars, research
    <2>2. /\ RunType /\ WalkedInOrder /\ NothingLeft
      BY <2>1 DEF ResearchInv
    <2>3. ASSUME NEW r \in Requests, RequestStep(r) PROVE FALSE
      <3>1. ask'[r].at # ask[r].at
        BY <2>2, <2>3, RequestMoves DEF RequestStep
      <3> QED
        BY <3>1
    <2>4. ~(Research!Pause \/ Research!RunGoesStale)
      BY DEF Research!Pause, Research!RunGoesStale
    <2>5. ~ \E c \in Found : Research!ClaimGoesStale(c)
      BY DEF Research!ClaimGoesStale, Research!row
    <2>6. PICK w \in Slots : SliceStep(w)
      BY <2>1, <2>3, <2>4, <2>5 DEF Research!Next, RequestStep, SliceStep
    <2>7. slice[w].at = "succeed" \/ slice[w].at = "finalize"
      <3>1. CASE Research!Settle(w)
        BY <3>1 DEF Research!Settle, Research!Set, Research!At
      <3>2. CASE Research!Finalize(w)
        BY <3>2 DEF Research!Finalize, Research!At
      <3>3. ~(\/ Research!HonourPause(w) \/ Research!Load(w) \/ Research!NoProvider(w)
              \/ Research!HandOver(w) \/ Research!Throw(w))
        BY DEF Research!HonourPause, Research!Load, Research!NoProvider, Research!HandOver,
           Research!Throw, Research!IfRunning, Research!Set
      <3>4. ~(\/ Research!ReadRun(w) \/ Research!Harvest(w) \/ Research!Record(w)
              \/ Research!Count(w) \/ Research!Look(w) \/ Research!ClaimFound(w)
              \/ Research!Judge(w) \/ Research!Left(w) \/ Research!Again(w) \/ Research!Die(w)
              \/ \E k \in Research!Kinds : Research!Take(w, k))
        BY DEF Research!ReadRun, Research!Harvest, Research!Record, Research!Count, Research!Look,
           Research!ClaimFound, Research!Judge, Research!Left, Research!Again, Research!Die,
           Research!Take, Research!row
      <3> QED
        BY <2>6, <3>1, <3>2, <3>3, <3>4 DEF SliceStep
    <2>8. Behind(slice[w])
      BY <2>2, <2>7, KindOf DEF Behind, VerifyPlaces
    <2>9. searched = 0 .. Queries - 1
      BY <2>2, <2>8 DEF WalkedInOrder, RunType
    <2>10. doubled \/ Research!Pending = {}
      BY <2>2, <2>7 DEF NothingLeft
    <2> QED
      BY <2>9, <2>10
  <1> QED
    BY <1>1, ResearchInvariant, PTL DEF Spec, SuccessIsComplete, Research!SuccessIsComplete

(***************************************************************************)
(* The import                                                              *)
(***************************************************************************)
Rows == Imports!Rows
Actors == Imports!Actors
ParsePlaces == {"parse", "leads", "judge", "dispatch", "parsed"}
ChunkPlaces == {"chunk", "next"} \cup Imports!RowSteps
CommitPlaces == {"commit", "barrier", "closing"}
Late == {"noted", "note", "enrol", "task", "schedule"}

JobRecs == [kind : {"none", "parse", "chunk", "commit", "again"}, rows : SUBSET Rows, tries : Nat]
HandRecs == [at : {"idle", "post"} \cup ParsePlaces \cup ChunkPlaces \cup CommitPlaces,
             job : JobRecs, lost : BOOLEAN, todo : SUBSET Rows, match : SUBSET Rows,
             clean : SUBSET Rows, plan : SUBSET SUBSET Rows, linked : SUBSET Rows,
             row : 0 .. RowCount]

JobOk(j) ==
    /\ j.kind # "none" /\ j.tries < Imports!Attempts(j.kind)
    /\ j.kind # "chunk" => j.rows = {}

\* An execution is at a place of its job's, with the rows of that place; the chunks it is
\* still to hand out have rows, and no two of them the same.
HandOk(p, h) ==
    /\ h.at = "idle" <=> h = Imports!Free
    /\ p = Imports!Request => h.job = Imports!Free.job /\ ~h.lost
    /\ p # Imports!Request /\ h # Imports!Free =>
         /\ JobOk(h.job)
         /\ h.job.kind = "parse" => h.at \in ParsePlaces
         /\ h.job.kind = "chunk" => h.at \in ChunkPlaces
         /\ h.job.kind \in {"commit", "again"} => h.at \in CommitPlaces
         /\ h.at \in ChunkPlaces => h.todo \subseteq h.job.rows
         /\ h.at \in Imports!RowSteps => h.row \in h.job.rows
    /\ h.at \in Imports!RowSteps => h.row \in Rows \ h.todo
    /\ h.todo # {} => h.at \in {"leads", "judge"} \cup ChunkPlaces
    /\ h.clean # {} => h.at = "judge"
    /\ h.clean \cap h.todo = {}
    /\ h.linked # {} => h.at \in ChunkPlaces
    /\ h.plan # {} => h.at = "dispatch" \/ (p = Imports!Request /\ h.at \in ChunkPlaces)
    /\ \A c, d \in h.plan : c # {} /\ (c # d => c \cap d = {})
    /\ h.at \in ChunkPlaces =>
         \A c \in h.plan : c \cap h.todo = {} /\ (h.at \in Imports!RowSteps => h.row \notin c)

EntryRecs == [kind : Imports!RowKinds, is : Imports!RowStates, linked : BOOLEAN, forced : BOOLEAN]
OutRecs == [made : Nat, noted : Nat, cadence : {"none", "active", "stopped"}, task : BOOLEAN,
            sched : BOOLEAN]

ImportData ==
    /\ target \in Imports!Targets /\ policy \in Imports!Policies
    /\ batch \in {"pending", "parsing", "parsed", "committed"}
    /\ entry \in [Rows -> EntryRecs]
    /\ out \in [Rows -> OutRecs]
    /\ redis \in BOOLEAN /\ dropped \in BOOLEAN
    /\ twice \subseteq {"parse", "chunk", "commit", "again"} /\ mishaps \in Nat
ImportJobs == waiting \subseteq JobRecs /\ IsFiniteSet(waiting) /\ \A j \in waiting : JobOk(j)
ImportHands == hand \in [Actors -> HandRecs] /\ \A p \in Actors : HandOk(p, hand[p])
ImportType == ImportData /\ ImportJobs /\ ImportHands

\* Until the request has stored the file nothing runs; without a queue no worker does.
Quiet ==
    /\ hand[Imports!Request].at = "post" =>
         waiting = {} /\ twice = {} /\ \A w \in Hands : hand[w] = Imports!Free
    /\ ~redis => \A w \in Hands : hand[w] = Imports!Free

\* A parse has before it, or has judged clean, every row nobody has judged.
Unjudged == {r \in Rows : entry[r].is = "pending"}
Seen(p) ==
    /\ hand[p].at \in {"leads", "judge"} => Unjudged \subseteq hand[p].todo \cup hand[p].clean
    /\ \/ hand[p].at \in {"dispatch", "parsed"}
       \/ p = Imports!Request /\ hand[p].at \in ChunkPlaces \cup CommitPlaces
       => Unjudged = {}
ParseSees == \A p \in Actors : Seen(p)

\* The lead of a row that is not forced is the only one of its email.
LeadOnce == target = "lead" => \A r \in Rows : ~entry[r].forced => out[r].made <= 1

\* What may still write the row r: jobs, and executions.
JobsFor(r) == {j \in waiting : r \in j.rows \/ (j.kind = "parse" /\ entry[r].is = "pending")}
Aims(p, r) ==
    \/ hand[p].at \in {"post", "parse"} /\ entry[r].is = "pending"
    \/ r \in hand[p].todo \cup hand[p].clean
    \/ \E c \in hand[p].plan : r \in c
    \/ hand[p].at \in {"find", "create"} /\ hand[p].row = r
HandsFor(r) == {p \in Actors : Aims(p, r)}

\* Whatever may still write a row for the first time, or has, is one and a fault each.
Counted(r) == out[r].made + Cardinality(JobsFor(r)) + Cardinality(HandsFor(r)) <= 1 + mishaps
WritesCounted == \A r \in Rows : Counted(r)

\* As long as no parse runs beside another: there is one, what it is to judge is nobody
\* else's, and nobody holds what it is to hand out.
Parsing(p) == IF p = Imports!Request THEN hand[p].at # "idle" ELSE hand[p].job.kind = "parse"
InChunk(p, r) ==
    \/ r \in hand[p].job.rows
    \/ hand[p].at \in ChunkPlaces /\ r \in hand[p].todo
    \/ hand[p].at \in Imports!RowSteps /\ hand[p].row = r
InPlan(p, r) == \E c \in hand[p].plan : r \in c
ParseAlone ==
    /\ \A j, k \in waiting : j.kind = "parse" /\ k.kind = "parse" => j = k
    /\ \A p, q \in Actors : Parsing(p) /\ Parsing(q) => p = q
    /\ \A j \in waiting : j.kind = "parse" => \A p \in Actors : ~Parsing(p)
    /\ \A w \in Hands : Parsing(w) => ~hand[w].lost
JudgesFresh ==
    \A p \in Actors : hand[p].at \in {"leads", "judge"} =>
      hand[p].todo \cup hand[p].clean \subseteq Unjudged
InHandling(r) == (\E j \in waiting : r \in j.rows) \/ (\E p \in Actors : InChunk(p, r))
FreshApart == \A r \in Unjudged : ~InHandling(r) /\ \A p \in Actors : ~InPlan(p, r)
PlanApart == \A p \in Actors : \A r \in Rows : InPlan(p, r) => ~InHandling(r)
OneParse == "parse" \notin twice => ParseAlone /\ JudgesFresh /\ FreshApart /\ PlanApart

\* As long as no chunk runs beside another either, a row is in one chunk, and a pool item is
\* created, and noted, by the one that looked for it.
ChunkAlone ==
    \A r \in Rows :
      /\ \A j, k \in waiting : r \in j.rows /\ r \in k.rows => j = k
      /\ \A p, q \in Actors : InChunk(p, r) /\ InChunk(q, r) => p = q
      /\ \A j \in waiting : r \in j.rows => \A p \in Actors : ~InChunk(p, r)
ItemOnce ==
    target = "pool" =>
      \A r \in Rows :
        /\ out[r].made <= 1 /\ out[r].noted <= 1
        /\ \A p \in Actors : hand[p].at = "create" /\ hand[p].row = r => out[r].made = 0
        /\ \A p \in Actors : hand[p].at = "note" /\ hand[p].row = r => out[r].noted = 0
OneChunk == {"parse", "chunk"} \cap twice = {} => ChunkAlone /\ ItemOnce

\* A batch is committed behind the last row in flight.
CommittedBehind ==
    "parse" \notin twice =>
      /\ batch = "committed" => Imports!InFlight = {}
      /\ \A p \in Actors : hand[p].at = "closing" => Imports!InFlight = {}

\* A row that matches a lead which the import updates is no chunk's; and a row that is
\* linked to a lead is linked to one the import has made, or updates.
Updates(r) == policy = "update" /\ entry[r].kind = "known"
Chosen ==
    /\ \A r \in Rows : entry[r].linked => out[r].made > 0 \/ Updates(r)
    /\ \A r \in Rows : InHandling(r) => ~Updates(r)
    /\ \A p \in Actors :
         /\ hand[p].at = "judge" =>
              /\ {r \in Rows : entry[r].kind = "known"} \subseteq hand[p].match
              /\ \A r \in hand[p].match : entry[r].kind = "known" \/ out[r].made > 0
         /\ \A r \in Rows : r \in hand[p].clean \/ InPlan(p, r) => ~Updates(r)
         /\ \A r \in hand[p].linked : entry[r].linked

\* What a row has been given when its execution is at a step.
RowSoFar ==
    \A p \in Actors : \A r \in Rows : hand[p].row = r =>
      /\ hand[p].at \in {"mark"} \cup Late => out[r].made > 0
      /\ hand[p].at \in {"enrol", "task", "schedule"} => out[r].noted > 0 /\ target = "lead"
      /\ hand[p].at \in {"task", "schedule"} => out[r].cadence # "none"
      /\ hand[p].at = "schedule" => out[r].task
      /\ hand[p].at = "noted" => target = "pool"
      /\ hand[p].at = "find" => target = "pool"

\* Nothing is forgotten: a row that is not judged is before a parse, one that is valid in a
\* plan or a chunk, and one that is half written in a chunk or at hand.
ToJudge(r) ==
    \/ \E j \in waiting : j.kind = "parse"
    \/ \E p \in Actors : \/ hand[p].at \in {"post", "parse"}
                         \/ hand[p].at \in {"leads", "judge"} /\ r \in hand[p].todo \cup hand[p].clean
ToWrite(r) ==
    \/ \E j \in waiting : r \in j.rows
    \/ \E p \in Actors : ~hand[p].lost /\ (InPlan(p, r) \/ r \in hand[p].todo)
Carried ==
    "parse" \notin twice /\ ~dropped =>
      \A r \in Rows :
        /\ entry[r].is = "pending" => ToJudge(r)
        /\ entry[r].is = "valid" =>
             \/ ToWrite(r)
             \/ \E p \in Actors : /\ hand[p].at \in {"find", "create", "mark"}
                                  /\ hand[p].row = r /\ ~hand[p].lost
        /\ entry[r].is = "imported" /\ ~Imports!Whole(r) =>
             \/ ToWrite(r)
             \/ \E p \in Actors : hand[p].at \in Imports!RowSteps /\ hand[p].row = r

ImportInv ==
    /\ ImportType /\ Quiet /\ ParseSees /\ LeadOnce /\ WritesCounted /\ OneParse /\ OneChunk
    /\ CommittedBehind /\ Chosen /\ RowSoFar /\ Carried
ImportGood == service = "imports" => ImportInv

\* The numbers and sets of an import.
LEMMA ImportBounds ==
  /\ RowCount \in Nat /\ IsFiniteSet(Hands) /\ Imports!Request \notin Hands
  /\ Rows \subseteq Nat \ {0} /\ Rows \subseteq 0 .. RowCount
  /\ IsFiniteSet(Actors) /\ Imports!Request \in Actors /\ Hands \subseteq Actors
  /\ Actors \ {Imports!Request} = Hands
  <1>1. RowCount \in Nat /\ IsFiniteSet(Hands) /\ Imports!Request \notin Hands
    BY ImportAssumption DEF Imports!Request
  <1>2. Actors = Hands \cup {Imports!Request}
    BY DEF Actors, Imports!Actors
  <1>3. IsFiniteSet(Actors)
    BY <1>1, <1>2, FS_AddElement
  <1>4. Rows \subseteq Nat \ {0} /\ Rows \subseteq 0 .. RowCount
    BY <1>1 DEF Rows, Imports!Rows
  <1> QED
    BY <1>1, <1>2, <1>3, <1>4

\* The job of nobody, and a new one.
LEMMA JobRecords ==
  ASSUME NEW k \in {"none", "parse", "chunk", "commit", "again"}, NEW rs \in SUBSET Rows
  PROVE  /\ Imports!Job(k, rs) \in JobRecs /\ Imports!Job(k, rs).kind = k
         /\ Imports!Job(k, rs).rows = rs /\ Imports!Job(k, rs).tries = 0
         /\ k # "none" /\ (k # "chunk" => rs = {}) => JobOk(Imports!Job(k, rs))
  BY DEF Imports!Job, JobRecs, JobOk, Imports!Attempts

\* The record of a slot that runs nothing.
LEMMA FreeIsOk ==
  /\ Imports!Free \in HandRecs /\ Imports!Free.at = "idle" /\ Imports!Free.todo = {}
  /\ Imports!Free.clean = {} /\ Imports!Free.plan = {} /\ Imports!Free.linked = {}
  /\ ~Imports!Free.lost /\ Imports!Free.job.rows = {} /\ Imports!Free.job.kind = "none"
  /\ Imports!Free.match = {} /\ Imports!Free.row = 0
  /\ \A p \in Actors : HandOk(p, Imports!Free)
  <1>1. /\ Imports!Job("none", {}) \in JobRecs
        /\ Imports!Job("none", {}).rows = {} /\ Imports!Job("none", {}).kind = "none"
    BY JobRecords
  <1>2. Imports!Free \in HandRecs
    BY <1>1, ImportBounds DEF Imports!Free, HandRecs
  <1>3. /\ Imports!Free.at = "idle" /\ Imports!Free.todo = {}
        /\ Imports!Free.clean = {} /\ Imports!Free.plan = {} /\ Imports!Free.linked = {}
        /\ ~Imports!Free.lost /\ Imports!Free.job = Imports!Job("none", {})
        /\ Imports!Free.match = {} /\ Imports!Free.row = 0
    BY DEF Imports!Free
  <1>4. ASSUME NEW p \in Actors PROVE HandOk(p, Imports!Free)
    BY <1>3 DEF HandOk, ChunkPlaces, Imports!RowSteps
  <1> QED
    BY <1>1, <1>2, <1>3, <1>4

\* The fields of an execution's record.
LEMMA HandFields ==
  ASSUME NEW h \in HandRecs
  PROVE  /\ h.at \in {"idle", "post"} \cup ParsePlaces \cup ChunkPlaces \cup CommitPlaces
         /\ h.job \in JobRecs /\ h.job.rows \subseteq Rows /\ h.job.tries \in Nat
         /\ h.lost \in BOOLEAN /\ h.todo \subseteq Rows
         /\ h.match \subseteq Rows /\ h.clean \subseteq Rows /\ h.plan \subseteq SUBSET Rows
         /\ h.linked \subseteq Rows /\ h.row \in 0 .. RowCount
  BY DEF HandRecs, JobRecs

\* An execution that goes to a place of the same job keeps what it holds.
LEMMA MoveOk ==
  ASSUME NEW p \in Actors, NEW h \in HandRecs, HandOk(p, h), h.at # "idle",
         NEW x \in ParsePlaces \cup ChunkPlaces \cup CommitPlaces,
         p # Imports!Request =>
           \/ h.at \in ParsePlaces /\ x \in ParsePlaces
           \/ h.at \in ChunkPlaces /\ x \in ChunkPlaces
           \/ h.at \in CommitPlaces /\ x \in CommitPlaces,
         x \in Imports!RowSteps => h.at \in Imports!RowSteps,
         x \in ChunkPlaces => h.at \in ChunkPlaces,
         h.todo # {} => x \in {"leads", "judge"} \cup ChunkPlaces,
         h.clean # {} => x = "judge",
         h.linked # {} => x \in ChunkPlaces,
         h.plan # {} => x = "dispatch" \/ (p = Imports!Request /\ x \in ChunkPlaces)
  PROVE  [h EXCEPT !.at = x] \in HandRecs /\ HandOk(p, [h EXCEPT !.at = x])
  <1> DEFINE y == [h EXCEPT !.at = x]
  <1>1. y \in HandRecs
    BY DEF HandRecs
  <1>2. /\ y.at = x /\ y.job = h.job /\ y.lost = h.lost /\ y.todo = h.todo /\ y.match = h.match
        /\ y.clean = h.clean /\ y.plan = h.plan /\ y.linked = h.linked /\ y.row = h.row
    BY DEF HandRecs
  <1>3. x # "idle" /\ y # Imports!Free /\ h # Imports!Free
    BY <1>2, FreeIsOk DEF ParsePlaces, ChunkPlaces, CommitPlaces, Imports!RowSteps, HandOk
  <1>4. /\ ParsePlaces \cap ChunkPlaces = {} /\ ParsePlaces \cap CommitPlaces = {}
        /\ ChunkPlaces \cap CommitPlaces = {}
    BY DEF ParsePlaces, ChunkPlaces, CommitPlaces, Imports!RowSteps
  <1> HIDE DEF y
  <1>5. p # Imports!Request =>
          /\ JobOk(h.job)
          /\ h.job.kind = "parse" => x \in ParsePlaces
          /\ h.job.kind = "chunk" => x \in ChunkPlaces
          /\ h.job.kind \in {"commit", "again"} => x \in CommitPlaces
    BY <1>3, <1>4 DEF HandOk
  <1> QED
    BY <1>1, <1>2, <1>3, <1>5 DEF HandOk, y

\* A job more, or fewer.
LEMMA JobsMove ==
  ASSUME ImportJobs, NEW j \in JobRecs, JobOk(j), waiting' \subseteq waiting \cup {j}
  PROVE  ImportJobs'
  <1>1. IsFiniteSet(waiting \cup {j})
    BY FS_AddElement DEF ImportJobs
  <1>2. IsFiniteSet(waiting')
    BY <1>1, FS_Subset
  <1> QED
    BY <1>2 DEF ImportJobs

\* An enqueue adds the job, or nothing.
LEMMA QueuedAdds ==
  ASSUME NEW k \in {"parse", "commit", "chunk"}, NEW rs \in SUBSET Rows
  PROVE  /\ Imports!Queued(k, rs) = waiting \/ Imports!Queued(k, rs) = waiting \cup {Imports!Job(k, rs)}
         /\ ~Imports!Alive(k, rs) => Imports!Queued(k, rs) = waiting \cup {Imports!Job(k, rs)}
  BY DEF Imports!Queued

\* One execution moves.
LEMMA HandMoves ==
  ASSUME ImportHands, NEW p \in Actors, NEW h \in HandRecs, HandOk(p, h),
         hand' = [hand EXCEPT ![p] = h]
  PROVE  ImportHands' /\ hand'[p] = h /\ \A q \in Actors : q # p => hand'[q] = hand[q]
  <1>1. /\ hand' \in [Actors -> HandRecs] /\ hand'[p] = h
        /\ \A q \in Actors : q # p => hand'[q] = hand[q]
    BY DEF ImportHands
  <1>2. \A q \in Actors : HandOk(q, hand'[q])
    BY <1>1 DEF ImportHands
  <1> QED
    BY <1>1, <1>2 DEF ImportHands

\* The chunks of a set of rows share it out.
LEMMA ChunksSplit ==
  ASSUME NEW S \in SUBSET Rows
  PROVE  /\ \A c \in Imports!Chunks(S) : c \subseteq S /\ c # {}
         /\ \A c, d \in Imports!Chunks(S) : c # d => c \cap d = {}
         /\ \A r \in S : \E c \in Imports!Chunks(S) : r \in c
  <1> DEFINE of(r) == Imports!Cardinality({q \in S : q < r}) \div ChunkSize
             part(r) == {q \in S : of(q) = of(r)}
  <1>1. Imports!Chunks(S) = {part(r) : r \in S}
    BY DEF Imports!Chunks
  <1> HIDE DEF of
  <1>2. ASSUME NEW c \in Imports!Chunks(S) PROVE \E r \in S : c = part(r)
    BY <1>1
  <1>3. \A r \in S : part(r) \in Imports!Chunks(S) /\ r \in part(r)
    BY <1>1
  <1>4. ASSUME NEW c \in Imports!Chunks(S) PROVE c \subseteq S /\ c # {}
    <2>1. PICK r \in S : c = part(r)
      BY <1>2
    <2> QED
      BY <2>1
  <1>5. ASSUME NEW c \in Imports!Chunks(S), NEW d \in Imports!Chunks(S), c \cap d # {}
        PROVE  c = d
    <2>1. PICK r \in S : c = part(r)
      BY <1>2
    <2>2. PICK z \in S : d = part(z)
      BY <1>2
    <2>3. of(r) = of(z)
      BY <1>5, <2>1, <2>2
    <2> QED
      BY <2>1, <2>2, <2>3
  <1>6. ASSUME NEW r \in S PROVE \E c \in Imports!Chunks(S) : r \in c
    BY <1>3
  <1> QED
    BY <1>4, <1>5, <1>6

\* The first of several chunks is one of them.
LEMMA FirstChunkIsThere ==
  ASSUME NEW P \in SUBSET SUBSET Rows, P # {}, \A c \in P : c # {}
  PROVE  Imports!First(P) \in P
  <1>1. PICK U \in SUBSET Nat : U = {r \in Rows : \E c \in P : r \in c}
    BY ImportBounds
  <1>0. U # {} /\ \A c \in P : c \subseteq U
    <2>1. \A c \in P : \A r \in c : r \in Rows
      OBVIOUS
    <2>2. \A c \in P : \A r \in c : r \in U
      BY <1>1, <2>1
    <2>3. PICK c \in P : c # {}
      OBVIOUS
    <2>4. PICK r \in c : TRUE
      BY <2>3
    <2> QED
      BY <2>2, <2>4
  <1> DEFINE R == OpToRel(<, Nat)
  <1>2. IsWellFoundedOn(R, Nat)
    BY NatLessThanWellFounded
  <1>3. \A x, y \in Nat : <<x, y>> \in R \/ y <= x
    BY DEF OpToRel
  <1> HIDE DEF R
  <1>4. PICK x \in U : \A y \in U : <<y, x>> \notin R
    BY <1>0, <1>2, WFMin
  <1>5. \A y \in U : x <= y
    BY <1>3, <1>4
  <1>6. PICK c \in P : x \in c
    BY <1>1
  <1>7. \A d \in P : \E q \in c : \A z \in d : q <= z
    BY <1>0, <1>5, <1>6
  <1> QED
    BY <1>6, <1>7 DEF Imports!First

\* The steps of a row.
RowMove(p) ==
    \/ Imports!FindItem(p) \/ Imports!Create(p) \/ Imports!MarkImported(p)
    \/ Imports!LookForNote(p) \/ Imports!Note(p) \/ Imports!Enrol(p) \/ Imports!CreateTask(p)
    \/ Imports!Schedule(p) \/ Imports!RowFails(p)

\* The steps at which an execution holds no row, and may end or queue a commit.
CommitMove(p) ==
    \/ Imports!DispatchCommit(p) \/ Imports!Parsed(p) \/ Imports!EndChunk(p)
    \/ Imports!Commit(p) \/ Imports!Barrier(p) \/ Imports!Close(p)

\* What an import has given a row it does not take back, and no row is unjudged again.
RowGrows(r) ==
    /\ entry'[r].kind = entry[r].kind
    /\ entry[r].linked => entry'[r].linked
    /\ entry[r].forced => entry'[r].forced
    /\ entry'[r].is = "pending" => entry[r].is = "pending"
    /\ out[r].made <= out'[r].made /\ (out[r].noted > 0 => out'[r].noted > 0)
    /\ out[r].cadence # "none" => out'[r].cadence # "none"
    /\ out[r].task => out'[r].task
    /\ out[r].sched => out'[r].sched
RowSame(r) == entry'[r] = entry[r] /\ out'[r] = out[r]

\* What the steps of a row have in common.
RowEffect(p) ==
    /\ hand[p].at \in Imports!RowSteps /\ hand[p].row \in Rows
    /\ \E x \in Imports!RowSteps \cup {"next"} : hand' = [hand EXCEPT ![p].at = x]
    /\ ImportData' /\ \A r \in Rows : RowGrows(r) /\ (r # hand[p].row => RowSame(r))
    /\ entry'[hand[p].row].is \in {entry[hand[p].row].is, "imported", "error"}
    /\ UNCHANGED <<target, policy, batch, redis, waiting, dropped, twice>>
    /\ mishaps' = mishaps \/ mishaps' = mishaps + 1

\* The fields of a row's outcome, and of what one write makes of it.
LEMMA OutFields ==
  ASSUME NEW o \in OutRecs
  PROVE  /\ o.made \in Nat /\ o.noted \in Nat /\ o.cadence \in {"none", "active", "stopped"}
         /\ o.task \in BOOLEAN /\ o.sched \in BOOLEAN
         /\ [o EXCEPT !.task = TRUE] \in OutRecs /\ [o EXCEPT !.sched = TRUE] \in OutRecs
  BY DEF OutRecs

\* A row's record after a step that writes neither it nor what was made of it.
LEMMA SameGrows ==
  ASSUME ImportData, NEW r \in Rows, RowSame(r)
  PROVE  RowGrows(r)
  BY DEF RowSame, RowGrows, ImportData, EntryRecs, OutRecs

\* An execution that is at a row's step has a row of the file.
LEMMA RowAtHand ==
  ASSUME ImportHands, NEW p \in Actors, hand[p].at \in Imports!RowSteps
  PROVE  hand[p].row \in Rows /\ hand[p] \in HandRecs /\ HandOk(p, hand[p])
  BY DEF ImportHands, HandOk

\* The steps that write for the row.
LEMMA RowWrites ==
  ASSUME ImportType, NEW p \in Actors,
         \/ Imports!Create(p) \/ Imports!Note(p) \/ Imports!Enrol(p) \/ Imports!CreateTask(p)
  PROVE  RowEffect(p)
  <1> DEFINE r == hand[p].row
  <1>1. hand[p].at \in Imports!RowSteps /\ ImportData
    BY DEF Imports!Create, Imports!Note, Imports!Enrol, Imports!CreateTask, Imports!At,
       Imports!RowSteps, ImportType
  <1>2. r \in Rows
    BY <1>1, RowAtHand DEF ImportType
  <1>3. \E x \in Imports!RowSteps \cup {"next"} : hand' = [hand EXCEPT ![p].at = x]
    BY DEF Imports!Create, Imports!Note, Imports!Enrol, Imports!CreateTask, Imports!GoTo,
       Imports!RowSteps
  <1>4. UNCHANGED <<target, policy, batch, redis, waiting, dropped, twice, entry, mishaps>>
    BY DEF Imports!Create, Imports!Note, Imports!Enrol, Imports!CreateTask, Imports!file,
       Imports!past
  <1>5. /\ out' \in [Rows -> OutRecs]
        /\ \A s \in Rows : s # r => out'[s] = out[s]
        /\ out[r].made <= out'[r].made /\ (out[r].noted > 0 => out'[r].noted > 0)
        /\ out[r].cadence # "none" => out'[r].cadence # "none"
        /\ out[r].task => out'[r].task
        /\ out[r].sched => out'[r].sched
    <2> USE <1>1, <1>2
    <2>0. out[r].made + 1 \in Nat /\ out[r].noted + 1 \in Nat /\ out[r].noted \in Nat
      BY DEF ImportData, EntryRecs, OutRecs
    <2>1. CASE Imports!Create(p)
      <3>1. CASE out' = out
        BY <3>1 DEF ImportData, EntryRecs, OutRecs
      <3>2. CASE out' = [out EXCEPT ![r].made = @ + 1]
        BY <3>2 DEF ImportData, EntryRecs, OutRecs
      <3> QED
        BY <2>1, <3>1, <3>2 DEF Imports!Create
    <2>2. CASE Imports!Note(p)
      <3> DEFINE n == IF target = "lead" THEN 1 ELSE out[r].noted + 1
      <3>1. out' = [out EXCEPT ![r].noted = n]
        BY <2>2 DEF Imports!Note
      <3>2. n \in Nat /\ n > 0
        BY <2>0
      <3> HIDE DEF n
      <3>3. out'[r] = [out[r] EXCEPT !.noted = n] /\ \A s \in Rows : s # r => out'[s] = out[s]
        BY <3>1 DEF ImportData, EntryRecs, OutRecs
      <3> QED
        BY <3>1, <3>2, <3>3 DEF ImportData, EntryRecs, OutRecs
    <2>3. CASE Imports!Enrol(p)
      <3>1. CASE out[r].cadence = "none"
        BY <2>3, <3>1 DEF Imports!Enrol, ImportData, EntryRecs, OutRecs
      <3> QED
        BY <2>3, <3>1 DEF Imports!Enrol, ImportData, EntryRecs, OutRecs
    <2>4. CASE Imports!CreateTask(p)
      <3>1. out' = [out EXCEPT ![r].task = TRUE]
        BY <2>4 DEF Imports!CreateTask
      <3>2. out'[r] = [out[r] EXCEPT !.task = TRUE] /\ \A s \in Rows : s # r => out'[s] = out[s]
        BY <3>1 DEF ImportData, EntryRecs, OutRecs
      <3>3. out'[r] \in OutRecs
        <4>1. out[r] \in OutRecs
          BY DEF ImportData
        <4>2. [out[r] EXCEPT !.task = TRUE] \in OutRecs
          BY <4>1, OutFields
        <4> QED
          BY <3>2, <4>2, Zenon
      <3>4. /\ out'[r].made = out[r].made /\ out'[r].noted = out[r].noted
            /\ out'[r].cadence = out[r].cadence /\ out'[r].task = TRUE /\ out'[r].sched = out[r].sched
        BY <3>2 DEF ImportData, EntryRecs, OutRecs
      <3>5. out[r].made \in Nat
        BY DEF ImportData, EntryRecs, OutRecs
      <3> QED
        BY <3>1, <3>2, <3>3, <3>4, <3>5 DEF ImportData, EntryRecs, OutRecs
    <2> QED
      BY <2>1, <2>2, <2>3, <2>4
  <1>6. ImportData'
    BY <1>1, <1>4, <1>5 DEF ImportData, EntryRecs, OutRecs
  <1>7. \A s \in Rows : RowGrows(s) /\ (s # r => RowSame(s))
    BY <1>1, <1>2, <1>4, <1>5 DEF RowGrows, RowSame, ImportData, EntryRecs, OutRecs
  <1> QED
    BY <1>1, <1>2, <1>3, <1>4, <1>6, <1>7 DEF RowEffect

\* A row is written off.
LEMMA RowIsError ==
  ASSUME ImportData, NEW r \in Rows, entry' = [entry EXCEPT ![r].is = "error"], out' = out
  PROVE  /\ entry' \in [Rows -> EntryRecs]
         /\ out' \in [Rows -> OutRecs]
         /\ \A s \in Rows : s # r => RowSame(s)
         /\ RowGrows(r) /\ entry'[r].is = "error"
  <1>1. /\ entry'[r] = [entry[r] EXCEPT !.is = "error"]
        /\ \A s \in Rows : s # r => entry'[s] = entry[s]
    BY DEF ImportData, EntryRecs, OutRecs
  <1>2. /\ entry'[r].is = "error" /\ entry'[r].kind = entry[r].kind
        /\ entry'[r].linked = entry[r].linked /\ entry'[r].forced = entry[r].forced
    BY <1>1 DEF ImportData, EntryRecs, OutRecs
  <1>3. entry'[r] \in EntryRecs
    BY <1>1 DEF ImportData, EntryRecs, OutRecs, Imports!RowStates
  <1>4. entry' \in [Rows -> EntryRecs]
    BY <1>1, <1>3 DEF ImportData, EntryRecs, OutRecs
  <1>5. RowGrows(r)
    BY <1>2 DEF RowGrows, ImportData, EntryRecs, OutRecs
  <1> QED
    BY <1>1, <1>2, <1>4, <1>5 DEF RowSame, ImportData, EntryRecs, OutRecs

\* The steps that mark the row, or look for something.
LEMMA RowMarks ==
  ASSUME ImportType, NEW p \in Actors,
         \/ Imports!FindItem(p) \/ Imports!MarkImported(p) \/ Imports!LookForNote(p)
         \/ Imports!Schedule(p) \/ Imports!RowFails(p)
  PROVE  RowEffect(p)
  <1> DEFINE r == hand[p].row
  <1>1. hand[p].at \in Imports!RowSteps /\ ImportData
    BY DEF Imports!FindItem, Imports!MarkImported, Imports!LookForNote, Imports!Schedule,
       Imports!RowFails, Imports!At, Imports!RowSteps, ImportType
  <1>2. r \in Rows
    BY <1>1, RowAtHand DEF ImportType
  <1>3. \E x \in Imports!RowSteps \cup {"next"} : hand' = [hand EXCEPT ![p].at = x]
    BY DEF Imports!FindItem, Imports!MarkImported, Imports!LookForNote, Imports!Schedule,
       Imports!RowFails, Imports!GoTo, Imports!RowSteps
  <1>4. UNCHANGED <<target, policy, batch, redis, waiting, dropped, twice>>
    BY DEF Imports!FindItem, Imports!MarkImported, Imports!LookForNote, Imports!Schedule,
       Imports!RowFails, Imports!file, Imports!past, Imports!Mishap, Imports!Fine
  <1>5. mishaps' = mishaps \/ mishaps' = mishaps + 1
    BY DEF Imports!FindItem, Imports!MarkImported, Imports!LookForNote, Imports!Schedule,
       Imports!RowFails, Imports!past, Imports!Mishap, Imports!Fine
  <1>6. /\ entry' \in [Rows -> EntryRecs]
        /\ out' \in [Rows -> OutRecs]
        /\ \A s \in Rows : s # r => RowSame(s)
        /\ RowGrows(r) /\ entry'[r].is \in {entry[r].is, "imported", "error"}
    <2> USE <1>1, <1>2 DEF RowSame, RowGrows, Imports!RowStates
    <2>1. CASE Imports!FindItem(p) \/ Imports!LookForNote(p)
      BY <2>1 DEF Imports!FindItem, Imports!LookForNote, ImportData, EntryRecs, OutRecs
    <2>2. CASE Imports!MarkImported(p)
      BY <2>2 DEF Imports!MarkImported, ImportData, EntryRecs, OutRecs
    <2>3. CASE Imports!Schedule(p)
      <3>1. CASE out[r].cadence = "active"
        <4>1. out' = [out EXCEPT ![r].sched = TRUE] /\ entry' = entry
          BY <2>3, <3>1 DEF Imports!Schedule
        <4>2. out'[r] = [out[r] EXCEPT !.sched = TRUE] /\ \A s \in Rows : s # r => out'[s] = out[s]
          BY <4>1 DEF ImportData, EntryRecs, OutRecs
        <4>3. out'[r] \in OutRecs
          <5>1. out[r] \in OutRecs
            BY DEF ImportData
          <5>2. [out[r] EXCEPT !.sched = TRUE] \in OutRecs
            BY <5>1, OutFields
          <5> QED
            BY <4>2, <5>2, Zenon
        <4>4. /\ out'[r].made = out[r].made /\ out'[r].noted = out[r].noted
              /\ out'[r].cadence = out[r].cadence /\ out'[r].task = out[r].task
              /\ out'[r].sched = TRUE /\ out[r].made \in Nat
          BY <4>2 DEF ImportData, EntryRecs, OutRecs
        <4> QED
          BY <4>1, <4>2, <4>3, <4>4 DEF ImportData, EntryRecs, OutRecs
      <3>2. CASE out[r].cadence # "active"
        <4>1. entry' = [entry EXCEPT ![r].is = "error"] /\ out' = out
          BY <2>3, <3>2 DEF Imports!Schedule, Imports!Set
        <4> QED
          BY <4>1, RowIsError
      <3> QED
        BY <3>1, <3>2
    <2>4. CASE Imports!RowFails(p)
      <3>1. entry' = [entry EXCEPT ![r].is = "error"] /\ out' = out
        BY <2>4 DEF Imports!RowFails, Imports!Set
      <3> QED
        BY <3>1, RowIsError
    <2> QED
      BY <2>1, <2>2, <2>3, <2>4
  <1>7. ImportData'
    BY <1>1, <1>4, <1>5, <1>6 DEF ImportData, EntryRecs, OutRecs
  <1>8. \A s \in Rows : RowGrows(s) /\ (s # r => RowSame(s))
    BY <1>1, <1>6, SameGrows
  <1> QED
    BY <1>1, <1>2, <1>3, <1>4, <1>5, <1>6, <1>7, <1>8 DEF RowEffect

\* The steps of a row, taken together.
LEMMA RowMoves ==
  ASSUME ImportType, NEW p \in Actors, RowMove(p)
  PROVE  RowEffect(p)
  BY RowWrites, RowMarks DEF RowMove

\* An execution at a row goes to another step of it, or to the next row.
LEMMA RowHands ==
  ASSUME ImportType, NEW p \in Actors, RowEffect(p)
  PROVE  /\ ImportHands' /\ \A q \in Actors : q # p => hand'[q] = hand[q]
         /\ hand'[p] = [hand[p] EXCEPT !.at = hand'[p].at]
         /\ hand'[p].at \in Imports!RowSteps \cup {"next"}
         /\ hand'[p].job = hand[p].job /\ hand'[p].lost = hand[p].lost
         /\ hand'[p].todo = hand[p].todo /\ hand'[p].clean = hand[p].clean
         /\ hand'[p].plan = hand[p].plan /\ hand'[p].row = hand[p].row
         /\ hand'[p].linked = hand[p].linked /\ hand[p].clean = {}
  <1>1. PICK x \in Imports!RowSteps \cup {"next"} : hand' = [hand EXCEPT ![p].at = x]
    BY DEF RowEffect
  <1>2. hand[p] \in HandRecs /\ HandOk(p, hand[p]) /\ hand[p].at \in Imports!RowSteps
    BY DEF ImportType, ImportHands, RowEffect
  <1>3. /\ x \in ChunkPlaces /\ hand[p].at \in ChunkPlaces /\ hand[p].at # "idle"
        /\ x \in ParsePlaces \cup ChunkPlaces \cup CommitPlaces
        /\ hand[p].at \notin {"dispatch", "judge"}
    BY <1>2 DEF ChunkPlaces, Imports!RowSteps
  <1>4. /\ hand[p].clean = {} /\ (hand[p].plan # {} => p = Imports!Request)
    BY <1>2, <1>3 DEF HandOk
  <1> DEFINE h == [hand[p] EXCEPT !.at = x]
  <1>5. h \in HandRecs /\ HandOk(p, h)
    BY <1>2, <1>3, <1>4, MoveOk
  <1>6. hand' = [hand EXCEPT ![p] = h]
    BY <1>1
  <1>7. ImportHands' /\ hand'[p] = h /\ \A q \in Actors : q # p => hand'[q] = hand[q]
    BY <1>5, <1>6, HandMoves DEF ImportType
  <1>8. /\ h.at = x /\ h.job = hand[p].job /\ h.lost = hand[p].lost /\ h.todo = hand[p].todo
        /\ h.clean = hand[p].clean /\ h.plan = hand[p].plan /\ h.linked = hand[p].linked
        /\ h.row = hand[p].row
    BY <1>2 DEF HandRecs
  <1> QED
    BY <1>4, <1>7, <1>8

\* An execution that queues a commit, or ends.
CommitEffect(p) ==
    /\ hand[p].at \in {"dispatch", "parsed", "next"} \cup CommitPlaces /\ hand[p].todo = {}
    /\ \E h \in HandRecs :
         /\ HandOk(p, h) /\ hand' = [hand EXCEPT ![p] = h]
         /\ h.at \in {"idle", "parsed", "dispatch"} \cup CommitPlaces
         /\ h.todo = {} /\ h.clean = {} /\ h.linked = {} /\ h.plan = hand[p].plan
         /\ h = Imports!Free \/ (h.job = hand[p].job /\ h.lost = hand[p].lost)
         /\ h.at = "closing" => Imports!InFlight = {}
         /\ h.at = "dispatch" => p = Imports!Request /\ hand[p].at = "next"
         /\ h.at = "parsed" => hand[p].at \in {"dispatch"} \cup CommitPlaces
         /\ h.at \in CommitPlaces => hand[p].at \in {"dispatch"} \cup CommitPlaces
    /\ waiting \subseteq waiting'
    /\ waiting' \subseteq waiting \cup {Imports!Job("commit", {}), Imports!Job("again", {})}
    /\ UNCHANGED <<target, policy, entry, out, redis, dropped, twice, mishaps>>
    /\ batch' \in {batch, "parsed"} \/ (hand[p].at = "closing" /\ batch' = "committed")

\* The end of a chunk, in the request and in a worker.
LEMMA ReturnOk ==
  ASSUME ImportHands, NEW p \in Actors, hand[p].at \in {"chunk", "next"}, Imports!Return(p)
  PROVE  \E h \in HandRecs :
           /\ HandOk(p, h) /\ hand' = [hand EXCEPT ![p] = h]
           /\ h.todo = {} /\ h.clean = {} /\ h.linked = {} /\ h.plan = hand[p].plan
           /\ \/ h = Imports!Free /\ p # Imports!Request
              \/ /\ h.at = "dispatch" /\ p = Imports!Request
                 /\ h.job = hand[p].job /\ h.lost = hand[p].lost
  <1>1. hand[p] \in HandRecs /\ HandOk(p, hand[p]) /\ hand[p].clean = {}
    BY DEF ImportHands, HandOk
  <1>2. CASE p = Imports!Request
    <2> DEFINE h == [hand[p] EXCEPT !.at = "dispatch", !.todo = {}, !.linked = {}, !.row = 0]
    <2>1. h \in HandRecs
      <3>1. 0 \in 0 .. RowCount /\ "dispatch" \in ParsePlaces /\ {} \in SUBSET Rows
        BY ImportBounds DEF ParsePlaces
      <3> QED
        BY <1>1, <3>1 DEF HandRecs
    <2>2. /\ h.at = "dispatch" /\ h.job = hand[p].job /\ h.lost = hand[p].lost /\ h.todo = {}
          /\ h.clean = {} /\ h.plan = hand[p].plan /\ h.linked = {}
      BY <1>1 DEF HandRecs
    <2>3. HandOk(p, h)
      BY <1>1, <1>2, <2>2, FreeIsOk DEF HandOk, ChunkPlaces, Imports!RowSteps
    <2>4. hand' = [hand EXCEPT ![p] = h]
      BY <1>2 DEF Imports!Return
    <2> QED
      BY <1>2, <2>1, <2>2, <2>3, <2>4
  <1>3. CASE p # Imports!Request
    <2>1. hand[p].plan = {}
      BY <1>1, <1>3 DEF HandOk, ChunkPlaces
    <2>2. hand' = [hand EXCEPT ![p] = Imports!Free]
      BY <1>3 DEF Imports!Return, Imports!Finish
    <2> QED
      BY <1>3, <2>1, <2>2, FreeIsOk
  <1> QED
    BY <1>2, <1>3

\* A commit answers, or goes on.
LEMMA CommitHand ==
  ASSUME ImportHands, NEW p \in Actors, hand[p].at \in {"dispatch", "parsed"} \cup CommitPlaces,
         hand[p].plan = {},
         NEW x \in {"parsed"} \cup CommitPlaces, hand' = [hand EXCEPT ![p].at = x],
         p # Imports!Request => \/ hand[p].at \in ParsePlaces /\ x \in ParsePlaces
                                \/ hand[p].at \in CommitPlaces /\ x \in CommitPlaces
  PROVE  \E h \in HandRecs :
           /\ HandOk(p, h) /\ hand' = [hand EXCEPT ![p] = h] /\ h.at = x
           /\ h.todo = {} /\ h.clean = {} /\ h.linked = {} /\ h.plan = {}
           /\ h.job = hand[p].job /\ h.lost = hand[p].lost
  <1>1. hand[p] \in HandRecs /\ HandOk(p, hand[p])
    BY DEF ImportHands
  <1>2. /\ x \in ParsePlaces \cup ChunkPlaces \cup CommitPlaces /\ x \notin ChunkPlaces
        /\ x \notin Imports!RowSteps /\ x # "judge" /\ hand[p].at # "idle"
        /\ hand[p].at \notin ChunkPlaces /\ hand[p].at \notin {"leads", "judge"}
    BY DEF ParsePlaces, CommitPlaces, ChunkPlaces, Imports!RowSteps
  <1>3. hand[p].todo = {} /\ hand[p].clean = {} /\ hand[p].linked = {}
    BY <1>1, <1>2 DEF HandOk
  <1> DEFINE h == [hand[p] EXCEPT !.at = x]
  <1>4. h \in HandRecs /\ HandOk(p, h)
    BY <1>1, <1>2, <1>3, MoveOk
  <1>5. /\ hand' = [hand EXCEPT ![p] = h] /\ h.at = x
        /\ h.todo = {} /\ h.clean = {} /\ h.linked = {} /\ h.plan = {}
        /\ h.job = hand[p].job /\ h.lost = hand[p].lost
    BY <1>1, <1>3 DEF HandRecs
  <1> QED
    BY <1>4, <1>5

\* The steps around the commit, taken together.
LEMMA CommitMoves ==
  ASSUME ImportType, NEW p \in Actors, CommitMove(p)
  PROVE  CommitEffect(p)
  <1>0. hand[p] \in HandRecs /\ HandOk(p, hand[p]) /\ ImportHands
    BY DEF ImportType, ImportHands
  <1>1. /\ hand[p].at \in {"dispatch", "parsed", "next"} \cup CommitPlaces
        /\ UNCHANGED <<target, policy, entry, out, redis, dropped, twice, mishaps>>
        /\ batch' \in {batch, "parsed"} \/ (hand[p].at = "closing" /\ batch' = "committed")
    BY DEF CommitMove, Imports!DispatchCommit, Imports!Parsed, Imports!EndChunk, Imports!Commit,
       Imports!Barrier, Imports!Close, Imports!At, CommitPlaces, Imports!file, Imports!past
  <1>2. Imports!Queued("commit", {}) \in {waiting, waiting \cup {Imports!Job("commit", {})}}
    BY DEF Imports!Queued
  <1>3. /\ waiting \subseteq waiting'
        /\ waiting' \subseteq waiting \cup {Imports!Job("commit", {}), Imports!Job("again", {})}
    BY <1>2 DEF CommitMove, Imports!DispatchCommit, Imports!Parsed, Imports!EndChunk,
       Imports!Commit, Imports!Barrier, Imports!Close
  <1>4. hand[p].todo = {}
    <2>1. CASE Imports!EndChunk(p)
      BY <2>1 DEF Imports!EndChunk
    <2>2. hand[p].at \in {"dispatch", "parsed", "commit", "barrier", "closing"} => hand[p].todo = {}
      BY <1>0 DEF HandOk, ChunkPlaces, Imports!RowSteps
    <2> QED
      BY <2>1, <2>2 DEF CommitMove, Imports!DispatchCommit, Imports!Parsed, Imports!Commit,
         Imports!Barrier, Imports!Close, Imports!At
  <1>5. hand[p].at \in {"parsed"} \cup CommitPlaces => hand[p].plan = {}
    BY <1>0 DEF HandOk, ChunkPlaces, CommitPlaces, Imports!RowSteps
  <1> DEFINE Goes(h) ==
               /\ HandOk(p, h) /\ hand' = [hand EXCEPT ![p] = h]
               /\ h.at \in {"idle", "parsed", "dispatch"} \cup CommitPlaces
               /\ h.todo = {} /\ h.clean = {} /\ h.linked = {} /\ h.plan = hand[p].plan
               /\ h = Imports!Free \/ (h.job = hand[p].job /\ h.lost = hand[p].lost)
               /\ h.at = "closing" => Imports!InFlight = {}
               /\ h.at = "dispatch" => p = Imports!Request /\ hand[p].at = "next"
               /\ h.at = "parsed" => hand[p].at \in {"dispatch"} \cup CommitPlaces
               /\ h.at \in CommitPlaces => hand[p].at \in {"dispatch"} \cup CommitPlaces
  <1>6. Goes(Imports!Free) <=> hand' = [hand EXCEPT ![p] = Imports!Free] /\ hand[p].plan = {}
    BY FreeIsOk DEF CommitPlaces
  <1>7. CASE Imports!EndChunk(p)
    <2>1. hand[p].at = "next" /\ Imports!Return(p)
      BY <1>7 DEF Imports!EndChunk, Imports!At
    <2>2. PICK h \in HandRecs :
           /\ HandOk(p, h) /\ hand' = [hand EXCEPT ![p] = h]
           /\ h.todo = {} /\ h.clean = {} /\ h.linked = {} /\ h.plan = hand[p].plan
           /\ \/ h = Imports!Free /\ p # Imports!Request
              \/ /\ h.at = "dispatch" /\ p = Imports!Request
                 /\ h.job = hand[p].job /\ h.lost = hand[p].lost
      BY <1>0, <2>1, ReturnOk
    <2>3. Goes(h)
      BY <2>1, <2>2, FreeIsOk DEF CommitPlaces
    <2> QED
      BY <1>1, <1>3, <1>4, <2>3 DEF CommitEffect
  <1>8. CASE \/ Imports!Parsed(p)
             \/ hand' = [hand EXCEPT ![p] = Imports!Free] /\ hand[p].plan = {}
    <2>1. hand' = [hand EXCEPT ![p] = Imports!Free] /\ hand[p].plan = {}
      BY <1>5, <1>8 DEF Imports!Parsed, Imports!Finish, Imports!At
    <2> QED
      BY <1>1, <1>3, <1>4, <1>6, <2>1, FreeIsOk DEF CommitEffect
  <1>9. ASSUME NEW x \in {"parsed"} \cup CommitPlaces, hand' = [hand EXCEPT ![p].at = x],
               hand[p].at \in {"dispatch"} \cup CommitPlaces, hand[p].plan = {},
               p # Imports!Request => \/ hand[p].at \in ParsePlaces /\ x \in ParsePlaces
                                      \/ hand[p].at \in CommitPlaces /\ x \in CommitPlaces,
               x = "closing" => Imports!InFlight = {}
        PROVE  CommitEffect(p)
    <2>1. PICK h \in HandRecs :
           /\ HandOk(p, h) /\ hand' = [hand EXCEPT ![p] = h] /\ h.at = x
           /\ h.todo = {} /\ h.clean = {} /\ h.linked = {} /\ h.plan = {}
           /\ h.job = hand[p].job /\ h.lost = hand[p].lost
      BY <1>0, <1>9, CommitHand
    <2>2. Goes(h)
      BY <1>9, <2>1 DEF CommitPlaces
    <2> QED
      BY <1>1, <1>3, <1>4, <2>1, <2>2 DEF CommitEffect
  <1>10. CASE Imports!DispatchCommit(p)
    <2>1. /\ hand[p].at = "dispatch" /\ hand[p].plan = {}
          /\ \/ p = Imports!Request /\ hand' = [hand EXCEPT ![p].at = "commit"]
             \/ p # Imports!Request /\ hand' = [hand EXCEPT ![p].at = "parsed"]
      BY <1>10 DEF Imports!DispatchCommit, Imports!At, Imports!GoTo
    <2> QED
      BY <1>9, <2>1 DEF CommitPlaces, ParsePlaces
  <1>11. CASE Imports!Commit(p) \/ Imports!Barrier(p) \/ Imports!Close(p)
    <2>1. hand[p].at \in CommitPlaces /\ hand[p].plan = {}
      BY <1>5, <1>11 DEF Imports!Commit, Imports!Barrier, Imports!Close, Imports!At, CommitPlaces
    <2>2. \/ hand' = [hand EXCEPT ![p].at = "barrier"]
          \/ hand' = [hand EXCEPT ![p].at = "closing"] /\ Imports!InFlight = {}
          \/ Imports!Answer(p)
      BY <1>11 DEF Imports!Commit, Imports!Barrier, Imports!Close, Imports!GoTo
    <2>3. CASE Imports!Answer(p)
      BY <1>8, <1>9, <2>1, <2>3 DEF Imports!Answer, Imports!GoTo, Imports!Finish
    <2> QED
      BY <1>9, <2>1, <2>2, <2>3 DEF CommitPlaces
  <1> HIDE DEF Goes
  <1> QED
    BY <1>7, <1>8, <1>10, <1>11 DEF CommitMove

\* Around the commit the types hold.
LEMMA CommitTypes ==
  ASSUME ImportType, NEW p \in Actors, CommitEffect(p)
  PROVE  ImportType' /\ \A q \in Actors : q # p => hand'[q] = hand[q]
  <1>1. ImportData'
    BY DEF CommitEffect, ImportType, ImportData
  <1>2. PICK h \in HandRecs : HandOk(p, h) /\ hand' = [hand EXCEPT ![p] = h]
    BY DEF CommitEffect
  <1>3. ImportHands' /\ \A q \in Actors : q # p => hand'[q] = hand[q]
    BY <1>2, HandMoves DEF ImportType
  <1> DEFINE c == Imports!Job("commit", {})
             a == Imports!Job("again", {})
  <1>4. c \in JobRecs /\ JobOk(c) /\ a \in JobRecs /\ JobOk(a)
    BY JobRecords
  <1> HIDE DEF c, a
  <1>5. waiting' \subseteq waiting \cup {c, a}
    BY DEF CommitEffect, c, a
  <1>6. IsFiniteSet(waiting \cup {c, a})
    <2>1. IsFiniteSet(waiting \cup {c}) /\ waiting \cup {c, a} = (waiting \cup {c}) \cup {a}
      BY FS_AddElement DEF ImportType, ImportJobs
    <2> QED
      BY <2>1, FS_AddElement
  <1>7. ImportJobs'
    BY <1>4, <1>5, <1>6, FS_Subset DEF ImportType, ImportJobs
  <1> QED
    BY <1>1, <1>3, <1>7 DEF ImportType

\* A worker takes a job.
LEMMA TakeHands ==
  ASSUME ImportType, NEW w \in Hands, NEW j \in waiting, Imports!Take(w, j)
  PROVE  /\ ImportType' /\ \A q \in Actors : q # w => hand'[q] = hand[q]
         /\ hand[w] = Imports!Free /\ waiting' = waiting \ {j} /\ j \in JobRecs /\ JobOk(j)
         /\ hand'[w].at = IF j.kind = "again" THEN "commit" ELSE j.kind
         /\ hand'[w].job = j /\ hand'[w].todo = j.rows /\ ~hand'[w].lost
         /\ hand'[w].clean = {} /\ hand'[w].plan = {} /\ hand'[w].linked = {}
         /\ hand'[w].at \in {"parse", "chunk", "commit"}
         /\ UNCHANGED <<target, policy, batch, entry, out, redis, dropped, twice, mishaps>>
  <1>0. w \in Actors /\ w # Imports!Request /\ j \in JobRecs /\ JobOk(j)
    BY ImportBounds DEF ImportType, ImportJobs
  <1> DEFINE x == IF j.kind = "again" THEN "commit" ELSE j.kind
             h == [Imports!Free EXCEPT !.job = j, !.at = x, !.todo = j.rows]
  <1>1. j.kind \in {"parse", "chunk", "commit", "again"} /\ j.rows \subseteq Rows
    BY <1>0 DEF JobRecs, JobOk
  <1>2. x \in {"parse", "chunk", "commit"}
    BY <1>1
  <1>3. h \in HandRecs
    <2> HIDE DEF x
    <2> QED
      BY <1>0, <1>1, <1>2, FreeIsOk DEF HandRecs, ParsePlaces, ChunkPlaces, CommitPlaces
  <1>4. /\ h.at = x /\ h.job = j /\ h.todo = j.rows /\ ~h.lost /\ h.clean = {} /\ h.plan = {}
        /\ h.linked = {}
    BY DEF Imports!Free
  <1> HIDE DEF h
  <1>5. HandOk(w, h)
    BY <1>0, <1>1, <1>2, <1>4, FreeIsOk DEF HandOk, ParsePlaces, ChunkPlaces, CommitPlaces,
       Imports!RowSteps, JobOk
  <1>6. /\ hand' = [hand EXCEPT ![w] = h] /\ hand[w] = Imports!Free /\ waiting' = waiting \ {j}
        /\ UNCHANGED <<target, policy, batch, entry, out, redis, dropped, twice, mishaps>>
    BY DEF Imports!Take, h, Imports!file, Imports!past
  <1>7. ImportHands' /\ hand'[w] = h /\ \A q \in Actors : q # w => hand'[q] = hand[q]
    BY <1>0, <1>3, <1>5, <1>6, HandMoves DEF ImportType
  <1>8. ImportData' /\ ImportJobs'
    BY <1>0, <1>6, JobsMove DEF ImportType, ImportData
  <1> QED
    BY <1>0, <1>2, <1>4, <1>6, <1>7, <1>8 DEF ImportType

\* The request stores the file.
LEMMA PostHands ==
  ASSUME ImportType, Imports!Post
  PROVE  /\ ImportType' /\ \A q \in Actors : q # Imports!Request => hand'[q] = hand[q]
         /\ hand[Imports!Request].at = "post"
         /\ \/ /\ hand'[Imports!Request] = Imports!Free /\ UNCHANGED <<twice, mishaps>>
               /\ waiting' = Imports!Queued("parse", {})
            \/ /\ hand'[Imports!Request].at = "parse" /\ mishaps' = mishaps + 1
               /\ \/ waiting' = waiting
                  \/ waiting' = Imports!Queued("parse", {}) /\ (waiting' # waiting => "parse" \in twice')
            \/ hand'[Imports!Request].at = "parse" /\ UNCHANGED <<waiting, twice, mishaps>>
         /\ \/ hand'[Imports!Request] = Imports!Free
            \/ hand'[Imports!Request] = [hand[Imports!Request] EXCEPT !.at = "parse"]
         /\ UNCHANGED <<target, policy, batch, entry, out, redis, dropped>>
  <1> DEFINE p == Imports!Request
             h == [hand[p] EXCEPT !.at = "parse"]
             j == Imports!Job("parse", {})
  <1>0. p \in Actors /\ hand[p] \in HandRecs /\ HandOk(p, hand[p]) /\ hand[p].at = "post"
    BY ImportBounds DEF ImportType, ImportHands, Imports!Post, Imports!At
  <1>1. h \in HandRecs /\ HandOk(p, h)
    <2>1. /\ "post" # "idle" /\ "parse" \in ParsePlaces /\ "parse" \notin ChunkPlaces
          /\ "post" \notin ChunkPlaces /\ "parse" \notin Imports!RowSteps
      BY DEF ParsePlaces, ChunkPlaces, Imports!RowSteps
    <2>2. hand[p].todo = {} /\ hand[p].clean = {} /\ hand[p].plan = {} /\ hand[p].linked = {}
      BY <1>0, <2>1 DEF HandOk
    <2> QED
      BY <1>0, <2>1, <2>2, MoveOk
  <1>2. h.at = "parse"
    BY <1>0 DEF HandRecs
  <1>3. hand' = [hand EXCEPT ![p] = Imports!Free] \/ hand' = [hand EXCEPT ![p] = h]
    BY DEF Imports!Post, Imports!Finish, Imports!GoTo
  <1>4. /\ ImportHands' /\ \A q \in Actors : q # p => hand'[q] = hand[q]
        /\ \/ hand' = [hand EXCEPT ![p] = Imports!Free] /\ hand'[p] = Imports!Free
           \/ hand' = [hand EXCEPT ![p] = h] /\ hand'[p] = h
    BY <1>0, <1>1, <1>3, FreeIsOk, HandMoves DEF ImportType
  <1>5. UNCHANGED <<target, policy, batch, entry, out, redis, dropped>>
    BY DEF Imports!Post, Imports!file
  <1>6. /\ waiting' = waiting \/ waiting' = Imports!Queued("parse", {})
        /\ \/ UNCHANGED <<twice, mishaps>>
           \/ mishaps' = mishaps + 1 /\ twice' \subseteq {"parse"}
    BY DEF Imports!Post, Imports!Fine, Imports!Mishap
  <1>7. Imports!Queued("parse", {}) \in {waiting, waiting \cup {j}} /\ j \in JobRecs /\ JobOk(j)
    BY JobRecords DEF Imports!Queued
  <1>8. ImportJobs'
    <2> HIDE DEF j
    <2>1. waiting' \subseteq waiting \cup {j}
      BY <1>6, <1>7
    <2> QED
      BY <1>7, <2>1, JobsMove DEF ImportType
  <1>9. ImportData'
    <2>1. twice' \subseteq {"parse", "chunk", "commit", "again"} /\ mishaps' \in Nat
      <3>1. twice \subseteq {"parse", "chunk", "commit", "again"} /\ mishaps \in Nat
        BY DEF ImportType, ImportData
      <3>2. CASE UNCHANGED <<twice, mishaps>>
        BY <3>1, <3>2
      <3>3. CASE mishaps' = mishaps + 1 /\ twice' \subseteq {"parse"}
        BY <3>1, <3>3
      <3> QED
        BY <1>6, <3>2, <3>3
    <2> QED
      BY <1>5, <2>1 DEF ImportType, ImportData
  <1>10. \/ /\ hand'[p] = Imports!Free /\ UNCHANGED <<twice, mishaps>>
            /\ waiting' = Imports!Queued("parse", {})
         \/ /\ hand'[p].at = "parse" /\ mishaps' = mishaps + 1
            /\ \/ waiting' = waiting
               \/ waiting' = Imports!Queued("parse", {}) /\ (waiting' # waiting => "parse" \in twice')
         \/ hand'[p].at = "parse" /\ UNCHANGED <<waiting, twice, mishaps>>
    <2>1. CASE hand' = [hand EXCEPT ![p].at = "parse"]
      <3>1. hand' = [hand EXCEPT ![p] = h] /\ hand'[p] = h
        BY <1>0, <1>1, <2>1, HandMoves DEF ImportType
      <3>2. ~Imports!Finish(p)
        <4>1. [hand EXCEPT ![p] = Imports!Free][p] = Imports!Free
          BY <1>0 DEF ImportType, ImportHands
        <4> QED
          BY <1>2, <3>1, <4>1, FreeIsOk DEF Imports!Finish
      <3> QED
        BY <1>2, <3>1, <3>2 DEF Imports!Post, Imports!Mishap, Imports!Fine
    <2>2. CASE Imports!Finish(p)
      <3>1. hand'[p] = Imports!Free
        BY <1>0, <2>2, FreeIsOk, HandMoves DEF ImportType, Imports!Finish
      <3>2. hand' # [hand EXCEPT ![p].at = "parse"]
        <4>1. [hand EXCEPT ![p].at = "parse"][p] = h
          BY <1>0 DEF ImportType, ImportHands
        <4> QED
          BY <1>2, <3>1, <4>1, FreeIsOk
      <3> QED
        BY <3>1, <3>2 DEF Imports!Post, Imports!GoTo, Imports!Fine
    <2> QED
      BY <2>1, <2>2 DEF Imports!Post, Imports!GoTo
  <1> QED
    BY <1>0, <1>4, <1>5, <1>8, <1>9, <1>10 DEF ImportType

\* A parse reads the rows nobody has judged.
LEMMA ParseHands ==
  ASSUME ImportType, NEW p \in Actors, Imports!Parse(p)
  PROVE  /\ ImportType' /\ \A q \in Actors : q # p => hand'[q] = hand[q]
         /\ hand[p].at = "parse" /\ hand'[p].at = "leads" /\ hand'[p].todo = Unjudged
         /\ hand'[p].job = hand[p].job /\ hand'[p].lost = hand[p].lost
         /\ hand'[p].clean = {} /\ hand'[p].plan = {} /\ hand'[p].linked = {}
         /\ batch' = "parsing"
         /\ UNCHANGED <<target, policy, entry, out, redis, waiting, dropped, twice, mishaps>>
  <1> DEFINE h == [hand[p] EXCEPT !.todo = Unjudged, !.at = "leads"]
  <1>0. hand[p] \in HandRecs /\ HandOk(p, hand[p]) /\ hand[p].at = "parse"
    BY DEF ImportType, ImportHands, Imports!Parse, Imports!At
  <1>1. Unjudged \in SUBSET Rows
    BY DEF Unjudged
  <1>2. h \in HandRecs
    BY <1>0, <1>1 DEF HandRecs, ParsePlaces
  <1>3. /\ h.at = "leads" /\ h.todo = Unjudged /\ h.job = hand[p].job /\ h.lost = hand[p].lost
        /\ h.clean = hand[p].clean /\ h.plan = hand[p].plan /\ h.linked = hand[p].linked
    BY <1>0 DEF HandRecs
  <1>4. hand[p].clean = {} /\ hand[p].plan = {} /\ hand[p].linked = {} /\ hand[p] # Imports!Free
    BY <1>0, FreeIsOk DEF HandOk, ChunkPlaces, Imports!RowSteps
  <1> HIDE DEF h
  <1>5. HandOk(p, h)
    BY <1>0, <1>3, <1>4, FreeIsOk DEF HandOk, ParsePlaces, ChunkPlaces, CommitPlaces,
       Imports!RowSteps
  <1>6. /\ hand' = [hand EXCEPT ![p] = h] /\ batch' = "parsing"
        /\ UNCHANGED <<target, policy, entry, out, redis, waiting, dropped, twice, mishaps>>
    BY DEF Imports!Parse, h, Imports!file, Imports!past, Unjudged, Rows
  <1>7. ImportHands' /\ hand'[p] = h /\ \A q \in Actors : q # p => hand'[q] = hand[q]
    BY <1>2, <1>5, <1>6, HandMoves DEF ImportType
  <1>8. ImportData' /\ ImportJobs'
    BY <1>6 DEF ImportType, ImportData, ImportJobs
  <1> QED
    BY <1>0, <1>3, <1>4, <1>6, <1>7, <1>8 DEF ImportType

\* A parse reads the leads.
LEMMA LeadHands ==
  ASSUME ImportType, NEW p \in Actors, Imports!ReadLeads(p)
  PROVE  /\ ImportType' /\ \A q \in Actors : q # p => hand'[q] = hand[q]
         /\ hand[p].at = "leads" /\ hand'[p].at = "judge" /\ hand'[p].todo = hand[p].todo
         /\ hand'[p].job = hand[p].job /\ hand'[p].lost = hand[p].lost
         /\ hand'[p].clean = hand[p].clean /\ hand'[p].plan = {} /\ hand'[p].linked = {}
         /\ hand'[p].match = {r \in Rows : entry[r].kind = "known" \/ out[r].made > 0}
         /\ hand'[p].clean = {}
         /\ UNCHANGED <<target, policy, batch, entry, out, redis, waiting, dropped, twice, mishaps>>
  <1> DEFINE m == {r \in Rows : entry[r].kind = "known" \/ out[r].made > 0}
             h == [hand[p] EXCEPT !.match = m, !.at = "judge"]
  <1>0. hand[p] \in HandRecs /\ HandOk(p, hand[p]) /\ hand[p].at = "leads"
    BY DEF ImportType, ImportHands, Imports!ReadLeads, Imports!At
  <1>1. m \in SUBSET Rows /\ {r \in Rows : entry[r].kind = "known"} \subseteq m
    OBVIOUS
  <1>2. hand' = [hand EXCEPT ![p] = h]
    BY DEF Imports!ReadLeads, Rows
  <1> HIDE DEF m
  <1>3. h \in HandRecs
    BY <1>0, <1>1 DEF HandRecs, ParsePlaces
  <1>4. /\ h.at = "judge" /\ h.todo = hand[p].todo /\ h.job = hand[p].job /\ h.lost = hand[p].lost
        /\ h.clean = hand[p].clean /\ h.plan = hand[p].plan /\ h.linked = hand[p].linked
        /\ h.match = m
    BY <1>0 DEF HandRecs
  <1>5. hand[p].clean = {} /\ hand[p].plan = {} /\ hand[p].linked = {} /\ hand[p] # Imports!Free
    BY <1>0, FreeIsOk DEF HandOk, ChunkPlaces, Imports!RowSteps
  <1> HIDE DEF h
  <1>6. HandOk(p, h)
    BY <1>0, <1>4, <1>5, FreeIsOk DEF HandOk, ParsePlaces, ChunkPlaces, CommitPlaces,
       Imports!RowSteps
  <1>7. UNCHANGED <<target, policy, batch, entry, out, redis, waiting, dropped, twice, mishaps>>
    BY DEF Imports!ReadLeads, Imports!file, Imports!past
  <1>8. ImportHands' /\ hand'[p] = h /\ \A q \in Actors : q # p => hand'[q] = hand[q]
    BY <1>2, <1>3, <1>6, HandMoves DEF ImportType
  <1>9. ImportData' /\ ImportJobs'
    BY <1>7 DEF ImportType, ImportData, ImportJobs
  <1> QED
    BY <1>0, <1>1, <1>4, <1>5, <1>7, <1>8, <1>9 DEF ImportType, m

\* The oldest of the rows before a parse is judged: refused, merged, or clean.
JudgeEffect(p, r) ==
    /\ hand[p].at = "judge" /\ hand'[p].at = "judge" /\ r \in hand[p].todo
    /\ hand'[p].todo = hand[p].todo \ {r} /\ hand'[p].match = hand[p].match
    /\ hand'[p].job = hand[p].job /\ hand'[p].lost = hand[p].lost
    /\ hand'[p].plan = {} /\ hand'[p].linked = {} /\ hand[p].plan = {} /\ hand[p].linked = {}
    /\ \A s \in Rows : RowGrows(s) /\ (s # r => RowSame(s))
    /\ \/ /\ hand'[p].clean = hand[p].clean \cup {r}
          /\ entry'[r].is = entry[r].is /\ entry'[r].linked = entry[r].linked
          /\ r \in hand[p].match => ~Updates(r)
       \/ /\ hand'[p].clean = hand[p].clean
          /\ entry'[r].is \in {"error", "updated"}
          /\ entry'[r].linked => entry[r].linked \/ (policy = "update" /\ r \in hand[p].match)
    /\ UNCHANGED <<target, policy, batch, out, redis, waiting, dropped, twice, mishaps>>

\* A row's record is written.
LEMMA RecordWritten ==
  ASSUME ImportData, NEW r \in Rows, NEW x \in EntryRecs, UNCHANGED out,
         entry' = [entry EXCEPT ![r] = x], x.kind = entry[r].kind,
         entry[r].linked => x.linked, entry[r].forced => x.forced,
         x.is = "pending" => entry[r].is = "pending"
  PROVE  /\ entry' \in [Rows -> EntryRecs] /\ entry'[r] = x
         /\ \A s \in Rows : RowGrows(s) /\ (s # r => RowSame(s))
  <1>1. entry' \in [Rows -> EntryRecs] /\ entry'[r] = x
    BY DEF ImportData
  <1>2. \A s \in Rows : s # r => RowSame(s)
    BY DEF RowSame, ImportData
  <1>3. RowGrows(r)
    BY <1>1 DEF RowGrows, ImportData, OutRecs
  <1> QED
    BY <1>1, <1>2, <1>3, SameGrows

\* What judging writes in a row's record.
LEMMA Judgements ==
  ASSUME NEW e \in EntryRecs
  PROVE  /\ LET x == [e EXCEPT !.is = "error"] IN
              /\ x \in EntryRecs /\ x.is = "error" /\ x.linked = e.linked /\ x.forced = e.forced
              /\ x.kind = e.kind
         /\ LET x == [e EXCEPT !.is = "updated", !.linked = TRUE] IN
              /\ x \in EntryRecs /\ x.is = "updated" /\ x.linked /\ x.forced = e.forced
              /\ x.kind = e.kind
         /\ LET x == [e EXCEPT !.forced = TRUE] IN
              /\ x \in EntryRecs /\ x.is = e.is /\ x.linked = e.linked /\ x.forced
              /\ x.kind = e.kind
  BY DEF EntryRecs, Imports!RowStates

\* A parse judges a row.
LEMMA JudgeHands ==
  ASSUME ImportType, NEW p \in Actors, Imports!Judge(p)
  PROVE  /\ ImportType' /\ \A q \in Actors : q # p => hand'[q] = hand[q]
         /\ \E r \in Rows : JudgeEffect(p, r)
  <1>0. hand[p] \in HandRecs /\ HandOk(p, hand[p]) /\ hand[p].at = "judge"
    BY DEF ImportType, ImportHands, Imports!Judge, Imports!At
  <1> DEFINE Todo(r) == [hand[p] EXCEPT !.todo = @ \ {r}]
             Clean(r) == [hand[p] EXCEPT !.todo = @ \ {r}, !.clean = @ \cup {r}]
  <1>1. PICK r \in hand[p].todo :
          \/ /\ entry[r].kind = "bad" /\ entry' = [entry EXCEPT ![r].is = "error"]
             /\ hand' = [hand EXCEPT ![p] = Todo(r)]
          \/ /\ entry[r].kind # "bad" /\ r \notin hand[p].match /\ entry' = entry
             /\ hand' = [hand EXCEPT ![p] = Clean(r)]
          \/ /\ r \in hand[p].match /\ policy = "skip"
             /\ entry' = [entry EXCEPT ![r].is = "error"]
             /\ hand' = [hand EXCEPT ![p] = Todo(r)]
          \/ /\ r \in hand[p].match /\ policy = "update"
             /\ entry' = [entry EXCEPT ![r].is = "updated", ![r].linked = TRUE]
             /\ hand' = [hand EXCEPT ![p] = Todo(r)]
          \/ /\ r \in hand[p].match /\ policy # "update"
             /\ entry' = [entry EXCEPT ![r].forced = TRUE]
             /\ hand' = [hand EXCEPT ![p] = Clean(r)]
    <2>1. PICK r \in hand[p].todo :
            CASE entry[r].kind = "bad" ->
                   Imports!Set(r, "error") /\ hand' = [hand EXCEPT ![p].todo = @ \ {r}]
              [] entry[r].kind # "bad" /\ r \notin hand[p].match ->
                   /\ UNCHANGED entry
                   /\ hand' = [hand EXCEPT ![p].todo = @ \ {r}, ![p].clean = @ \cup {r}]
              [] OTHER ->
                   CASE policy = "skip" ->
                          Imports!Set(r, "error") /\ hand' = [hand EXCEPT ![p].todo = @ \ {r}]
                     [] policy = "update" ->
                          /\ entry' = [entry EXCEPT ![r].is = "updated", ![r].linked = TRUE]
                          /\ hand' = [hand EXCEPT ![p].todo = @ \ {r}]
                     [] OTHER ->
                          /\ entry' = [entry EXCEPT ![r].forced = TRUE]
                          /\ hand' = [hand EXCEPT ![p].todo = @ \ {r}, ![p].clean = @ \cup {r}]
      BY DEF Imports!Judge
    <2>2. /\ [hand EXCEPT ![p].todo = @ \ {r}] = [hand EXCEPT ![p] = Todo(r)]
          /\ [hand EXCEPT ![p].todo = @ \ {r}, ![p].clean = @ \cup {r}]
               = [hand EXCEPT ![p] = Clean(r)]
      BY <1>0 DEF ImportType, ImportHands
    <2>3. CASE entry[r].kind = "bad"
      BY <2>1, <2>2, <2>3 DEF Imports!Set
    <2>4. CASE entry[r].kind # "bad" /\ r \notin hand[p].match
      BY <2>1, <2>2, <2>4
    <2>5. CASE entry[r].kind # "bad" /\ r \in hand[p].match
      <3>1. CASE policy = "skip"
        BY <2>1, <2>2, <2>5, <3>1 DEF Imports!Set
      <3>2. CASE policy = "update"
        BY <2>1, <2>2, <2>5, <3>2
      <3>3. CASE policy \notin {"skip", "update"}
        BY <2>1, <2>2, <2>5, <3>3
      <3> QED
        BY <3>1, <3>2, <3>3
    <2> QED
      BY <2>3, <2>4, <2>5
  <1>2. r \in Rows /\ entry[r] \in EntryRecs /\ entry \in [Rows -> EntryRecs]
    BY <1>0, <1>1, HandFields DEF ImportType, ImportData
  <1>3. UNCHANGED <<target, policy, batch, out, redis, waiting, dropped, twice, mishaps>>
    BY DEF Imports!Judge, Imports!file, Imports!past
  <1>4. hand[p].plan = {} /\ hand[p].linked = {} /\ hand[p] # Imports!Free
    BY <1>0, FreeIsOk DEF HandOk, ChunkPlaces, Imports!RowSteps
  <1>5. /\ Todo(r) \in HandRecs
        /\ Todo(r).at = "judge" /\ Todo(r).todo = hand[p].todo \ {r} /\ Todo(r).match = hand[p].match
        /\ Todo(r).job = hand[p].job /\ Todo(r).lost = hand[p].lost
        /\ Todo(r).plan = {} /\ Todo(r).linked = {} /\ Todo(r).clean = hand[p].clean
    BY <1>0, <1>2, <1>4 DEF HandRecs
  <1>6. /\ Clean(r) \in HandRecs
        /\ Clean(r).at = "judge" /\ Clean(r).todo = hand[p].todo \ {r}
        /\ Clean(r).match = hand[p].match
        /\ Clean(r).job = hand[p].job /\ Clean(r).lost = hand[p].lost
        /\ Clean(r).plan = {} /\ Clean(r).linked = {} /\ Clean(r).clean = hand[p].clean \cup {r}
    BY <1>0, <1>2, <1>4 DEF HandRecs
  <1>7. ASSUME NEW h \in {Todo(r), Clean(r)} PROVE h \in HandRecs /\ HandOk(p, h)
    <2>1. /\ h \in HandRecs /\ h.at = "judge" /\ h.todo = hand[p].todo \ {r}
          /\ h.job = hand[p].job /\ h.lost = hand[p].lost /\ h.plan = {} /\ h.linked = {}
          /\ h.clean \subseteq hand[p].clean \cup {r}
      BY <1>5, <1>6, <1>7
    <2> HIDE DEF Todo, Clean
    <2>2. h.clean \cap h.todo = {}
      BY <1>0, <2>1 DEF HandOk
    <2> QED
      BY <1>0, <1>4, <2>1, <2>2, FreeIsOk DEF HandOk, ParsePlaces, ChunkPlaces, CommitPlaces,
         Imports!RowSteps
  <1>8. \E h \in {Todo(r), Clean(r)} : hand' = [hand EXCEPT ![p] = h]
    BY <1>1
  <1> HIDE DEF Todo, Clean
  <1>9. ImportHands' /\ \A q \in Actors : q # p => hand'[q] = hand[q]
    BY <1>7, <1>8, HandMoves DEF ImportType
  <1>10. \A h \in {Todo(r), Clean(r)} : hand' = [hand EXCEPT ![p] = h] => hand'[p] = h
    BY <1>7, HandMoves DEF ImportType
  <1>11. ASSUME NEW x \in EntryRecs, entry' = [entry EXCEPT ![r] = x], x.kind = entry[r].kind,
                entry[r].linked => x.linked, entry[r].forced => x.forced,
                x.is = "pending" => entry[r].is = "pending",
                \/ /\ hand' = [hand EXCEPT ![p] = Clean(r)]
                   /\ x.is = entry[r].is /\ x.linked = entry[r].linked
                   /\ r \in hand[p].match => policy # "update"
                \/ /\ hand' = [hand EXCEPT ![p] = Todo(r)]
                   /\ x.is \in {"error", "updated"}
                   /\ x.linked => entry[r].linked \/ (policy = "update" /\ r \in hand[p].match)
         PROVE  entry' \in [Rows -> EntryRecs] /\ JudgeEffect(p, r)
    <2>1. /\ entry' \in [Rows -> EntryRecs] /\ entry'[r] = x
          /\ \A s \in Rows : RowGrows(s) /\ (s # r => RowSame(s))
      BY <1>2, <1>3, <1>11, RecordWritten DEF ImportType
    <2>2. r \in hand[p].match /\ policy # "update" => ~Updates(r)
      BY DEF Updates
    <2>3. CASE /\ hand' = [hand EXCEPT ![p] = Clean(r)]
               /\ x.is = entry[r].is /\ x.linked = entry[r].linked
               /\ r \in hand[p].match => policy # "update"
      <3>1. hand'[p] = Clean(r)
        BY <1>10, <2>3
      <3>2. r \in hand[p].match => ~Updates(r)
        BY <2>2, <2>3
      <3> QED
        BY <1>0, <1>1, <1>3, <1>4, <1>6, <1>11, <2>1, <2>3, <3>1, <3>2 DEF JudgeEffect
    <2>4. CASE /\ hand' = [hand EXCEPT ![p] = Todo(r)]
               /\ x.is \in {"error", "updated"}
               /\ x.linked => entry[r].linked \/ (policy = "update" /\ r \in hand[p].match)
      BY <1>0, <1>1, <1>3, <1>4, <1>5, <1>10, <1>11, <2>1, <2>4 DEF JudgeEffect
    <2> QED
      BY <1>11, <2>1, <2>3, <2>4
  <1>12. entry' \in [Rows -> EntryRecs] /\ JudgeEffect(p, r)
    <2> DEFINE e == entry[r]
    <2>1. CASE entry' = [entry EXCEPT ![r].is = "error"] /\ hand' = [hand EXCEPT ![p] = Todo(r)]
      <3> DEFINE x == [e EXCEPT !.is = "error"]
      <3>1. x \in EntryRecs /\ x.is = "error" /\ x.linked = e.linked /\ x.forced = e.forced /\ x.kind = e.kind
        BY <1>2, Judgements
      <3>2. entry' = [entry EXCEPT ![r] = x]
        BY <2>1
      <3> HIDE DEF x
      <3> QED
        BY <1>11, <2>1, <3>1, <3>2
    <2>2. CASE /\ entry' = [entry EXCEPT ![r].is = "updated", ![r].linked = TRUE]
               /\ hand' = [hand EXCEPT ![p] = Todo(r)] /\ policy = "update" /\ r \in hand[p].match
      <3> DEFINE x == [e EXCEPT !.is = "updated", !.linked = TRUE]
      <3>1. x \in EntryRecs /\ x.is = "updated" /\ x.linked /\ x.forced = e.forced /\ x.kind = e.kind
        BY <1>2, Judgements
      <3>2. entry' = [entry EXCEPT ![r] = x]
        BY <2>2
      <3> HIDE DEF x
      <3> QED
        BY <1>11, <2>2, <3>1, <3>2
    <2>3. CASE /\ entry' = [entry EXCEPT ![r].forced = TRUE]
               /\ hand' = [hand EXCEPT ![p] = Clean(r)] /\ policy # "update"
      <3> DEFINE x == [e EXCEPT !.forced = TRUE]
      <3>1. x \in EntryRecs /\ x.is = e.is /\ x.linked = e.linked /\ x.forced /\ x.kind = e.kind
        BY <1>2, Judgements
      <3>2. entry' = [entry EXCEPT ![r] = x]
        BY <2>3
      <3> HIDE DEF x
      <3> QED
        BY <1>11, <2>3, <3>1, <3>2
    <2>4. CASE /\ entry' = entry /\ r \notin hand[p].match
               /\ hand' = [hand EXCEPT ![p] = Clean(r)]
      <3>1. entry' = [entry EXCEPT ![r] = e]
        BY <1>2, <2>4
      <3> QED
        BY <1>2, <1>11, <2>4, <3>1
    <2> QED
      BY <1>1, <2>1, <2>2, <2>3, <2>4
  <1>13. ImportData' /\ ImportJobs'
    BY <1>3, <1>12 DEF ImportType, ImportData, ImportJobs
  <1> QED
    BY <1>2, <1>9, <1>12, <1>13 DEF ImportType

\* A parse marks its clean rows valid, and plans their chunks.
LEMMA MarkHands ==
  ASSUME ImportType, NEW p \in Actors, Imports!MarkValid(p)
  PROVE  /\ ImportType' /\ \A q \in Actors : q # p => hand'[q] = hand[q]
         /\ hand[p].at = "judge" /\ hand[p].todo = {} /\ hand'[p].at = "dispatch"
         /\ hand'[p].job = hand[p].job /\ hand'[p].lost = hand[p].lost
         /\ hand'[p].todo = {} /\ hand'[p].clean = {} /\ hand'[p].linked = {}
         /\ hand'[p].plan = Imports!Chunks(hand[p].clean)
         /\ \A r \in Rows : RowGrows(r) /\ (r \notin hand[p].clean => RowSame(r))
         /\ \A r \in hand[p].clean : entry'[r].is = "valid" /\ entry'[r].linked = entry[r].linked
         /\ UNCHANGED <<target, policy, batch, out, redis, waiting, dropped, twice, mishaps>>
  <1> DEFINE P == Imports!Chunks(hand[p].clean)
             h == [hand[p] EXCEPT !.at = "dispatch", !.plan = P, !.match = {}, !.clean = {}]
  <1>0. /\ hand[p] \in HandRecs /\ HandOk(p, hand[p]) /\ hand[p].at = "judge" /\ hand[p].todo = {}
        /\ hand[p].clean \subseteq Rows
    BY HandFields DEF ImportType, ImportHands, Imports!MarkValid, Imports!At
  <1>1. /\ P \in SUBSET SUBSET Rows
        /\ \A c, d \in P : c # {} /\ (c # d => c \cap d = {})
    BY <1>0, ChunksSplit
  <1>2. hand[p].linked = {} /\ hand[p] # Imports!Free
    BY <1>0, FreeIsOk DEF HandOk, ChunkPlaces, Imports!RowSteps
  <1>3. hand' = [hand EXCEPT ![p] = h]
    BY DEF Imports!MarkValid
  <1> HIDE DEF P
  <1>4. h \in HandRecs
    BY <1>0, <1>1 DEF HandRecs, ParsePlaces
  <1>5. /\ h.at = "dispatch" /\ h.job = hand[p].job /\ h.lost = hand[p].lost /\ h.todo = {}
        /\ h.clean = {} /\ h.plan = P /\ h.linked = {}
    BY <1>0, <1>2 DEF HandRecs
  <1> HIDE DEF h
  <1>6. HandOk(p, h)
    BY <1>0, <1>1, <1>2, <1>5, FreeIsOk DEF HandOk, ParsePlaces, ChunkPlaces, CommitPlaces,
       Imports!RowSteps
  <1>7. ImportHands' /\ hand'[p] = h /\ \A q \in Actors : q # p => hand'[q] = hand[q]
    BY <1>3, <1>4, <1>6, HandMoves DEF ImportType
  <1>8. UNCHANGED <<target, policy, batch, out, redis, waiting, dropped, twice, mishaps>>
    BY DEF Imports!MarkValid, Imports!file, Imports!past
  <1>9. entry' = [r \in Rows |-> IF r \in hand[p].clean THEN [entry[r] EXCEPT !.is = "valid"]
                                 ELSE entry[r]]
    BY DEF Imports!MarkValid, Rows
  <1>10. ASSUME NEW r \in Rows
         PROVE  /\ entry'[r] \in EntryRecs /\ RowGrows(r)
                /\ r \notin hand[p].clean => RowSame(r)
                /\ r \in hand[p].clean => entry'[r].is = "valid" /\ entry'[r].linked = entry[r].linked
    <2>1. entry[r] \in EntryRecs /\ ImportData
      BY DEF ImportType, ImportData
    <2>2. CASE r \notin hand[p].clean
      BY <1>8, <1>9, <2>1, <2>2, SameGrows DEF RowSame
    <2>3. CASE r \in hand[p].clean
      <3>1. entry'[r] = [entry[r] EXCEPT !.is = "valid"]
        BY <1>9, <2>3
      <3>2. /\ entry'[r].is = "valid" /\ entry'[r].linked = entry[r].linked
            /\ entry'[r].forced = entry[r].forced /\ entry'[r].kind = entry[r].kind
            /\ entry'[r] \in EntryRecs
        BY <2>1, <3>1 DEF EntryRecs, Imports!RowStates
      <3>3. out'[r] = out[r] /\ out[r].made \in Nat
        BY <1>8, <2>1 DEF ImportData, OutRecs
      <3> QED
        BY <2>3, <3>2, <3>3 DEF RowGrows
    <2> QED
      BY <2>2, <2>3
  <1>11. ImportData' /\ ImportJobs'
    <2>1. entry' \in [Rows -> EntryRecs]
      BY <1>9, <1>10
    <2> QED
      BY <1>8, <2>1 DEF ImportType, ImportData, ImportJobs
  <1> QED
    BY <1>0, <1>5, <1>7, <1>8, <1>10, <1>11 DEF ImportType, P

\* A parse hands out a chunk: the request to itself, a worker to the queue.
DispatchEffect(p, c) ==
    /\ hand[p].at = "dispatch" /\ c \in hand[p].plan /\ c \subseteq Rows /\ c # {}
    /\ hand[p].todo = {} /\ hand[p].clean = {}
    /\ hand'[p].plan = hand[p].plan \ {c} /\ hand'[p].clean = {} /\ hand'[p].linked = {}
    /\ hand'[p].job = hand[p].job /\ hand'[p].lost = hand[p].lost
    /\ \/ /\ p = Imports!Request /\ waiting' = waiting
          /\ hand'[p].todo = c /\ hand'[p].at = "chunk"
       \/ /\ p # Imports!Request /\ waiting' = Imports!Queued("chunk", c)
          /\ hand'[p].todo = {} /\ hand'[p].at = "dispatch"
    /\ UNCHANGED <<target, policy, batch, entry, out, redis, dropped, twice, mishaps>>

\* What is left of a plan is a plan.
LEMMA DispatchHands ==
  ASSUME ImportType, NEW p \in Actors, Imports!DispatchChunk(p)
  PROVE  /\ ImportType' /\ \A q \in Actors : q # p => hand'[q] = hand[q]
         /\ \E c \in SUBSET Rows : DispatchEffect(p, c)
  <1>0. /\ hand[p] \in HandRecs /\ HandOk(p, hand[p]) /\ hand[p].at = "dispatch"
        /\ hand[p].plan # {} /\ hand[p].plan \subseteq SUBSET Rows
    BY HandFields DEF ImportType, ImportHands, Imports!DispatchChunk, Imports!At
  <1>1. /\ hand[p].todo = {} /\ hand[p].clean = {} /\ hand[p].linked = {} /\ hand[p] # Imports!Free
        /\ \A x, d \in hand[p].plan : x # {} /\ (x # d => x \cap d = {})
    BY <1>0, FreeIsOk DEF HandOk, ChunkPlaces, Imports!RowSteps
  <1>2. PICK c \in hand[p].plan : c = Imports!First(hand[p].plan)
    BY <1>0, <1>1, FirstChunkIsThere
  <1>3. c \in SUBSET Rows /\ c # {}
    BY <1>0, <1>1, <1>2
  <1>4. UNCHANGED <<target, policy, batch, entry, out, redis, dropped, twice, mishaps>>
    BY DEF Imports!DispatchChunk, Imports!file, Imports!past
  <1>5. CASE p = Imports!Request
    <2> DEFINE h == [hand[p] EXCEPT !.plan = @ \ {c}, !.todo = c, !.at = "chunk"]
    <2>1. hand' = [hand EXCEPT ![p] = h] /\ waiting' = waiting
      <3>1. [hand EXCEPT ![p].plan = @ \ {c}, ![p].todo = c, ![p].at = "chunk"]
              = [hand EXCEPT ![p] = h]
        BY <1>0 DEF ImportType, ImportHands
      <3> HIDE DEF h
      <3> QED
        BY <1>2, <1>5, <3>1 DEF Imports!DispatchChunk
    <2>2. h \in HandRecs
      BY <1>0, <1>3 DEF HandRecs, ChunkPlaces
    <2>3. /\ h.at = "chunk" /\ h.job = hand[p].job /\ h.lost = hand[p].lost /\ h.todo = c
          /\ h.clean = {} /\ h.plan = hand[p].plan \ {c} /\ h.linked = {}
      BY <1>0, <1>1 DEF HandRecs
    <2> HIDE DEF h
    <2>4. \A d \in h.plan : d \cap c = {}
      BY <1>1, <1>2, <2>3
    <2>5. HandOk(p, h)
      BY <1>0, <1>1, <1>5, <2>3, <2>4, FreeIsOk DEF HandOk, ChunkPlaces, Imports!RowSteps
    <2>6. ImportHands' /\ hand'[p] = h /\ \A q \in Actors : q # p => hand'[q] = hand[q]
      BY <2>1, <2>2, <2>5, HandMoves DEF ImportType
    <2>7. ImportData' /\ ImportJobs'
      BY <1>4, <2>1 DEF ImportType, ImportData, ImportJobs
    <2>8. DispatchEffect(p, c)
      BY <1>0, <1>1, <1>2, <1>3, <1>4, <1>5, <2>1, <2>3, <2>6 DEF DispatchEffect
    <2> QED
      BY <1>3, <2>6, <2>7, <2>8 DEF ImportType
  <1>6. CASE p # Imports!Request
    <2> DEFINE h == [hand[p] EXCEPT !.plan = @ \ {c}]
    <2>1. hand' = [hand EXCEPT ![p] = h] /\ waiting' = Imports!Queued("chunk", c)
      BY <1>2, <1>6 DEF Imports!DispatchChunk
    <2>2. h \in HandRecs
      BY <1>0, <1>3 DEF HandRecs
    <2>3. /\ h.at = "dispatch" /\ h.job = hand[p].job /\ h.lost = hand[p].lost /\ h.todo = {}
          /\ h.clean = {} /\ h.plan = hand[p].plan \ {c} /\ h.linked = {}
      BY <1>0, <1>1 DEF HandRecs
    <2> HIDE DEF h
    <2>4. HandOk(p, h)
      BY <1>0, <1>1, <1>6, <2>3, FreeIsOk DEF HandOk, ParsePlaces, ChunkPlaces, CommitPlaces,
         Imports!RowSteps
    <2>5. ImportHands' /\ hand'[p] = h /\ \A q \in Actors : q # p => hand'[q] = hand[q]
      BY <2>1, <2>2, <2>4, HandMoves DEF ImportType
    <2> DEFINE j == Imports!Job("chunk", c)
    <2>6. j \in JobRecs /\ JobOk(j) /\ Imports!Queued("chunk", c) \in {waiting, waiting \cup {j}}
      BY <1>3, JobRecords DEF Imports!Queued
    <2>7. ImportData' /\ ImportJobs'
      <3> HIDE DEF j
      <3>1. waiting' \subseteq waiting \cup {j}
        BY <2>1, <2>6
      <3> QED
        BY <1>4, <2>6, <3>1, JobsMove DEF ImportType, ImportData
    <2>8. DispatchEffect(p, c)
      BY <1>0, <1>1, <1>2, <1>3, <1>4, <1>6, <2>1, <2>3, <2>5 DEF DispatchEffect
    <2> QED
      BY <1>3, <2>5, <2>7, <2>8 DEF ImportType
  <1> QED
    BY <1>5, <1>6

\* A chunk reads its rows: those that are valid or imported, or none.
ReadEffect(p, mine) ==
    /\ hand[p].at = "chunk" /\ hand'[p].plan = hand[p].plan
    /\ mine = {r \in hand[p].todo : entry[r].is \in {"valid", "imported"}}
    /\ hand'[p].todo = mine /\ hand'[p].clean = {}
    /\ \/ /\ mine = {} /\ hand'[p].linked = {}
          /\ \/ hand'[p] = Imports!Free /\ p # Imports!Request
             \/ /\ hand'[p].at = "dispatch" /\ p = Imports!Request
                /\ hand'[p].job = hand[p].job /\ hand'[p].lost = hand[p].lost
       \/ /\ hand'[p].at = "next" /\ hand'[p].job = hand[p].job /\ hand'[p].lost = hand[p].lost
          /\ hand'[p].linked = {r \in mine : entry[r].linked}
    /\ UNCHANGED <<target, policy, batch, entry, out, redis, waiting, dropped, twice, mishaps>>

\* A chunk that has read its rows has fewer before it, or ends.
LEMMA ReadHands ==
  ASSUME ImportType, NEW p \in Actors, Imports!ReadChunk(p)
  PROVE  /\ ImportType' /\ \A q \in Actors : q # p => hand'[q] = hand[q]
         /\ \E mine \in SUBSET Rows : ReadEffect(p, mine)
  <1>0. hand[p] \in HandRecs /\ HandOk(p, hand[p]) /\ hand[p].at = "chunk" /\ hand[p].todo \subseteq Rows
    BY HandFields DEF ImportType, ImportHands, Imports!ReadChunk, Imports!At
  <1> DEFINE S == {r \in hand[p].todo : entry[r].is \in {"valid", "imported"}}
  <1>1. PICK mine \in SUBSET Rows : mine = S
    BY <1>0
  <1>2. UNCHANGED <<target, policy, batch, entry, out, redis, waiting, dropped, twice, mishaps>>
    BY DEF Imports!ReadChunk, Imports!file, Imports!past
  <1>3. ImportData' /\ ImportJobs'
    BY <1>2 DEF ImportType, ImportData, ImportJobs
  <1>4. CASE mine = {}
    <2>1. Imports!Return(p)
      BY <1>1, <1>4 DEF Imports!ReadChunk
    <2>2. PICK h \in HandRecs :
           /\ HandOk(p, h) /\ hand' = [hand EXCEPT ![p] = h]
           /\ h.todo = {} /\ h.clean = {} /\ h.linked = {} /\ h.plan = hand[p].plan
           /\ \/ h = Imports!Free /\ p # Imports!Request
              \/ /\ h.at = "dispatch" /\ p = Imports!Request
                 /\ h.job = hand[p].job /\ h.lost = hand[p].lost
      BY <1>0, <2>1, ReturnOk DEF ImportType
    <2>3. ImportHands' /\ hand'[p] = h /\ \A q \in Actors : q # p => hand'[q] = hand[q]
      BY <2>2, HandMoves DEF ImportType
    <2>4. ReadEffect(p, mine)
      BY <1>0, <1>1, <1>2, <1>4, <2>2, <2>3 DEF ReadEffect
    <2> QED
      BY <1>3, <2>3, <2>4 DEF ImportType
  <1>5. CASE mine # {}
    <2> DEFINE l == {r \in mine : entry[r].linked}
               h == [hand[p] EXCEPT !.todo = mine, !.at = "next", !.linked = l]
    <2>0. l \in SUBSET Rows
      BY <1>1
    <2>1. hand' = [hand EXCEPT ![p] = h]
      <3>1. [hand EXCEPT ![p].todo = mine, ![p].at = "next", ![p].linked = l]
              = [hand EXCEPT ![p] = h]
        BY <1>0 DEF ImportType, ImportHands
      <3> HIDE DEF h
      <3> QED
        BY <1>1, <1>5, <3>1 DEF Imports!ReadChunk
    <2> HIDE DEF l
    <2>2. h \in HandRecs
      BY <1>0, <2>0 DEF HandRecs, ChunkPlaces
    <2>3. /\ h.at = "next" /\ h.job = hand[p].job /\ h.lost = hand[p].lost /\ h.todo = mine
          /\ h.clean = hand[p].clean /\ h.plan = hand[p].plan /\ h.linked = l
      BY <1>0 DEF HandRecs
    <2>4. mine \subseteq hand[p].todo
      BY <1>1
    <2> HIDE DEF h
    <2>5. hand[p].clean = {} /\ hand[p] # Imports!Free
      BY <1>0, FreeIsOk DEF HandOk
    <2>6. HandOk(p, h)
      <3>1. \A c \in h.plan : c \cap h.todo = {}
        BY <1>0, <2>3, <2>4 DEF HandOk, ChunkPlaces
      <3> QED
        BY <1>0, <2>3, <2>4, <2>5, <3>1, FreeIsOk DEF HandOk, ChunkPlaces, ParsePlaces, CommitPlaces,
           Imports!RowSteps
    <2>7. ImportHands' /\ hand'[p] = h /\ \A q \in Actors : q # p => hand'[q] = hand[q]
      BY <2>1, <2>2, <2>6, HandMoves DEF ImportType
    <2>8. ReadEffect(p, mine)
      BY <1>0, <1>1, <1>2, <2>3, <2>5, <2>7 DEF ReadEffect, l
    <2> QED
      BY <1>3, <2>7, <2>8 DEF ImportType
  <1> QED
    BY <1>4, <1>5

\* A chunk goes to one of its rows.
NextEffect(p, r) ==
    /\ hand[p].at = "next" /\ r \in hand[p].todo /\ hand'[p].todo = hand[p].todo \ {r}
    /\ hand'[p].row = r /\ hand'[p].clean = {} /\ hand[p].clean = {}
    /\ hand'[p].plan = hand[p].plan
    /\ hand'[p].linked = hand[p].linked /\ hand'[p].job = hand[p].job /\ hand'[p].lost = hand[p].lost
    /\ \/ hand'[p].at = "mark" /\ r \in hand[p].linked
       \/ hand'[p].at = "create" /\ target = "lead"
       \/ hand'[p].at = "find" /\ target = "pool"
    /\ UNCHANGED <<target, policy, batch, entry, out, redis, waiting, dropped, twice, mishaps>>

\* The row at hand is none of those still before the chunk.
LEMMA NextHands ==
  ASSUME ImportType, NEW p \in Actors, Imports!NextRow(p)
  PROVE  /\ ImportType' /\ \A q \in Actors : q # p => hand'[q] = hand[q]
         /\ \E r \in Rows : NextEffect(p, r)
  <1>0. hand[p] \in HandRecs /\ HandOk(p, hand[p]) /\ hand[p].at = "next" /\ hand[p].todo \subseteq Rows
    BY HandFields DEF ImportType, ImportHands, Imports!NextRow, Imports!At
  <1> DEFINE To(r) == CASE r \in hand[p].linked -> "mark"
                        [] r \notin hand[p].linked /\ target = "lead" -> "create"
                        [] OTHER -> "find"
  <1>1. PICK r \in hand[p].todo : hand' = [hand EXCEPT ![p].todo = @ \ {r}, ![p].row = r, ![p].at = To(r)]
    BY DEF Imports!NextRow
  <1>2. target \in {"lead", "pool"}
    BY DEF ImportType, ImportData, Imports!Targets
  <1>3. PICK x : x = To(r)
    OBVIOUS
  <1>4. \/ x = "mark" /\ r \in hand[p].linked
        \/ x = "create" /\ target = "lead"
        \/ x = "find" /\ target = "pool"
    BY <1>2, <1>3
  <1>5. x \in Imports!RowSteps /\ x \in ChunkPlaces /\ r \in Rows /\ r \in 0 .. RowCount
    BY <1>0, <1>4, ImportBounds DEF Imports!RowSteps, ChunkPlaces
  <1> HIDE DEF To
  <1> DEFINE h == [hand[p] EXCEPT !.todo = @ \ {r}, !.row = r, !.at = x]
  <1>6. hand' = [hand EXCEPT ![p] = h]
    <2>1. [hand EXCEPT ![p].todo = @ \ {r}, ![p].row = r, ![p].at = x] = [hand EXCEPT ![p] = h]
      BY <1>0 DEF ImportType, ImportHands
    <2> QED
      BY <1>1, <1>3, <2>1
  <1>7. h \in HandRecs
    BY <1>0, <1>5 DEF HandRecs
  <1>8. /\ h.at = x /\ h.job = hand[p].job /\ h.lost = hand[p].lost /\ h.todo = hand[p].todo \ {r}
        /\ h.clean = hand[p].clean /\ h.plan = hand[p].plan /\ h.linked = hand[p].linked
        /\ h.row = r
    BY <1>0 DEF HandRecs
  <1> HIDE DEF h
  <1>9. hand[p].clean = {} /\ hand[p] # Imports!Free
    BY <1>0, FreeIsOk DEF HandOk
  <1>10. HandOk(p, h)
    <2>1. \A c \in h.plan : c \cap h.todo = {} /\ r \notin c
      BY <1>0, <1>1, <1>8 DEF HandOk, ChunkPlaces
    <2>2. p # Imports!Request => hand[p].todo \subseteq hand[p].job.rows
      BY <1>0, <1>9 DEF HandOk, ChunkPlaces
    <2>3. x \notin {"idle", "judge", "dispatch"} \cup ParsePlaces \cup CommitPlaces /\ "next" \in ChunkPlaces
      BY <1>5 DEF Imports!RowSteps, ParsePlaces, CommitPlaces, ChunkPlaces
    <2>4. "next" \notin ParsePlaces /\ "next" \notin CommitPlaces
      BY DEF ParsePlaces, CommitPlaces
    <2> QED
      BY <1>0, <1>1, <1>5, <1>8, <1>9, <2>1, <2>2, <2>3, <2>4, FreeIsOk DEF HandOk
  <1>11. ImportHands' /\ hand'[p] = h /\ \A q \in Actors : q # p => hand'[q] = hand[q]
    BY <1>6, <1>7, <1>10, HandMoves DEF ImportType
  <1>12. UNCHANGED <<target, policy, batch, entry, out, redis, waiting, dropped, twice, mishaps>>
    BY DEF Imports!NextRow, Imports!file, Imports!past
  <1>13. ImportData' /\ ImportJobs'
    BY <1>12 DEF ImportType, ImportData, ImportJobs
  <1>14. NextEffect(p, r)
    BY <1>0, <1>1, <1>4, <1>8, <1>9, <1>11, <1>12 DEF NextEffect
  <1> QED
    BY <1>5, <1>11, <1>13, <1>14 DEF ImportType

\* An execution ends without an outcome.
AbandonEffect(p) ==
    /\ hand[p].at \notin {"idle", "post"} /\ hand'[p] = Imports!Free
    /\ \/ waiting' = waiting
       \/ \E j \in JobRecs : /\ waiting' = waiting \cup {j} /\ JobOk(j) /\ ~hand[p].lost
                             /\ p # Imports!Request
                             /\ j.kind = hand[p].job.kind /\ j.rows = hand[p].job.rows
    /\ ~dropped' =>
         /\ ~dropped /\ hand[p].plan = {}
         /\ ~hand[p].lost =>
              \E j \in waiting' : j.kind = hand[p].job.kind /\ j.rows = hand[p].job.rows
         /\ ~hand[p].lost => p # Imports!Request
         /\ hand[p].lost /\ hand[p].at \in Imports!RowSteps => Imports!StillDue(hand[p].row, p)
    /\ UNCHANGED <<target, policy, batch, entry, out, redis, twice>>
    /\ mishaps' = mishaps + 1 \/ (mishaps' = mishaps /\ ~redis)

\* Its job is handed out again, with one attempt fewer, or not at all.
LEMMA AbandonHands ==
  ASSUME ImportType, NEW p \in Actors, Imports!Fail(p) \/ Imports!QueueRefuses(p)
  PROVE  /\ ImportType' /\ \A q \in Actors : q # p => hand'[q] = hand[q]
         /\ AbandonEffect(p)
  <1>0. hand[p] \in HandRecs /\ HandOk(p, hand[p])
    BY DEF ImportType, ImportHands
  <1>1. /\ Imports!Abandon(p) /\ hand[p].at \notin {"idle", "post"}
        /\ UNCHANGED <<target, policy, batch, entry, out, redis, twice>>
        /\ mishaps' = mishaps + 1 \/ (mishaps' = mishaps /\ ~redis)
    BY DEF Imports!Fail, Imports!QueueRefuses, Imports!At, Imports!Mishap, Imports!file
  <1>2. ImportHands' /\ hand'[p] = Imports!Free /\ \A q \in Actors : q # p => hand'[q] = hand[q]
    BY <1>1, FreeIsOk, HandMoves DEF ImportType, Imports!Abandon, Imports!Finish
  <1> DEFINE j == hand[p].job
             again == p # Imports!Request /\ ~hand[p].lost /\ j.tries + 1 < Imports!Attempts(j.kind)
             k == [j EXCEPT !.tries = @ + 1]
  <1>3. /\ waiting' = IF again THEN waiting \cup {k} ELSE waiting
        /\ dropped' = (\/ dropped
                       \/ hand[p].plan # {}
                       \/ ~again /\ ~hand[p].lost
                       \/ /\ hand[p].lost /\ hand[p].at \in Imports!RowSteps
                          /\ ~Imports!StillDue(hand[p].row, p))
    BY <1>1 DEF Imports!Abandon
  <1>4. j \in JobRecs /\ j.tries \in Nat
    BY <1>0, HandFields
  <1>5. k \in JobRecs /\ k.kind = j.kind /\ k.rows = j.rows /\ k.tries = j.tries + 1
    BY <1>4 DEF JobRecs
  <1>6. again => JobOk(k)
    BY <1>0, <1>1, <1>5, FreeIsOk DEF HandOk, JobOk
  <1> HIDE DEF k
  <1>7. ImportJobs'
    <2>1. CASE again
      BY <1>3, <1>5, <1>6, <2>1, JobsMove DEF ImportType
    <2>2. CASE ~again
      BY <1>3, <2>2 DEF ImportType, ImportJobs
    <2> QED
      BY <2>1, <2>2
  <1>8. ImportData'
    <2>1. dropped' \in BOOLEAN
      BY <1>3 DEF ImportType, ImportData
    <2>2. mishaps' \in Nat
      BY <1>1 DEF ImportType, ImportData
    <2> QED
      BY <1>1, <2>1, <2>2 DEF ImportType, ImportData
  <1>9. AbandonEffect(p)
    <2>1. CASE again
      <3>1. waiting' = waiting \cup {k} /\ ~hand[p].lost /\ p # Imports!Request /\ k \in waiting'
        BY <1>3, <2>1
      <3>2. ~dropped' => ~dropped /\ hand[p].plan = {}
        BY <1>3
      <3> QED
        BY <1>1, <1>2, <1>5, <1>6, <2>1, <3>1, <3>2 DEF AbandonEffect
    <2>2. CASE ~again
      <3>1. waiting' = waiting
        BY <1>3, <2>2
      <3>2. ~dropped' => /\ ~dropped /\ hand[p].plan = {} /\ hand[p].lost
                         /\ hand[p].at \in Imports!RowSteps => Imports!StillDue(hand[p].row, p)
        BY <1>3, <2>2
      <3> QED
        BY <1>1, <1>2, <3>1, <3>2 DEF AbandonEffect
    <2> QED
      BY <2>1, <2>2
  <1> QED
    BY <1>2, <1>7, <1>8, <1>9 DEF ImportType

\* A job is handed out beside its execution.
LEMMA StallHands ==
  ASSUME ImportType, NEW w \in Hands, Imports!Stall(w)
  PROVE  /\ ImportType' /\ \A q \in Actors : q # w => hand'[q] = hand[q]
         /\ hand'[w] = [hand[w] EXCEPT !.lost = TRUE] /\ hand'[w].lost /\ ~hand[w].lost
         /\ hand[w] # Imports!Free /\ hand[w].job \in JobRecs /\ JobOk(hand[w].job)
         /\ hand'[w].at = hand[w].at /\ hand'[w].job = hand[w].job /\ hand'[w].todo = hand[w].todo
         /\ hand'[w].clean = hand[w].clean /\ hand'[w].plan = hand[w].plan
         /\ hand'[w].linked = hand[w].linked /\ hand'[w].row = hand[w].row
         /\ hand'[w].match = hand[w].match
         /\ waiting' = waiting \cup {hand[w].job} /\ twice' = twice \cup {hand[w].job.kind}
         /\ mishaps' = mishaps + 1
         /\ UNCHANGED <<target, policy, batch, entry, out, redis, dropped>>
  <1>0. /\ w \in Actors /\ w # Imports!Request /\ hand[w] \in HandRecs /\ HandOk(w, hand[w])
        /\ hand[w] # Imports!Free /\ ~hand[w].lost
    BY ImportBounds DEF ImportType, ImportHands, Imports!Stall
  <1> DEFINE j == hand[w].job
  <1>1. j \in JobRecs /\ JobOk(j) /\ j.kind \in {"parse", "chunk", "commit", "again"}
    BY <1>0, HandFields DEF HandOk, JobRecs, JobOk
  <1>2. /\ waiting' = waiting \cup {j} /\ twice' = twice \cup {j.kind} /\ mishaps' = mishaps + 1
        /\ UNCHANGED <<target, policy, batch, entry, out, redis, dropped>>
        /\ hand' = [hand EXCEPT ![w].lost = TRUE]
    BY DEF Imports!Stall, Imports!Mishap, Imports!file
  <1> DEFINE h == [hand[w] EXCEPT !.lost = TRUE]
  <1>3. h \in HandRecs
    BY <1>0 DEF HandRecs
  <1>4. /\ h.at = hand[w].at /\ h.job = j /\ h.todo = hand[w].todo /\ h.match = hand[w].match
        /\ h.clean = hand[w].clean /\ h.plan = hand[w].plan /\ h.linked = hand[w].linked
        /\ h.row = hand[w].row /\ h.lost = TRUE
    BY <1>0 DEF HandRecs
  <1>5. hand' = [hand EXCEPT ![w] = h]
    BY <1>2
  <1> HIDE DEF h
  <1>6. HandOk(w, h)
    BY <1>0, <1>1, <1>4, FreeIsOk DEF HandOk
  <1>7. ImportHands' /\ hand'[w] = h /\ \A q \in Actors : q # w => hand'[q] = hand[q]
    BY <1>0, <1>3, <1>5, <1>6, HandMoves DEF ImportType
  <1>8. ImportJobs'
    BY <1>1, <1>2, JobsMove DEF ImportType
  <1>9. ImportData'
    <2>1. mishaps' \in Nat
      BY <1>2 DEF ImportType, ImportData
    <2>2. twice' \subseteq {"parse", "chunk", "commit", "again"}
      BY <1>1, <1>2 DEF ImportType, ImportData
    <2> QED
      BY <1>2, <2>1, <2>2 DEF ImportType, ImportData
  <1> QED
    BY <1>0, <1>1, <1>2, <1>4, <1>7, <1>8, <1>9 DEF ImportType, h

\* Redis returns, or somebody stops a cadence.
ElsewhereEffect ==
    /\ UNCHANGED <<target, policy, batch, entry, waiting, hand, dropped, twice>>
    /\ redis => redis'
    /\ \A r \in Rows : /\ RowGrows(r) /\ out'[r].made = out[r].made /\ out'[r].noted = out[r].noted
                       /\ out'[r].task = out[r].task /\ out'[r].sched = out[r].sched
    /\ mishaps' = mishaps \/ mishaps' = mishaps + 1

\* Neither changes what an import holds.
LEMMA ElsewhereTypes ==
  ASSUME ImportType,
         Imports!RedisReturns \/ \E r \in Rows : Imports!StopCadence(r)
  PROVE  ImportType' /\ ElsewhereEffect
  <1>1. CASE Imports!RedisReturns
    <2>1. UNCHANGED <<target, policy, batch, entry, out, waiting, hand, dropped, twice, mishaps>> /\ redis'
      BY <1>1 DEF Imports!RedisReturns, Imports!file, Imports!past
    <2>2. redis' = TRUE
      BY <1>1 DEF Imports!RedisReturns
    <2>3. ImportType'
      BY <2>1, <2>2 DEF ImportType, ImportData, ImportJobs, ImportHands
    <2>4. \A r \in Rows : RowGrows(r)
      BY <2>1, SameGrows DEF ImportType, RowSame
    <2> QED
      BY <2>1, <2>3, <2>4 DEF ElsewhereEffect
  <1>2. ASSUME NEW r \in Rows, Imports!StopCadence(r) PROVE ImportType' /\ ElsewhereEffect
    <2>1. /\ UNCHANGED <<target, policy, batch, entry, redis, waiting, hand, dropped, twice>>
          /\ mishaps' = mishaps + 1 /\ out' = [out EXCEPT ![r].cadence = "stopped"]
      BY <1>2 DEF Imports!StopCadence, Imports!file, Imports!Mishap
    <2> DEFINE o == [out[r] EXCEPT !.cadence = "stopped"]
    <2>2. out[r] \in OutRecs /\ out \in [Rows -> OutRecs]
      BY DEF ImportType, ImportData
    <2>3. /\ o \in OutRecs /\ o.cadence = "stopped" /\ o.made = out[r].made /\ o.noted = out[r].noted
          /\ o.task = out[r].task /\ o.sched = out[r].sched
      BY <2>2 DEF OutRecs
    <2>4. out' = [out EXCEPT ![r] = o]
      BY <2>1
    <2> HIDE DEF o
    <2>5. out' \in [Rows -> OutRecs] /\ out'[r] = o /\ \A s \in Rows : s # r => out'[s] = out[s]
      BY <2>2, <2>3, <2>4
    <2>6. ImportType'
      BY <2>1, <2>5 DEF ImportType, ImportData, ImportJobs, ImportHands
    <2>7. RowGrows(r) /\ out[r].made \in Nat
      BY <2>1, <2>2, <2>3, <2>5 DEF RowGrows, OutRecs
    <2>8. \A s \in Rows : s # r => RowGrows(s)
      BY <2>1, <2>5, SameGrows DEF ImportType, RowSame
    <2> QED
      BY <2>1, <2>3, <2>5, <2>6, <2>7, <2>8 DEF ElsewhereEffect
  <1> QED
    BY <1>1, <1>2

\* What each step of a row has for the row.
RowProgress(p) ==
    LET r == hand[p].row IN
    \/ /\ hand'[p].at = "next" /\ entry'[r].is = "error" /\ out'[r] = out[r]
       /\ entry'[r].linked => entry[r].linked
    \/ /\ hand[p].at = "find" /\ RowSame(r)
       /\ \/ hand'[p].at = "mark" /\ out[r].made > 0
          \/ hand'[p].at = "create" /\ out[r].made = 0
    \/ /\ hand[p].at = "create" /\ hand'[p].at = "mark" /\ entry'[r] = entry[r]
       /\ out'[r].noted = out[r].noted
       /\ \/ /\ out'[r].made = out[r].made + 1
             /\ target # "lead" \/ entry[r].forced \/ out[r].made = 0
          \/ out'[r].made = out[r].made /\ out[r].made > 0
    \/ /\ hand[p].at = "mark" /\ out'[r] = out[r] /\ entry'[r].is = "imported"
       /\ entry'[r].forced = entry[r].forced
       /\ hand'[p].at = IF target = "lead" THEN "note" ELSE "noted"
    \/ /\ hand[p].at = "noted" /\ RowSame(r)
       /\ \/ hand'[p].at = "next" /\ out[r].noted > 0
          \/ hand'[p].at = "note" /\ out[r].noted = 0
    \/ /\ hand[p].at = "note" /\ entry'[r] = entry[r] /\ out'[r].made = out[r].made
       /\ out'[r].noted = IF target = "lead" THEN 1 ELSE out[r].noted + 1
       /\ hand'[p].at = IF target = "lead" THEN "enrol" ELSE "next"
    \/ /\ hand[p].at \in {"enrol", "task", "schedule"} /\ entry'[r] = entry[r]
       /\ out'[r].made = out[r].made /\ out'[r].noted = out[r].noted
       /\ \/ hand[p].at = "enrol" /\ hand'[p].at = "task" /\ out'[r].cadence # "none"
          \/ hand[p].at = "task" /\ hand'[p].at = "schedule" /\ out'[r].task
          \/ hand[p].at = "schedule" /\ hand'[p].at = "next" /\ out'[r].sched

\* Each step of a row goes on to the next, or gives the row up.
LEMMA RowProgresses ==
  ASSUME ImportType, NEW p \in Actors, RowMove(p)
  PROVE  RowProgress(p)
  <1> DEFINE r == hand[p].row
  <1>0. /\ r \in Rows /\ hand \in [Actors -> HandRecs] /\ hand[p] \in HandRecs
        /\ entry \in [Rows -> EntryRecs] /\ out \in [Rows -> OutRecs]
        /\ entry[r] \in EntryRecs /\ out[r] \in OutRecs /\ target \in {"lead", "pool"}
    BY RowMoves DEF RowEffect, ImportType, ImportHands, ImportData, Imports!Targets
  <1>1. ASSUME NEW x, hand' = [hand EXCEPT ![p].at = x] PROVE hand'[p].at = x
    BY <1>0, <1>1 DEF HandRecs
  <1>2. CASE Imports!FindItem(p)
    <2>1. /\ hand' = [hand EXCEPT ![p].at = IF out[r].made > 0 THEN "mark" ELSE "create"]
          /\ hand[p].at = "find" /\ RowSame(r)
      BY <1>2 DEF Imports!FindItem, Imports!GoTo, Imports!At, RowSame
    <2>2. hand'[p].at = IF out[r].made > 0 THEN "mark" ELSE "create"
      BY <1>1, <2>1
    <2>3. out[r].made \in Nat
      BY <1>0 DEF OutRecs
    <2> QED
      BY <2>1, <2>2, <2>3 DEF RowProgress
  <1>3. CASE Imports!Create(p)
    <2>1. /\ hand[p].at = "create" /\ hand'[p].at = "mark" /\ entry' = entry
      BY <1>1, <1>3 DEF Imports!Create, Imports!GoTo, Imports!At
    <2>2. CASE target = "lead" /\ ~entry[r].forced /\ out[r].made > 0
      BY <1>3, <2>1, <2>2 DEF Imports!Create, RowProgress
    <2>3. CASE ~(target = "lead" /\ ~entry[r].forced /\ out[r].made > 0)
      <3>1. out' = [out EXCEPT ![r].made = @ + 1]
        BY <1>3, <2>3 DEF Imports!Create
      <3>2. out'[r].made = out[r].made + 1 /\ out'[r].noted = out[r].noted /\ out[r].made \in Nat
        BY <1>0, <3>1 DEF OutRecs
      <3>3. target # "lead" \/ entry[r].forced \/ out[r].made = 0
        BY <2>3, <3>2
      <3> QED
        BY <2>1, <3>2, <3>3 DEF RowProgress
    <2> QED
      BY <2>2, <2>3
  <1>4. CASE Imports!MarkImported(p)
    <2>1. /\ hand[p].at = "mark" /\ out' = out
          /\ hand'[p].at = IF target = "lead" THEN "note" ELSE "noted"
          /\ entry' = [entry EXCEPT ![r].is = "imported", ![r].linked = TRUE]
      BY <1>1, <1>4 DEF Imports!MarkImported, Imports!GoTo, Imports!At
    <2>2. entry'[r].is = "imported" /\ entry'[r].forced = entry[r].forced
      BY <1>0, <2>1 DEF EntryRecs
    <2> QED
      BY <2>1, <2>2 DEF RowProgress
  <1>5. CASE Imports!LookForNote(p)
    <2>1. /\ hand[p].at = "noted" /\ RowSame(r)
          /\ hand'[p].at = IF out[r].noted > 0 THEN "next" ELSE "note"
      BY <1>1, <1>5 DEF Imports!LookForNote, Imports!GoTo, Imports!At, RowSame
    <2>2. out[r].noted \in Nat
      BY <1>0 DEF OutRecs
    <2> QED
      BY <2>1, <2>2 DEF RowProgress
  <1>6. CASE Imports!Note(p)
    <2> DEFINE n == IF target = "lead" THEN 1 ELSE out[r].noted + 1
    <2>1. /\ hand[p].at = "note" /\ entry' = entry
          /\ hand'[p].at = IF target = "lead" THEN "enrol" ELSE "next"
          /\ out' = [out EXCEPT ![r].noted = n]
      BY <1>1, <1>6 DEF Imports!Note, Imports!GoTo, Imports!At
    <2> HIDE DEF n
    <2>2. out'[r].noted = n /\ out'[r].made = out[r].made
      BY <1>0, <2>1 DEF OutRecs
    <2> QED
      BY <2>1, <2>2 DEF RowProgress, n
  <1>7. CASE Imports!Enrol(p)
    <2> DEFINE c == IF out[r].cadence = "none" THEN "active" ELSE out[r].cadence
    <2>1. /\ hand[p].at = "enrol" /\ hand'[p].at = "task" /\ entry' = entry
          /\ out' = [out EXCEPT ![r].cadence = c]
      BY <1>1, <1>7 DEF Imports!Enrol, Imports!GoTo, Imports!At
    <2>2. c # "none"
      OBVIOUS
    <2> HIDE DEF c
    <2>3. out'[r].cadence = c /\ out'[r].made = out[r].made /\ out'[r].noted = out[r].noted
      BY <1>0, <2>1 DEF OutRecs
    <2> QED
      BY <2>1, <2>2, <2>3 DEF RowProgress
  <1>8. CASE Imports!CreateTask(p)
    <2>1. /\ hand[p].at = "task" /\ hand'[p].at = "schedule" /\ entry' = entry
          /\ out' = [out EXCEPT ![r].task = TRUE]
      BY <1>1, <1>8 DEF Imports!CreateTask, Imports!GoTo, Imports!At
    <2>2. out'[r].task = TRUE /\ out'[r].made = out[r].made /\ out'[r].noted = out[r].noted
      BY <1>0, <2>1 DEF OutRecs
    <2> QED
      BY <2>1, <2>2 DEF RowProgress
  <1>9. CASE Imports!Schedule(p)
    <2>1. hand[p].at = "schedule" /\ hand'[p].at = "next"
      BY <1>1, <1>9 DEF Imports!Schedule, Imports!GoTo, Imports!At
    <2>2. CASE out[r].cadence = "active"
      <3>1. entry' = entry /\ out' = [out EXCEPT ![r].sched = TRUE]
        BY <1>9, <2>2 DEF Imports!Schedule
      <3>2. out'[r].sched = TRUE /\ out'[r].made = out[r].made /\ out'[r].noted = out[r].noted
        BY <1>0, <3>1 DEF OutRecs
      <3> QED
        BY <2>1, <3>1, <3>2 DEF RowProgress
    <2>3. CASE out[r].cadence # "active"
      <3>1. entry' = [entry EXCEPT ![r].is = "error"] /\ out' = out
        BY <1>9, <2>3 DEF Imports!Schedule, Imports!Set
      <3>2. entry'[r].is = "error" /\ (entry'[r].linked => entry[r].linked)
        BY <1>0, <3>1 DEF EntryRecs
      <3> QED
        BY <2>1, <3>1, <3>2 DEF RowProgress
    <2> QED
      BY <2>2, <2>3
  <1>10. CASE Imports!RowFails(p)
    <2>1. hand'[p].at = "next" /\ out' = out /\ entry' = [entry EXCEPT ![r].is = "error"]
      BY <1>1, <1>10 DEF Imports!RowFails, Imports!GoTo, Imports!Set
    <2>2. entry'[r].is = "error" /\ (entry'[r].linked => entry[r].linked)
      BY <1>0, <2>1 DEF EntryRecs
    <2> QED
      BY <2>1, <2>2 DEF RowProgress
  <1> QED
    BY <1>2, <1>3, <1>4, <1>5, <1>6, <1>7, <1>8, <1>9, <1>10 DEF RowMove

\* What one execution does, by its effect.
StepOf(p) ==
    \/ RowEffect(p) /\ RowProgress(p)
    \/ CommitEffect(p) \/ AbandonEffect(p)
    \/ Imports!Parse(p) \/ Imports!ReadLeads(p) \/ Imports!MarkValid(p)
    \/ \E r \in Rows : JudgeEffect(p, r)
    \/ \E c \in SUBSET Rows : DispatchEffect(p, c)
    \/ \E mine \in SUBSET Rows : ReadEffect(p, mine)
    \/ \E r \in Rows : NextEffect(p, r)
    \/ p \in Hands /\ Imports!Stall(p)
OthersSame(p) == \A q \in Actors : q # p => hand'[q] = hand[q]

\* Every action of one execution has its effect.
LEMMA ImportStepsOf ==
  ASSUME ImportType, NEW p \in Actors,
         \/ Imports!Parse(p) \/ Imports!ReadLeads(p) \/ Imports!Judge(p) \/ Imports!MarkValid(p)
         \/ Imports!DispatchChunk(p) \/ Imports!DispatchCommit(p) \/ Imports!Parsed(p)
         \/ Imports!ReadChunk(p) \/ Imports!NextRow(p) \/ Imports!FindItem(p) \/ Imports!Create(p)
         \/ Imports!MarkImported(p) \/ Imports!LookForNote(p) \/ Imports!Note(p) \/ Imports!Enrol(p)
         \/ Imports!CreateTask(p) \/ Imports!Schedule(p) \/ Imports!RowFails(p)
         \/ Imports!EndChunk(p) \/ Imports!Commit(p) \/ Imports!Barrier(p) \/ Imports!Close(p)
         \/ Imports!Fail(p) \/ Imports!QueueRefuses(p)
  PROVE  ImportType' /\ StepOf(p) /\ OthersSame(p)
  <1>1. CASE RowMove(p)
    <2>1. RowEffect(p) /\ RowProgress(p)
      BY <1>1, RowMoves, RowProgresses
    <2>2. ImportHands' /\ \A q \in Actors : q # p => hand'[q] = hand[q]
      BY <2>1, RowHands
    <2>3. ImportData' /\ ImportJobs'
      BY <2>1 DEF RowEffect, ImportType, ImportJobs
    <2> QED
      BY <2>1, <2>2, <2>3 DEF ImportType, StepOf, OthersSame
  <1>2. CASE CommitMove(p)
    BY <1>2, CommitMoves, CommitTypes DEF StepOf, OthersSame
  <1>3. CASE Imports!Parse(p)
    BY <1>3, ParseHands DEF StepOf, OthersSame
  <1>4. CASE Imports!ReadLeads(p)
    BY <1>4, LeadHands DEF StepOf, OthersSame
  <1>5. CASE Imports!Judge(p)
    BY <1>5, JudgeHands DEF StepOf, OthersSame
  <1>6. CASE Imports!MarkValid(p)
    BY <1>6, MarkHands DEF StepOf, OthersSame
  <1>7. CASE Imports!DispatchChunk(p)
    BY <1>7, DispatchHands DEF StepOf, OthersSame
  <1>8. CASE Imports!ReadChunk(p)
    BY <1>8, ReadHands DEF StepOf, OthersSame
  <1>9. CASE Imports!NextRow(p)
    BY <1>9, NextHands DEF StepOf, OthersSame
  <1>10. CASE Imports!Fail(p) \/ Imports!QueueRefuses(p)
    BY <1>10, AbandonHands DEF StepOf, OthersSame
  <1> QED
    BY <1>1, <1>2, <1>3, <1>4, <1>5, <1>6, <1>7, <1>8, <1>9, <1>10 DEF RowMove, CommitMove

\* The steps of an import: the request's first, those of one execution, and those elsewhere.
LEMMA ImportSteps ==
  ASSUME ImportType, Imports!Next
  PROVE  /\ ImportType'
         /\ \/ Imports!Post \/ ElsewhereEffect
            \/ \E w \in Hands : \E j \in waiting : Imports!Take(w, j)
            \/ \E p \in Actors : StepOf(p) /\ OthersSame(p)
  <1>1. CASE Imports!Post
    BY <1>1, PostHands
  <1>2. CASE Imports!RedisReturns \/ \E r \in Rows : Imports!StopCadence(r)
    BY <1>2, ElsewhereTypes
  <1>3. ASSUME NEW w \in Hands, NEW j \in waiting, Imports!Take(w, j) PROVE ImportType'
    BY <1>3, TakeHands
  <1>4. ASSUME NEW w \in Hands, Imports!Stall(w)
        PROVE  ImportType' /\ w \in Actors /\ StepOf(w) /\ OthersSame(w)
    BY <1>4, StallHands, ImportBounds DEF StepOf, OthersSame
  <1> QED
    BY <1>1, <1>2, <1>3, <1>4, ImportStepsOf DEF Imports!Next, Actors, Rows

\* No step takes back what a row was given.
LEMMA RowsGrow ==
  ASSUME ImportType, Imports!Next
  PROVE  /\ \A r \in Rows : RowGrows(r)
         /\ target' = target /\ policy' = policy /\ ImportType'
         /\ mishaps' \in Nat /\ mishaps <= mishaps' /\ (redis => redis')
  <1>0. ImportData /\ mishaps \in Nat
    BY DEF ImportType, ImportData
  <1>1. CASE Imports!Post
    <2>1. UNCHANGED <<target, policy, entry, out, redis>> /\ mishaps' \in {mishaps, mishaps + 1}
      BY <1>1, PostHands
    <2> QED
      BY <1>0, <2>1, ImportSteps, SameGrows DEF RowSame
  <1>2. CASE ElsewhereEffect
    BY <1>0, <1>2, ImportSteps DEF ElsewhereEffect
  <1>3. ASSUME NEW w \in Hands, NEW j \in waiting, Imports!Take(w, j)
        PROVE  /\ \A r \in Rows : RowGrows(r)
               /\ UNCHANGED <<target, policy, redis, mishaps>>
    BY <1>0, <1>3, TakeHands, SameGrows DEF RowSame
  <1>4. ASSUME NEW p \in Actors, StepOf(p)
        PROVE  /\ \A r \in Rows : RowGrows(r)
               /\ UNCHANGED <<target, policy, redis>> /\ mishaps' \in {mishaps, mishaps + 1}
    <2>1. CASE UNCHANGED <<target, policy, entry, out, redis>> /\ mishaps' \in {mishaps, mishaps + 1}
      BY <1>0, <2>1, SameGrows DEF RowSame
    <2>2. CASE RowEffect(p)
      BY <2>2 DEF RowEffect
    <2>3. CASE CommitEffect(p)
      BY <2>1, <2>3 DEF CommitEffect
    <2>4. CASE AbandonEffect(p)
      BY <2>1, <2>4 DEF AbandonEffect
    <2>5. CASE Imports!Parse(p)
      BY <2>1, <2>5, ParseHands
    <2>6. CASE Imports!ReadLeads(p)
      BY <2>1, <2>6, LeadHands
    <2>7. CASE Imports!MarkValid(p)
      BY <2>7, MarkHands
    <2>8. ASSUME NEW r \in Rows, JudgeEffect(p, r)
          PROVE  \A s \in Rows : RowGrows(s) /\ UNCHANGED <<target, policy, redis, mishaps>>
      BY <2>8 DEF JudgeEffect
    <2>9. CASE \E c \in SUBSET Rows : DispatchEffect(p, c)
      BY <2>1, <2>9 DEF DispatchEffect
    <2>10. CASE \E mine \in SUBSET Rows : ReadEffect(p, mine)
      BY <2>1, <2>10 DEF ReadEffect
    <2>11. CASE \E r \in Rows : NextEffect(p, r)
      BY <2>1, <2>11 DEF NextEffect
    <2>12. CASE p \in Hands /\ Imports!Stall(p)
      BY <2>1, <2>12, StallHands
    <2> QED
      BY <1>4, <2>2, <2>3, <2>4, <2>5, <2>6, <2>7, <2>8, <2>9, <2>10, <2>11, <2>12 DEF StepOf
  <1> QED
    BY <1>0, <1>1, <1>2, <1>3, <1>4, ImportSteps

\* An execution that does something is under way, and never begins again.
LEMMA StepPlaces ==
  ASSUME ImportType, NEW p \in Actors, StepOf(p)
  PROVE  hand[p].at \notin {"idle", "post"} /\ hand'[p].at # "post"
  <1> USE DEF Imports!RowSteps, CommitPlaces
  <1>1. CASE RowEffect(p)
    BY <1>1, RowHands DEF RowEffect
  <1>2. CASE CommitEffect(p)
    <2>1. PICK h \in HandRecs : /\ HandOk(p, h) /\ hand' = [hand EXCEPT ![p] = h]
                                /\ h.at \in {"idle", "parsed", "dispatch"} \cup CommitPlaces
      BY <1>2 DEF CommitEffect
    <2>2. hand'[p] = h
      BY <2>1, HandMoves DEF ImportType
    <2> QED
      BY <1>2, <2>1, <2>2 DEF CommitEffect
  <1>3. CASE AbandonEffect(p)
    BY <1>3, FreeIsOk DEF AbandonEffect
  <1>4. CASE Imports!Parse(p) \/ Imports!ReadLeads(p) \/ Imports!MarkValid(p)
    BY <1>4, ParseHands, LeadHands, MarkHands
  <1>5. CASE \E r \in Rows : JudgeEffect(p, r)
    BY <1>5 DEF JudgeEffect
  <1>6. CASE \E c \in SUBSET Rows : DispatchEffect(p, c)
    BY <1>6 DEF DispatchEffect
  <1>7. CASE \E mine \in SUBSET Rows : ReadEffect(p, mine)
    BY <1>7, FreeIsOk DEF ReadEffect
  <1>8. CASE \E r \in Rows : NextEffect(p, r)
    BY <1>8 DEF NextEffect
  <1>9. CASE p \in Hands /\ Imports!Stall(p)
    <2>1. hand[p] # Imports!Free /\ hand'[p].at = hand[p].at /\ p # Imports!Request
      BY <1>9, StallHands, ImportBounds
    <2>2. HandOk(p, hand[p]) /\ HandOk(p, hand'[p])
      BY <1>9, StallHands DEF ImportType, ImportHands
    <2>3. JobOk(hand[p].job) /\ hand[p].job \in JobRecs
      BY <1>9, StallHands
    <2>4. hand[p].at \in ParsePlaces \cup ChunkPlaces \cup CommitPlaces
      BY <2>1, <2>2, <2>3 DEF HandOk, JobOk, JobRecs
    <2> QED
      BY <2>1, <2>4 DEF ParsePlaces, ChunkPlaces
  <1> QED
    BY <1>1, <1>2, <1>3, <1>4, <1>5, <1>6, <1>7, <1>8, <1>9 DEF StepOf

\* Until the request has stored the file nothing runs, and without a queue no worker does.
LEMMA QuietStays ==
  ASSUME ImportType, Quiet, Imports!Next
  PROVE  Quiet'
  <1> DEFINE R == Imports!Request
  <1>0. R \in Actors /\ R \notin Hands /\ Hands \subseteq Actors /\ (redis => redis')
    BY ImportBounds, RowsGrow
  <1>1. CASE Imports!Post
    <2>1. hand'[R].at # "post" /\ hand[R].at = "post"
      BY <1>1, PostHands, FreeIsOk
    <2>2. \A w \in Hands : hand'[w] = Imports!Free
      BY <1>0, <1>1, <2>1, PostHands DEF Quiet
    <2> QED
      BY <2>1, <2>2 DEF Quiet
  <1>2. CASE ElsewhereEffect
    BY <1>0, <1>2 DEF ElsewhereEffect, Quiet
  <1>3. ASSUME NEW w \in Hands, NEW j \in waiting, Imports!Take(w, j) PROVE Quiet'
    <2>1. hand'[R] = hand[R] /\ hand[R].at # "post"
      BY <1>0, <1>3, TakeHands DEF Quiet
    <2>2. redis
      BY <1>3 DEF Imports!Take
    <2> QED
      BY <1>0, <2>1, <2>2 DEF Quiet
  <1>4. ASSUME NEW p \in Actors, StepOf(p), OthersSame(p) PROVE Quiet'
    <2>1. hand[p].at \notin {"idle", "post"} /\ hand'[p].at # "post" /\ hand[p] # Imports!Free
      BY <1>4, StepPlaces, FreeIsOk
    <2>2. CASE p = R
      <3>1. \A w \in Hands : hand'[w] = hand[w]
        BY <1>0, <1>4, <2>2 DEF OthersSame
      <3> QED
        BY <1>0, <2>1, <2>2, <3>1 DEF Quiet
    <2>3. CASE p # R
      <3>1. p \in Hands /\ hand'[R] = hand[R]
        BY <1>0, <1>4, <2>3, ImportBounds DEF OthersSame
      <3>2. redis /\ hand[R].at # "post"
        BY <2>1, <3>1 DEF Quiet
      <3> QED
        BY <1>0, <3>1, <3>2 DEF Quiet
    <2> QED
      BY <2>2, <2>3
  <1> QED
    BY <1>1, <1>2, <1>3, <1>4, ImportSteps

\* Rows are judged, and none comes back.
LEMMA ParseKeepsSeeing ==
  ASSUME ImportType, ParseSees, Imports!Next
  PROVE  ParseSees'
  <1>0. Unjudged' \subseteq Unjudged
    BY RowsGrow DEF RowGrows, Unjudged
  <1>1. ASSUME NEW q \in Actors, hand'[q] = hand[q] PROVE Seen(q)'
    <2>1. Seen(q)
      BY DEF ParseSees, Seen
    <2> QED
      BY <1>0, <1>1, <2>1 DEF Seen
  <1>2. CASE Imports!Post
    <2>1. \/ hand'[Imports!Request] = Imports!Free
          \/ hand'[Imports!Request].at = "parse"
      BY <1>2, PostHands
    <2>2. Seen(Imports!Request)'
      BY <2>1, FreeIsOk DEF Seen, ChunkPlaces, CommitPlaces, Imports!RowSteps
    <2> QED
      BY <1>1, <1>2, <2>2, PostHands DEF ParseSees, Seen
  <1>3. CASE ElsewhereEffect
    BY <1>1, <1>3 DEF ElsewhereEffect, ParseSees, Seen
  <1>4. ASSUME NEW w \in Hands, NEW j \in waiting, Imports!Take(w, j) PROVE ParseSees'
    <2>1. hand'[w].at \in {"parse", "chunk", "commit"} /\ w # Imports!Request
      BY <1>4, TakeHands, ImportBounds
    <2>2. Seen(w)'
      BY <2>1 DEF Seen
    <2> QED
      BY <1>1, <1>4, <2>2, TakeHands DEF ParseSees, Seen
  <1>5. ASSUME NEW p \in Actors, StepOf(p), OthersSame(p) PROVE ParseSees'
    <2> SUFFICES Seen(p)'
      BY <1>1, <1>5 DEF OthersSame, ParseSees, Seen
    <2>0. Seen(p) /\ ImportHands'
      BY RowsGrow DEF ParseSees, Seen, ImportType
    <2>1. CASE RowEffect(p)
      <3>1. /\ hand'[p].at \in Imports!RowSteps \cup {"next"} /\ hand[p].at \in ChunkPlaces
            /\ hand'[p].at \in ChunkPlaces
        BY <2>1, RowHands DEF RowEffect, ChunkPlaces
      <3>2. hand'[p].at \notin {"leads", "judge", "dispatch", "parsed"}
        BY <3>1 DEF ChunkPlaces, Imports!RowSteps
      <3> QED
        BY <1>0, <2>0, <3>1, <3>2 DEF Seen
    <2>2. CASE CommitEffect(p)
      <3>1. PICK h \in HandRecs : /\ HandOk(p, h) /\ hand' = [hand EXCEPT ![p] = h]
                                  /\ h.at \in {"idle", "parsed", "dispatch"} \cup CommitPlaces
                                  /\ h.at = "dispatch" => p = Imports!Request /\ hand[p].at = "next"
                                  /\ h.at = "parsed" => hand[p].at \in {"dispatch"} \cup CommitPlaces
                                  /\ h.at \in CommitPlaces => hand[p].at \in {"dispatch"} \cup CommitPlaces
        BY <2>2 DEF CommitEffect
      <3>2. hand'[p] = h /\ HandOk(p, hand[p]) /\ hand[p] \in HandRecs
        BY <3>1, HandMoves DEF ImportType, ImportHands
      <3>3. h.at \notin {"leads", "judge"}
        BY <3>1 DEF CommitPlaces
      <3>4. h.at \notin ChunkPlaces
        BY <3>1 DEF CommitPlaces, ChunkPlaces, Imports!RowSteps
      <3>5. p # Imports!Request /\ hand[p].at \in CommitPlaces => h.at # "parsed"
        <4>1. ASSUME p # Imports!Request, hand[p].at \in CommitPlaces, h.at = "parsed" PROVE FALSE
          <5>1. h # Imports!Free /\ hand[p] # Imports!Free
            BY <4>1, FreeIsOk DEF CommitPlaces
          <5>2. h.job = hand[p].job
            BY <2>2, <3>2, <5>1 DEF CommitEffect, ImportType, ImportHands
          <5> QED
            BY <3>1, <3>2, <4>1, <5>1, <5>2, HandFields
               DEF HandOk, CommitPlaces, ParsePlaces, ChunkPlaces, Imports!RowSteps, JobOk, JobRecs
        <4> QED
          BY <4>1
      <3>6. "next" \in ChunkPlaces
        BY DEF ChunkPlaces
      <3>7. Seen(p)'
        BY <1>0, <2>0, <3>1, <3>2, <3>3, <3>4, <3>5, <3>6 DEF Seen
      <3> QED
        BY <3>7
    <2>3. CASE AbandonEffect(p)
      BY <2>3, FreeIsOk DEF AbandonEffect, Seen, ChunkPlaces, CommitPlaces, Imports!RowSteps
    <2>4. CASE Imports!Parse(p)
      BY <1>0, <2>4, ParseHands DEF Seen, ChunkPlaces, CommitPlaces, Imports!RowSteps
    <2>5. CASE Imports!ReadLeads(p)
      BY <1>0, <2>0, <2>5, LeadHands DEF Seen, ChunkPlaces, CommitPlaces, Imports!RowSteps
    <2>6. CASE Imports!MarkValid(p)
      <3>1. ASSUME NEW r \in Unjudged' PROVE FALSE
        <4>1. r \in Unjudged /\ r \in Rows /\ entry'[r].is = "pending"
          BY <1>0, <3>1 DEF Unjudged
        <4>2. r \in hand[p].clean
          BY <2>0, <2>6, <4>1, MarkHands DEF Seen
        <4> QED
          BY <2>6, <4>1, <4>2, MarkHands
      <3> QED
        BY <2>6, <3>1, MarkHands DEF Seen
    <2>7. ASSUME NEW r \in Rows, JudgeEffect(p, r) PROVE Seen(p)'
      <3>1. r \in hand'[p].clean \/ r \notin Unjudged'
        BY <2>7 DEF JudgeEffect, Unjudged
      <3>2. hand[p].clean \subseteq hand'[p].clean
        BY <2>7 DEF JudgeEffect
      <3> QED
        BY <1>0, <2>0, <2>7, <3>1, <3>2 DEF Seen, JudgeEffect, ChunkPlaces, CommitPlaces,
           Imports!RowSteps
    <2>8. CASE \E c \in SUBSET Rows : DispatchEffect(p, c)
      BY <1>0, <2>0, <2>8 DEF DispatchEffect, Seen
    <2>9. CASE \E mine \in SUBSET Rows : ReadEffect(p, mine)
      BY <1>0, <2>0, <2>9, FreeIsOk DEF ReadEffect, Seen, ChunkPlaces, CommitPlaces, Imports!RowSteps
    <2>10. CASE \E r \in Rows : NextEffect(p, r)
      BY <1>0, <2>0, <2>10 DEF NextEffect, Seen, ChunkPlaces, CommitPlaces, Imports!RowSteps
    <2>11. CASE p \in Hands /\ Imports!Stall(p)
      BY <1>0, <2>0, <2>11, StallHands DEF Seen
    <2> QED
      BY <1>5, <2>1, <2>2, <2>3, <2>4, <2>5, <2>6, <2>7, <2>8, <2>9, <2>10, <2>11 DEF StepOf
  <1> QED
    BY <1>2, <1>3, <1>4, <1>5, ImportSteps

\* Who makes what of a row: the execution that creates it, and the one that notes it.
OutBy(p, r) ==
    /\ \/ out'[r].made = out[r].made
       \/ /\ hand[p].at = "create" /\ hand'[p].at = "mark" /\ hand[p].row = r
          /\ out'[r].made = out[r].made + 1
          /\ target # "lead" \/ entry[r].forced \/ out[r].made = 0
    /\ \/ out'[r].noted = out[r].noted
       \/ /\ hand[p].at = "note" /\ hand[p].row = r
          /\ hand'[p].at = IF target = "lead" THEN "enrol" ELSE "next"
          /\ out'[r].noted = IF target = "lead" THEN 1 ELSE out[r].noted + 1

\* What one execution writes for a row is one of these.
LEMMA RowsAreMade ==
  ASSUME ImportType, NEW p \in Actors, StepOf(p), NEW r \in Rows
  PROVE  OutBy(p, r)
  <1>0. CASE out' = out
    BY <1>0 DEF OutBy
  <1>1. CASE RowEffect(p) /\ RowProgress(p)
    <2>1. CASE r # hand[p].row
      BY <1>1, <2>1 DEF RowEffect, RowSame, OutBy
    <2>2. CASE r = hand[p].row
      BY <1>1, <2>2 DEF RowProgress, RowSame, OutBy
    <2> QED
      BY <2>1, <2>2
  <1>2. CASE CommitEffect(p)
    BY <1>0, <1>2 DEF CommitEffect
  <1>3. CASE AbandonEffect(p)
    BY <1>0, <1>3 DEF AbandonEffect
  <1>4. CASE Imports!Parse(p) \/ Imports!ReadLeads(p) \/ Imports!MarkValid(p)
    BY <1>0, <1>4, ParseHands, LeadHands, MarkHands
  <1>5. CASE \E s \in Rows : JudgeEffect(p, s)
    BY <1>0, <1>5 DEF JudgeEffect
  <1>6. CASE \E c \in SUBSET Rows : DispatchEffect(p, c)
    BY <1>0, <1>6 DEF DispatchEffect
  <1>7. CASE \E mine \in SUBSET Rows : ReadEffect(p, mine)
    BY <1>0, <1>7 DEF ReadEffect
  <1>8. CASE \E s \in Rows : NextEffect(p, s)
    BY <1>0, <1>8 DEF NextEffect
  <1>9. CASE p \in Hands /\ Imports!Stall(p)
    BY <1>0, <1>9, StallHands
  <1> QED
    BY <1>1, <1>2, <1>3, <1>4, <1>5, <1>6, <1>7, <1>8, <1>9 DEF StepOf

\* A lead that is not forced is made once.
LEMMA LeadStaysOne ==
  ASSUME ImportType, LeadOnce, Imports!Next
  PROVE  LeadOnce'
  <1> SUFFICES ASSUME target' = "lead", NEW r \in Rows, ~entry'[r].forced PROVE out'[r].made <= 1
    BY DEF LeadOnce
  <1>0. target = "lead" /\ ~entry[r].forced /\ out[r].made \in Nat /\ out[r].made <= 1
    BY RowsGrow DEF RowGrows, LeadOnce, ImportType, ImportData, OutRecs
  <1>1. CASE Imports!Post
    BY <1>0, <1>1, PostHands
  <1>2. CASE ElsewhereEffect
    BY <1>0, <1>2 DEF ElsewhereEffect
  <1>3. ASSUME NEW w \in Hands, NEW j \in waiting, Imports!Take(w, j) PROVE out'[r].made <= 1
    BY <1>0, <1>3, TakeHands
  <1>4. ASSUME NEW p \in Actors, StepOf(p) PROVE out'[r].made <= 1
    BY <1>0, <1>4, RowsAreMade DEF OutBy
  <1> QED
    BY <1>1, <1>2, <1>3, <1>4, ImportSteps

\* Sets with a member more, or fewer.
LEMMA Sizes ==
  ASSUME NEW S, IsFiniteSet(S), NEW T, NEW x
  PROVE  /\ Cardinality(S) \in Nat
         /\ T \subseteq S => IsFiniteSet(T) /\ Cardinality(T) \in Nat /\ Cardinality(T) <= Cardinality(S)
         /\ T \subseteq S \cup {x} =>
              IsFiniteSet(T) /\ Cardinality(T) \in Nat /\ Cardinality(T) <= Cardinality(S) + 1
         /\ T \subseteq S \ {x} /\ x \in S => Cardinality(T) <= Cardinality(S) - 1
  <1>1. Cardinality(S) \in Nat
    BY FS_CardinalityType
  <1>2. ASSUME T \subseteq S
        PROVE  IsFiniteSet(T) /\ Cardinality(T) \in Nat /\ Cardinality(T) <= Cardinality(S)
    BY <1>2, FS_Subset, FS_CardinalityType
  <1>3. ASSUME T \subseteq S \cup {x}
        PROVE  IsFiniteSet(T) /\ Cardinality(T) \in Nat /\ Cardinality(T) <= Cardinality(S) + 1
    <2>1. IsFiniteSet(S \cup {x}) /\ Cardinality(S \cup {x}) <= Cardinality(S) + 1
      BY <1>1, FS_AddElement
    <2>2. IsFiniteSet(T) /\ Cardinality(T) <= Cardinality(S \cup {x})
      BY <1>3, <2>1, FS_Subset
    <2>3. Cardinality(T) \in Nat /\ Cardinality(S \cup {x}) \in Nat
      BY <2>1, <2>2, FS_CardinalityType
    <2> QED
      BY <1>1, <2>1, <2>2, <2>3
  <1>4. ASSUME T \subseteq S \ {x}, x \in S PROVE Cardinality(T) <= Cardinality(S) - 1
    <2>1. IsFiniteSet(S \ {x}) /\ Cardinality(S \ {x}) = Cardinality(S) - 1
      BY <1>4, FS_RemoveElement
    <2> QED
      BY <1>4, <2>1, FS_Subset
  <1> QED
    BY <1>1, <1>2, <1>3, <1>4

\* The jobs and executions that may still write a row are finitely many.
LEMMA WritersFinite ==
  ASSUME ImportType, NEW r
  PROVE  /\ IsFiniteSet(JobsFor(r)) /\ IsFiniteSet(HandsFor(r))
         /\ Cardinality(JobsFor(r)) \in Nat /\ Cardinality(HandsFor(r)) \in Nat
  <1>1. JobsFor(r) \subseteq waiting /\ HandsFor(r) \subseteq Actors
    BY DEF JobsFor, HandsFor
  <1>2. IsFiniteSet(waiting) /\ IsFiniteSet(Actors)
    BY ImportBounds DEF ImportType, ImportJobs
  <1> QED
    BY <1>1, <1>2, FS_Subset, FS_CardinalityType

\* Who may still write a row: the same or fewer; an execution's share goes to a job, a job's
\* to an execution, and the creator's to the row; and a fault may add a job.
Passes(r) ==
    \/ /\ JobsFor(r)' \subseteq JobsFor(r) /\ HandsFor(r)' \subseteq HandsFor(r)
       /\ out'[r].made = out[r].made /\ mishaps <= mishaps'
    \/ /\ out'[r].made = out[r].made /\ mishaps <= mishaps'
       /\ \E j : \E p \in HandsFor(r) : /\ JobsFor(r)' \subseteq JobsFor(r) \cup {j}
                                        /\ HandsFor(r)' \subseteq HandsFor(r) \ {p}
    \/ /\ out'[r].made = out[r].made /\ mishaps <= mishaps'
       /\ \E j \in JobsFor(r) : \E p : /\ JobsFor(r)' \subseteq JobsFor(r) \ {j}
                                       /\ HandsFor(r)' \subseteq HandsFor(r) \cup {p}
    \/ /\ out'[r].made = out[r].made + 1 /\ mishaps <= mishaps'
       /\ JobsFor(r)' \subseteq JobsFor(r)
       /\ \E p \in HandsFor(r) : HandsFor(r)' \subseteq HandsFor(r) \ {p}
    \/ /\ out'[r].made = out[r].made /\ mishaps' = mishaps + 1
       /\ HandsFor(r)' \subseteq HandsFor(r)
       /\ \E j : JobsFor(r)' \subseteq JobsFor(r) \cup {j}

\* None of this makes the count of a row exceed its faults.
LEMMA PassesCount ==
  ASSUME ImportType, ImportType', NEW r \in Rows, Counted(r), Passes(r)
  PROVE  Counted(r)'
  <1> DEFINE J == JobsFor(r)
             H == HandsFor(r)
             K == JobsFor(r)'
             I == HandsFor(r)'
             m == out[r].made
             n == out'[r].made
  <1>1. IsFiniteSet(J) /\ IsFiniteSet(H) /\ Cardinality(J) \in Nat /\ Cardinality(H) \in Nat
    BY WritersFinite
  <1>2. m \in Nat /\ n \in Nat /\ mishaps \in Nat /\ mishaps' \in Nat
    BY DEF ImportType, ImportData, OutRecs
  <1>3. m + Cardinality(J) + Cardinality(H) <= 1 + mishaps
    BY DEF Counted
  <1>4. /\ K \subseteq J => Cardinality(K) \in Nat /\ Cardinality(K) <= Cardinality(J)
        /\ I \subseteq H => Cardinality(I) \in Nat /\ Cardinality(I) <= Cardinality(H)
        /\ \A x : /\ K \subseteq J \cup {x} => Cardinality(K) \in Nat /\ Cardinality(K) <= Cardinality(J) + 1
                  /\ K \subseteq J \ {x} /\ x \in J => Cardinality(K) \in Nat /\ Cardinality(K) <= Cardinality(J) - 1
                  /\ I \subseteq H \cup {x} => Cardinality(I) \in Nat /\ Cardinality(I) <= Cardinality(H) + 1
                  /\ I \subseteq H \ {x} /\ x \in H => Cardinality(I) \in Nat /\ Cardinality(I) <= Cardinality(H) - 1
    <2> HIDE DEF J, H, K, I
    <2>1. ASSUME NEW S \in {J, H}, NEW T, NEW x
          PROVE  /\ T \subseteq S => Cardinality(T) \in Nat /\ Cardinality(T) <= Cardinality(S)
                 /\ T \subseteq S \cup {x} => Cardinality(T) \in Nat /\ Cardinality(T) <= Cardinality(S) + 1
                 /\ T \subseteq S \ {x} /\ x \in S => Cardinality(T) \in Nat /\ Cardinality(T) <= Cardinality(S) - 1
      <3>1. IsFiniteSet(S)
        BY <1>1, <2>1
      <3>2. T \subseteq S \ {x} => T \subseteq S
        OBVIOUS
      <3> QED
        BY <3>1, <3>2, Sizes
    <2> QED
      BY <2>1
  <1>5. (J = JobsFor(r) /\ H = HandsFor(r) /\ K = JobsFor(r)' /\ I = HandsFor(r)'
         /\ m = out[r].made /\ n = out'[r].made)
    OBVIOUS
  <1> HIDE DEF J, H, K, I, m, n
  <1>6. n + Cardinality(K) + Cardinality(I) <= 1 + mishaps'
    <2>1. CASE K \subseteq J /\ I \subseteq H /\ n = m /\ mishaps <= mishaps'
      BY <1>1, <1>2, <1>3, <1>4, <2>1
    <2>2. ASSUME n = m, mishaps <= mishaps', NEW j, NEW p \in H, K \subseteq J \cup {j}, I \subseteq H \ {p}
          PROVE  n + Cardinality(K) + Cardinality(I) <= 1 + mishaps'
      <3>1. /\ Cardinality(K) \in Nat /\ Cardinality(K) <= Cardinality(J) + 1
            /\ Cardinality(I) \in Nat /\ Cardinality(I) <= Cardinality(H) - 1
        BY <1>4, <2>2
      <3> QED
        BY <1>1, <1>2, <1>3, <2>2, <3>1
    <2>3. ASSUME n = m, mishaps <= mishaps', NEW j \in J, NEW p, K \subseteq J \ {j}, I \subseteq H \cup {p}
          PROVE  n + Cardinality(K) + Cardinality(I) <= 1 + mishaps'
      <3>1. /\ Cardinality(K) \in Nat /\ Cardinality(K) <= Cardinality(J) - 1
            /\ Cardinality(I) \in Nat /\ Cardinality(I) <= Cardinality(H) + 1
        BY <1>4, <2>3
      <3> QED
        BY <1>1, <1>2, <1>3, <2>3, <3>1
    <2>4. ASSUME n = m + 1, mishaps <= mishaps', NEW p \in H, K \subseteq J, I \subseteq H \ {p}
          PROVE  n + Cardinality(K) + Cardinality(I) <= 1 + mishaps'
      <3>1. /\ Cardinality(K) \in Nat /\ Cardinality(K) <= Cardinality(J)
            /\ Cardinality(I) \in Nat /\ Cardinality(I) <= Cardinality(H) - 1
        BY <1>4, <2>4
      <3> QED
        BY <1>1, <1>2, <1>3, <2>4, <3>1
    <2>5. ASSUME n = m, mishaps' = mishaps + 1, NEW j, K \subseteq J \cup {j}, I \subseteq H
          PROVE  n + Cardinality(K) + Cardinality(I) <= 1 + mishaps'
      <3>1. /\ Cardinality(K) \in Nat /\ Cardinality(K) <= Cardinality(J) + 1
            /\ Cardinality(I) \in Nat /\ Cardinality(I) <= Cardinality(H)
        BY <1>4, <2>5
      <3> QED
        BY <1>1, <1>2, <1>3, <2>5, <3>1
    <2> QED
      BY <1>5, <2>1, <2>2, <2>3, <2>4, <2>5 DEF Passes
  <1> QED
    BY <1>5, <1>6 DEF Counted

\* What is before other executions for a row does not grow while one of them moves.
LEMMA OthersAim ==
  ASSUME ImportType, NEW p \in Actors, OthersSame(p), NEW r \in Rows, RowGrows(r)
  PROVE  /\ HandsFor(r)' \subseteq HandsFor(r) \cup {p}
         /\ ~Aims(p, r)' => HandsFor(r)' \subseteq HandsFor(r) \ {p}
         /\ (Aims(p, r)' => Aims(p, r)) => HandsFor(r)' \subseteq HandsFor(r)
  <1>1. ASSUME NEW q \in Actors, q # p, Aims(q, r)' PROVE Aims(q, r)
    <2>1. hand'[q] = hand[q]
      BY <1>1 DEF OthersSame
    <2> QED
      BY <1>1, <2>1 DEF Aims, RowGrows
  <1>2. \A q : q \in HandsFor(r)' <=> q \in Actors /\ Aims(q, r)'
    BY DEF HandsFor
  <1>3. \A q : q \in HandsFor(r) <=> q \in Actors /\ Aims(q, r)
    BY DEF HandsFor
  <1> QED
    BY <1>1, <1>2, <1>3

\* The jobs for a row after an enqueue of another one.
LEMMA JobsForFewer ==
  ASSUME NEW r \in Rows, RowGrows(r),
         \A j \in waiting' : j \in waiting \/ (r \notin j.rows /\ j.kind # "parse")
  PROVE  JobsFor(r)' \subseteq JobsFor(r)
  BY DEF JobsFor, RowGrows

\* Without a job more, an execution that aims at no row it did not aim at changes no count,
\* but for the row it creates.
LEMMA QuietPasses ==
  ASSUME ImportType, NEW p \in Actors, StepOf(p), OthersSame(p), NEW r \in Rows, RowGrows(r),
         mishaps <= mishaps',
         \A j \in waiting' : j \in waiting \/ (r \notin j.rows /\ j.kind # "parse"),
         Aims(p, r)' => Aims(p, r),
         hand[p].at = "create" /\ hand'[p].at = "mark" /\ hand[p].row = r => Aims(p, r) /\ ~Aims(p, r)'
  PROVE  Passes(r)
  <1>1. JobsFor(r)' \subseteq JobsFor(r)
    BY JobsForFewer
  <1>2. HandsFor(r)' \subseteq HandsFor(r) /\ (~Aims(p, r)' => HandsFor(r)' \subseteq HandsFor(r) \ {p})
    BY OthersAim
  <1>3. CASE out'[r].made = out[r].made
    BY <1>1, <1>2, <1>3 DEF Passes
  <1>4. CASE out'[r].made # out[r].made
    <2>1. /\ hand[p].at = "create" /\ hand'[p].at = "mark" /\ hand[p].row = r
          /\ out'[r].made = out[r].made + 1
      BY <1>4, RowsAreMade DEF OutBy
    <2>2. p \in HandsFor(r)
      BY <2>1 DEF HandsFor
    <2> QED
      BY <1>1, <1>2, <2>1, <2>2 DEF Passes
  <1> QED
    BY <1>3, <1>4

\* The steps of one execution count right.
LEMMA StepPasses ==
  ASSUME ImportType, ImportType', Quiet, NEW p \in Actors, StepOf(p), OthersSame(p),
         NEW r \in Rows, RowGrows(r), mishaps <= mishaps'
  PROVE  Passes(r)
  <1>0. HandOk(p, hand[p]) /\ hand[p] \in HandRecs /\ HandOk(p, hand'[p]) /\ hand'[p] \in HandRecs
    BY DEF ImportType, ImportHands
  <1>1. CASE RowEffect(p) /\ RowProgress(p)
    <2>1. waiting' = waiting /\ hand[p].at \in Imports!RowSteps
      BY <1>1 DEF RowEffect
    <2>2. /\ hand'[p].at \in Imports!RowSteps \cup {"next"} /\ hand'[p].todo = hand[p].todo
          /\ hand'[p].clean = hand[p].clean /\ hand'[p].plan = hand[p].plan /\ hand'[p].row = hand[p].row
      BY <1>1, RowHands
    <2>3. hand[p].at \in ChunkPlaces
      BY <2>1 DEF ChunkPlaces
    <2>4. hand'[p].at \in {"find", "create"} /\ hand'[p].row = r => hand[p].at \in {"find", "create"}
      BY <1>1 DEF RowProgress
    <2>5. Aims(p, r)' => Aims(p, r)
      BY <2>2, <2>4 DEF Aims, Imports!RowSteps
    <2>6. hand[p].at = "create" /\ hand'[p].at = "mark" /\ hand[p].row = r => Aims(p, r) /\ ~Aims(p, r)'
      <3>1. ASSUME hand[p].at = "create", hand'[p].at = "mark", hand[p].row = r
            PROVE  r \notin hand[p].todo /\ hand[p].clean = {} /\ \A c \in hand[p].plan : r \notin c
        BY <1>0, <2>1, <2>3, <3>1 DEF HandOk
      <3> QED
        BY <2>2, <3>1 DEF Aims
    <2> QED
      BY <2>1, <2>5, <2>6, QuietPasses
  <1>2. CASE CommitEffect(p)
    <2>1. PICK h \in HandRecs : /\ HandOk(p, h) /\ hand' = [hand EXCEPT ![p] = h]
                                /\ h.at \in {"idle", "parsed", "dispatch"} \cup CommitPlaces
                                /\ h.todo = {} /\ h.clean = {} /\ h.plan = hand[p].plan
      BY <1>2 DEF CommitEffect
    <2>2. hand'[p] = h
      BY <2>1, HandMoves DEF ImportType
    <2>3. Aims(p, r)' => Aims(p, r)
      BY <2>1, <2>2 DEF Aims, CommitPlaces
    <2>4. \A j \in waiting' : j \in waiting \/ (r \notin j.rows /\ j.kind # "parse")
      BY <1>2, JobRecords DEF CommitEffect
    <2>5. hand'[p].at # "mark"
      BY <2>1, <2>2 DEF CommitPlaces
    <2> QED
      BY <2>3, <2>4, <2>5, QuietPasses
  <1>3. CASE AbandonEffect(p)
    <2>1. ~Aims(p, r)' /\ out' = out /\ hand'[p].at # "mark"
      BY <1>3, FreeIsOk DEF Aims, AbandonEffect
    <2>2. CASE waiting' = waiting
      BY <2>1, <2>2, QuietPasses
    <2>3. CASE waiting' # waiting
      <3>1. PICK k \in JobRecs : waiting' = waiting \cup {k} /\ p # Imports!Request
        BY <1>3, <2>3 DEF AbandonEffect
      <3>2. mishaps' = mishaps + 1
        <4>1. hand[p] # Imports!Free /\ p \in Hands
          BY <1>3, <3>1, FreeIsOk, ImportBounds DEF AbandonEffect
        <4>2. redis
          BY <4>1 DEF Quiet
        <4> QED
          BY <1>3, <4>2 DEF AbandonEffect
      <3>3. JobsFor(r)' \subseteq JobsFor(r) \cup {k}
        BY <3>1 DEF JobsFor, RowGrows
      <3>4. HandsFor(r)' \subseteq HandsFor(r)
        BY <2>1, OthersAim
      <3> QED
        BY <2>1, <3>2, <3>3, <3>4 DEF Passes
    <2> QED
      BY <2>2, <2>3
  <1>4. CASE Imports!Parse(p)
    <2>1. Aims(p, r)' => Aims(p, r)
      BY <1>4, ParseHands DEF Aims, Unjudged
    <2> QED
      BY <1>4, <2>1, ParseHands, QuietPasses
  <1>5. CASE Imports!ReadLeads(p)
    BY <1>5, LeadHands, QuietPasses DEF Aims
  <1>6. CASE Imports!MarkValid(p)
    <2>1. \A c \in hand'[p].plan : r \in c => r \in hand[p].clean
      <3>1. hand[p].clean \subseteq Rows
        BY <1>0, HandFields
      <3> QED
        BY <1>6, <3>1, ChunksSplit, MarkHands
    <2>2. Aims(p, r)' => Aims(p, r)
      BY <1>6, <2>1, MarkHands DEF Aims
    <2> QED
      BY <1>6, <2>2, MarkHands, QuietPasses
  <1>7. ASSUME NEW s \in Rows, JudgeEffect(p, s) PROVE Passes(r)
    <2>1. Aims(p, r)' => Aims(p, r)
      BY <1>7 DEF JudgeEffect, Aims
    <2> QED
      BY <1>7, <2>1, QuietPasses DEF JudgeEffect
  <1>8. ASSUME NEW c \in SUBSET Rows, DispatchEffect(p, c) PROVE Passes(r)
    <2>1. /\ out' = out /\ hand'[p].at # "mark" /\ c \in hand[p].plan
          /\ hand'[p].plan = hand[p].plan \ {c} /\ hand'[p].clean = {}
          /\ hand'[p].at \in {"chunk", "dispatch"}
      BY <1>8 DEF DispatchEffect
    <2>2. hand'[p].todo \subseteq c
      BY <1>8 DEF DispatchEffect
    <2>3. Aims(p, r)' => Aims(p, r)
      BY <2>1, <2>2 DEF Aims
    <2>4. CASE \A j \in waiting' : j \in waiting \/ (r \notin j.rows /\ j.kind # "parse")
      BY <2>1, <2>3, <2>4, QuietPasses
    <2>5. CASE ~(\A j \in waiting' : j \in waiting \/ (r \notin j.rows /\ j.kind # "parse"))
      <3> DEFINE k == Imports!Job("chunk", c)
      <3>1. k.rows = c /\ k.kind = "chunk"
        BY JobRecords
      <3>2. /\ waiting' \subseteq waiting \cup {k} /\ p # Imports!Request
            /\ hand'[p].todo = {} /\ hand'[p].at = "dispatch"
        BY <1>8, <2>5, QueuedAdds DEF DispatchEffect
      <3> HIDE DEF k
      <3>3. r \in c
        BY <2>5, <3>1, <3>2
      <3>4. \A d \in hand'[p].plan : r \notin d
        BY <1>0, <2>1, <3>3 DEF HandOk
      <3>5. ~Aims(p, r)' /\ Aims(p, r)
        BY <2>1, <3>2, <3>3, <3>4 DEF Aims
      <3>6. p \in HandsFor(r) /\ HandsFor(r)' \subseteq HandsFor(r) \ {p}
        BY <3>5, OthersAim DEF HandsFor
      <3>7. JobsFor(r)' \subseteq JobsFor(r) \cup {k}
        BY <3>2 DEF JobsFor, RowGrows
      <3> QED
        BY <2>1, <3>6, <3>7 DEF Passes
    <2> QED
      BY <2>4, <2>5
  <1>9. ASSUME NEW mine \in SUBSET Rows, ReadEffect(p, mine) PROVE Passes(r)
    <2>1. /\ hand'[p].at \notin {"post", "parse", "find", "create", "mark"}
          /\ hand'[p].todo \subseteq hand[p].todo /\ hand'[p].clean = {}
          /\ hand'[p].plan = hand[p].plan /\ waiting' = waiting
      BY <1>9, FreeIsOk DEF ReadEffect
    <2>2. Aims(p, r)' => Aims(p, r)
      BY <2>1 DEF Aims
    <2> QED
      BY <2>1, <2>2, QuietPasses
  <1>10. ASSUME NEW s \in Rows, NextEffect(p, s) PROVE Passes(r)
    <2>1. Aims(p, r)' => Aims(p, r)
      BY <1>10 DEF NextEffect, Aims
    <2> QED
      BY <1>10, <2>1, QuietPasses DEF NextEffect
  <1>11. CASE p \in Hands /\ Imports!Stall(p)
    <2>1. Aims(p, r)' => Aims(p, r)
      BY <1>11, StallHands DEF Aims, RowGrows
    <2>2. HandsFor(r)' \subseteq HandsFor(r)
      BY <2>1, OthersAim
    <2>3. JobsFor(r)' \subseteq JobsFor(r) \cup {hand[p].job}
      BY <1>11, StallHands DEF JobsFor, RowGrows
    <2> QED
      BY <1>11, <2>2, <2>3, StallHands DEF Passes
  <1> QED
    BY <1>1, <1>2, <1>3, <1>4, <1>5, <1>6, <1>7, <1>8, <1>9, <1>10, <1>11 DEF StepOf

\* The request's first step counts right.
LEMMA PostPasses ==
  ASSUME ImportType, Imports!Post, NEW r \in Rows, RowGrows(r), mishaps <= mishaps'
  PROVE  Passes(r)
  <1> DEFINE R == Imports!Request
             k == Imports!Job("parse", {})
  <1>0. R \in Actors /\ OthersSame(R) /\ out' = out
    BY ImportBounds, PostHands DEF OthersSame
  <1>1. k.rows = {} /\ k.kind = "parse" /\ Imports!Queued("parse", {}) \subseteq waiting \cup {k}
    BY JobRecords, QueuedAdds
  <1> HIDE DEF k
  <1>2. CASE hand'[R] = Imports!Free /\ waiting' \subseteq waiting \cup {k}
    <2>1. ~Aims(R, r)'
      BY <1>2, FreeIsOk DEF Aims
    <2>2. JobsFor(r)' \subseteq JobsFor(r) \cup {k}
      BY <1>2 DEF JobsFor, RowGrows
    <2>3. CASE entry[r].is = "pending"
      <3>1. R \in HandsFor(r)
        BY <1>0, <2>3, PostHands DEF HandsFor, Aims
      <3> QED
        BY <1>0, <2>1, <2>2, <3>1, OthersAim DEF Passes
    <2>4. CASE entry[r].is # "pending"
      <3>1. JobsFor(r)' \subseteq JobsFor(r)
        BY <1>1, <1>2, <2>4 DEF JobsFor, RowGrows
      <3> QED
        BY <1>0, <2>1, <3>1, OthersAim DEF Passes
    <2> QED
      BY <2>3, <2>4
  <1>3. CASE /\ hand'[R] = [hand[R] EXCEPT !.at = "parse"] /\ waiting' \subseteq waiting \cup {k}
             /\ waiting' = waiting \/ mishaps' = mishaps + 1
    <2>1. hand[R] \in HandRecs /\ hand[R].at = "post"
      BY <1>0, PostHands DEF ImportType, ImportHands
    <2>2. /\ hand'[R].at = "parse" /\ hand'[R].todo = hand[R].todo /\ hand'[R].clean = hand[R].clean
          /\ hand'[R].plan = hand[R].plan
      BY <1>3, <2>1 DEF HandRecs
    <2>3. Aims(R, r)' => Aims(R, r)
      BY <2>1, <2>2 DEF Aims, RowGrows
    <2>4. HandsFor(r)' \subseteq HandsFor(r)
      BY <1>0, <2>3, OthersAim
    <2>5. JobsFor(r)' \subseteq JobsFor(r) \cup {k} /\ (waiting' = waiting => JobsFor(r)' \subseteq JobsFor(r))
      BY <1>3 DEF JobsFor, RowGrows
    <2> QED
      BY <1>0, <1>3, <2>4, <2>5 DEF Passes
  <1> QED
    BY <1>0, <1>1, <1>2, <1>3, PostHands, FreeIsOk

\* A worker that takes a job counts for it.
LEMMA TakePasses ==
  ASSUME ImportType, NEW w \in Hands, NEW j \in waiting, Imports!Take(w, j),
         NEW r \in Rows, RowGrows(r), mishaps <= mishaps'
  PROVE  Passes(r)
  <1>0. w \in Actors /\ OthersSame(w) /\ out' = out /\ entry' = entry /\ waiting' = waiting \ {j}
    BY ImportBounds, TakeHands DEF OthersSame
  <1>1. JobsFor(r)' \subseteq JobsFor(r) \ {j}
    BY <1>0 DEF JobsFor
  <1>2. CASE ~Aims(w, r)'
    BY <1>0, <1>1, <1>2, OthersAim DEF Passes
  <1>3. CASE Aims(w, r)'
    <2>1. r \in j.rows \/ (j.kind = "parse" /\ entry[r].is = "pending")
      BY <1>0, <1>3, TakeHands DEF Aims
    <2>2. j \in JobsFor(r)
      BY <2>1 DEF JobsFor
    <2> QED
      BY <1>0, <1>1, <2>2, OthersAim DEF Passes
  <1> QED
    BY <1>2, <1>3

\* What may still write a row, and what has, stays one and a fault each.
LEMMA CountStays ==
  ASSUME ImportType, Quiet, WritesCounted, Imports!Next
  PROVE  WritesCounted'
  <1>1. ImportType' /\ (\A r \in Rows : RowGrows(r)) /\ mishaps <= mishaps'
    BY RowsGrow
  <1>2. ASSUME NEW r \in Rows PROVE Counted(r)'
    <2>1. RowGrows(r) /\ Counted(r)
      BY <1>1 DEF WritesCounted
    <2>2. CASE ElsewhereEffect
      <3>1. JobsFor(r)' = JobsFor(r) /\ HandsFor(r)' = HandsFor(r) /\ out'[r].made = out[r].made
        BY <2>2 DEF ElsewhereEffect, JobsFor, HandsFor, Aims
      <3> QED
        BY <1>1, <2>1, <3>1, PassesCount DEF Passes
    <2>3. CASE Imports!Post
      BY <1>1, <2>1, <2>3, PostPasses, PassesCount
    <2>4. ASSUME NEW w \in Hands, NEW j \in waiting, Imports!Take(w, j) PROVE Counted(r)'
      BY <1>1, <2>1, <2>4, TakePasses, PassesCount
    <2>5. ASSUME NEW p \in Actors, StepOf(p), OthersSame(p) PROVE Counted(r)'
      BY <1>1, <2>1, <2>5, StepPasses, PassesCount
    <2> QED
      BY <2>2, <2>3, <2>4, <2>5, ImportSteps
  <1>3. (\A r \in Rows : Counted(r)') => WritesCounted'
    BY DEF WritesCounted, Counted
  <1> QED
    BY <1>2, <1>3

\* Whose rows and whose job an execution's place tells.
LEMMA HandPlaces ==
  ASSUME NEW p \in Actors, NEW h \in HandRecs, HandOk(p, h)
  PROVE  /\ h.at \in ParsePlaces \/ h.plan # {} =>
              h.at # "idle" /\ (p # Imports!Request => h.job.kind = "parse")
         /\ h.job.rows # {} => p # Imports!Request /\ h.job.kind = "chunk" /\ h.at \in ChunkPlaces
         /\ p # Imports!Request /\ h.at \in ChunkPlaces => h.job.kind = "chunk"
         /\ h.at \in {"leads", "judge"} => h.plan = {}
         /\ h.at = "post" => p = Imports!Request /\ h.plan = {}
         /\ p # Imports!Request /\ h.at = "idle" => h.job.kind = "none"
         /\ p = Imports!Request => h.job.rows = {}
  <1> USE HandFields, FreeIsOk
  <1>1. h.at = "idle" => h.todo = {} /\ h.plan = {} /\ h.job.rows = {} /\ h.job.kind = "none"
    BY DEF HandOk
  <1>2. p = Imports!Request => h.job.rows = {}
    BY DEF HandOk
  <1>3. ASSUME p # Imports!Request, h.at # "idle"
        PROVE  /\ JobOk(h.job) /\ h.job.kind \in {"parse", "chunk", "commit", "again"}
               /\ h.job.kind = "parse" => h.at \in ParsePlaces
               /\ h.job.kind = "chunk" => h.at \in ChunkPlaces
               /\ h.job.kind \in {"commit", "again"} => h.at \in CommitPlaces
    <2>1. h # Imports!Free
      BY <1>3
    <2> QED
      BY <1>3, <2>1 DEF HandOk, JobOk, JobRecs
  <1>4. /\ ParsePlaces \cap ChunkPlaces = {} /\ ParsePlaces \cap CommitPlaces = {}
        /\ ChunkPlaces \cap CommitPlaces = {} /\ "idle" \notin ParsePlaces \cup ChunkPlaces
        /\ "post" \notin ParsePlaces \cup ChunkPlaces \cup CommitPlaces /\ "dispatch" \in ParsePlaces
    BY DEF ParsePlaces, ChunkPlaces, CommitPlaces, Imports!RowSteps
  <1>5. h.plan # {} => h.at = "dispatch" \/ (p = Imports!Request /\ h.at \in ChunkPlaces)
    BY DEF HandOk
  <1>6. h.at \in {"leads", "judge", "post"} => h.plan = {}
    BY <1>5 DEF ChunkPlaces, Imports!RowSteps
  <1>7. h.job.rows # {} => p # Imports!Request /\ h.job.kind = "chunk" /\ h.at \in ChunkPlaces
    <2>1. ASSUME h.job.rows # {} PROVE p # Imports!Request /\ h.job.kind = "chunk" /\ h.at \in ChunkPlaces
      BY <1>1, <1>2, <1>3, <2>1 DEF JobOk
    <2> QED
      BY <2>1
  <1>8. h.at = "post" => p = Imports!Request
    BY <1>3, <1>4
  <1> QED
    BY <1>1, <1>2, <1>3, <1>4, <1>5, <1>6, <1>7, <1>8

\* An execution that takes on no row, and no parse.
TakesNothing(p) ==
    /\ waiting \subseteq waiting'
    /\ \A j \in waiting' : j \in waiting \/ (j.rows = {} /\ j.kind # "parse")
    /\ \A r \in Rows : (InChunk(p, r)' => InChunk(p, r)) /\ (InPlan(p, r)' => InPlan(p, r))
    /\ Parsing(p)' => Parsing(p) /\ (hand'[p].lost => hand[p].lost)
    /\ twice \subseteq twice'

\* An execution whose job is handed out again, once it is over or beside it.
Requeues(p) ==
    /\ p # Imports!Request /\ hand'[p] = Imports!Free /\ ~hand[p].lost
    /\ \E j \in JobRecs : /\ waiting' = waiting \cup {j}
                          /\ j.kind = hand[p].job.kind /\ j.rows = hand[p].job.rows
    /\ UNCHANGED <<entry, out, twice>>
Doubles(p) ==
    /\ p \in Hands /\ Imports!Stall(p) /\ hand[p].job.kind \in {"parse", "chunk"}

\* A job that is over is nobody's, and its rows are in no chunk and no plan.
LEMMA FreeKeeps ==
  ASSUME NEW p \in Actors, hand'[p] = Imports!Free
  PROVE  ~Parsing(p)' /\ \A r \in Rows : ~InChunk(p, r)' /\ ~InPlan(p, r)'
  BY FreeIsOk DEF Parsing, InChunk, InPlan, ChunkPlaces, Imports!RowSteps

\* An execution that keeps its job, and has no row more.
LEMMA SameJobKeeps ==
  ASSUME NEW p \in Actors, hand[p].at # "idle", hand'[p].job = hand[p].job,
         hand[p].todo = {} \/ hand[p].at \in ChunkPlaces \/ hand'[p].at \notin ChunkPlaces,
         hand'[p].at \notin ChunkPlaces \/ hand'[p].todo \subseteq hand[p].todo,
         \/ hand'[p].at \notin Imports!RowSteps
         \/ hand'[p].row = hand[p].row /\ hand[p].at \in Imports!RowSteps
         \/ hand[p].at = "next" /\ hand'[p].row \in hand[p].todo,
         hand'[p].plan \subseteq hand[p].plan
  PROVE  /\ Parsing(p)' => Parsing(p)
         /\ \A r \in Rows : (InChunk(p, r)' => InChunk(p, r)) /\ (InPlan(p, r)' => InPlan(p, r))
  <1>1. "next" \in ChunkPlaces
    BY DEF ChunkPlaces
  <1> QED
    BY <1>1 DEF Parsing, InChunk, InPlan

\* An execution takes on nothing, is handed out again, marks its rows, or hands out a chunk.
LEMMA StepSorts ==
  ASSUME ImportType, ImportType', NEW p \in Actors, StepOf(p)
  PROVE  \/ TakesNothing(p) \/ Requeues(p) \/ Doubles(p) \/ Imports!MarkValid(p)
         \/ \E c \in SUBSET Rows : DispatchEffect(p, c)
  <1>0. HandOk(p, hand[p]) /\ hand[p] \in HandRecs /\ HandOk(p, hand'[p]) /\ hand'[p] \in HandRecs
    BY DEF ImportType, ImportHands
  <1>i. hand[p].at # "idle"
    BY StepPlaces
  <1>n. "next" \in ChunkPlaces /\ Imports!RowSteps \subseteq ChunkPlaces
    BY DEF ChunkPlaces
  <1>f. ~Imports!Free.lost
    BY FreeIsOk
  <1>1. CASE RowEffect(p)
    <2>1. waiting' = waiting /\ twice' = twice /\ hand[p].at \in Imports!RowSteps
      BY <1>1 DEF RowEffect
    <2>2. /\ hand'[p].at \in Imports!RowSteps \cup {"next"} /\ hand'[p].todo = hand[p].todo
          /\ hand'[p].plan = hand[p].plan /\ hand'[p].row = hand[p].row
          /\ hand'[p].job = hand[p].job /\ hand'[p].lost = hand[p].lost
      BY <1>1, RowHands
    <2>3. hand[p].at \in ChunkPlaces
      BY <1>n, <2>1
    <2> QED
      BY <1>i, <2>1, <2>2, <2>3, SameJobKeeps DEF TakesNothing
  <1>2. CASE CommitEffect(p)
    <2>1. PICK h \in HandRecs : /\ HandOk(p, h) /\ hand' = [hand EXCEPT ![p] = h]
                                /\ h.at \in {"idle", "parsed", "dispatch"} \cup CommitPlaces
                                /\ h.todo = {} /\ h.plan = hand[p].plan
                                /\ h = Imports!Free \/ (h.job = hand[p].job /\ h.lost = hand[p].lost)
      BY <1>2 DEF CommitEffect
    <2>2. hand'[p] = h
      BY <2>1, HandMoves DEF ImportType
    <2>3. h.at \notin ChunkPlaces /\ h.at \notin Imports!RowSteps
      BY <2>1 DEF CommitPlaces, ChunkPlaces, Imports!RowSteps
    <2>4. /\ waiting \subseteq waiting' /\ twice' = twice
          /\ \A j \in waiting' : j \in waiting \/ (j.rows = {} /\ j.kind # "parse")
      BY <1>2, JobRecords DEF CommitEffect
    <2>5. CASE h = Imports!Free
      BY <1>f, <2>2, <2>4, <2>5, FreeKeeps DEF TakesNothing
    <2>6. CASE h.job = hand[p].job /\ h.lost = hand[p].lost
      BY <1>i, <2>1, <2>2, <2>3, <2>4, <2>6, SameJobKeeps DEF TakesNothing
    <2> QED
      BY <2>1, <2>5, <2>6
  <1>3. CASE AbandonEffect(p)
    <2>1. CASE waiting' = waiting
      BY <1>3, <1>f, <2>1, FreeKeeps DEF TakesNothing, AbandonEffect
    <2>2. CASE waiting' # waiting
      BY <1>3, <2>2 DEF Requeues, AbandonEffect
    <2> QED
      BY <2>1, <2>2
  <1>4. CASE Imports!Parse(p)
    <2>1. hand'[p].at \notin ChunkPlaces /\ hand'[p].at \notin Imports!RowSteps
      BY <1>4, ParseHands DEF ChunkPlaces, Imports!RowSteps
    <2> QED
      BY <1>4, <1>i, <2>1, ParseHands, SameJobKeeps DEF TakesNothing
  <1>5. CASE Imports!ReadLeads(p)
    <2>1. hand'[p].at \notin ChunkPlaces /\ hand'[p].at \notin Imports!RowSteps
      BY <1>5, LeadHands DEF ChunkPlaces, Imports!RowSteps
    <2> QED
      BY <1>5, <1>i, <2>1, LeadHands, SameJobKeeps DEF TakesNothing
  <1>6. CASE \E r \in Rows : JudgeEffect(p, r)
    <2>1. hand'[p].at \notin ChunkPlaces /\ hand'[p].at \notin Imports!RowSteps
      BY <1>6 DEF JudgeEffect, ChunkPlaces, Imports!RowSteps
    <2> QED
      BY <1>6, <1>i, <2>1, SameJobKeeps DEF TakesNothing, JudgeEffect
  <1>7. ASSUME NEW mine \in SUBSET Rows, ReadEffect(p, mine) PROVE TakesNothing(p)
    <2>0. waiting' = waiting /\ twice' = twice /\ hand[p].at \in ChunkPlaces
      BY <1>7 DEF ReadEffect, ChunkPlaces
    <2>1. CASE hand'[p] = Imports!Free
      BY <1>f, <2>0, <2>1, FreeKeeps DEF TakesNothing
    <2>2. CASE hand'[p] # Imports!Free
      <3>1. /\ hand'[p].at \in {"dispatch", "next"} /\ hand'[p].job = hand[p].job /\ hand'[p].lost = hand[p].lost
            /\ hand'[p].todo \subseteq hand[p].todo /\ hand'[p].plan = hand[p].plan
        BY <1>7, <2>2 DEF ReadEffect
      <3>2. hand'[p].at \notin Imports!RowSteps
        BY <3>1 DEF Imports!RowSteps
      <3> QED
        BY <1>i, <2>0, <3>1, <3>2, SameJobKeeps DEF TakesNothing
    <2> QED
      BY <2>1, <2>2
  <1>8. ASSUME NEW r \in Rows, NextEffect(p, r) PROVE TakesNothing(p)
    <2>1. /\ waiting' = waiting /\ twice' = twice /\ hand[p].at = "next" /\ hand'[p].row \in hand[p].todo
          /\ hand'[p].todo \subseteq hand[p].todo /\ hand'[p].plan = hand[p].plan
          /\ hand'[p].job = hand[p].job /\ hand'[p].lost = hand[p].lost
      BY <1>8 DEF NextEffect
    <2> QED
      BY <1>i, <1>n, <2>1, SameJobKeeps DEF TakesNothing
  <1>9. CASE p \in Hands /\ Imports!Stall(p)
    <2>1. CASE hand[p].job.kind \in {"parse", "chunk"}
      BY <1>9, <2>1 DEF Doubles
    <2>2. CASE hand[p].job.kind \notin {"parse", "chunk"}
      <3>1. p # Imports!Request /\ JobOk(hand[p].job)
        BY <1>9, StallHands, ImportBounds
      <3>2. hand[p].job.rows = {}
        BY <2>2, <3>1 DEF JobOk
      <3>3. ~Parsing(p)' /\ \A j \in waiting' : j \in waiting \/ (j.rows = {} /\ j.kind # "parse")
        <4>1. hand'[p].job = hand[p].job /\ waiting' = waiting \cup {hand[p].job}
          BY <1>9, StallHands
        <4>2. ~Parsing(p)'
          BY <2>2, <3>1, <4>1 DEF Parsing
        <4> QED
          BY <2>2, <3>2, <4>1, <4>2
      <3>4. hand[p].at \notin ChunkPlaces
        BY <1>0, <2>2, <3>1, HandPlaces
      <3> QED
        <4>1. hand'[p].at \notin Imports!RowSteps /\ hand'[p].at \notin ChunkPlaces
          BY <1>9, <1>n, <3>4, StallHands
        <4>2. /\ waiting \subseteq waiting' /\ twice \subseteq twice'
              /\ hand'[p].job = hand[p].job /\ hand'[p].plan = hand[p].plan
          BY <1>9, StallHands
        <4>3. \A r \in Rows : (InChunk(p, r)' => InChunk(p, r)) /\ (InPlan(p, r)' => InPlan(p, r))
          BY <1>i, <4>1, <4>2, SameJobKeeps
        <4> QED
          BY <3>3, <4>2, <4>3 DEF TakesNothing
    <2> QED
      BY <2>1, <2>2
  <1> QED
    BY <1>1, <1>2, <1>3, <1>4, <1>5, <1>6, <1>7, <1>8, <1>9 DEF StepOf

\* The executions that do not move hold what they held.
LEMMA OthersHold ==
  ASSUME NEW p \in Actors, OthersSame(p), NEW q \in Actors, q # p
  PROVE  /\ hand'[q] = hand[q] /\ (Parsing(q)' <=> Parsing(q))
         /\ \A r : (InChunk(q, r)' <=> InChunk(q, r)) /\ (InPlan(q, r)' <=> InPlan(q, r))
  BY DEF OthersSame, Parsing, InChunk, InPlan

\* Which kinds of job have run twice is remembered.
LEMMA TwiceGrows ==
  ASSUME ImportType, Quiet, Imports!Next
  PROVE  twice \subseteq twice'
  <1>1. CASE Imports!Post
    BY <1>1, PostHands DEF Quiet
  <1>2. CASE ElsewhereEffect
    BY <1>2 DEF ElsewhereEffect
  <1>3. ASSUME NEW w \in Hands, NEW j \in waiting, Imports!Take(w, j) PROVE twice \subseteq twice'
    BY <1>3, TakeHands
  <1>4. ASSUME NEW p \in Actors, StepOf(p) PROVE twice \subseteq twice'
    <2>1. ImportType'
      BY ImportSteps
    <2>2. CASE TakesNothing(p)
      BY <2>2 DEF TakesNothing
    <2>3. CASE Requeues(p)
      BY <2>3 DEF Requeues
    <2>4. CASE Doubles(p)
      BY <2>4, StallHands DEF Doubles
    <2>5. CASE Imports!MarkValid(p)
      BY <2>5, MarkHands
    <2>6. CASE \E c \in SUBSET Rows : DispatchEffect(p, c)
      BY <2>6 DEF DispatchEffect
    <2> QED
      BY <1>4, <2>1, <2>2, <2>3, <2>4, <2>5, <2>6, StepSorts
  <1> QED
    BY <1>1, <1>2, <1>3, <1>4, ImportSteps

\* What a parse, or the request that runs it, holds is its own after a step that begins it.
LEMMA PostAlone ==
  ASSUME ImportType, Quiet, OneParse, Imports!Post, "parse" \notin twice'
  PROVE  /\ ParseAlone'
         /\ \A q \in Actors : \A r \in Rows : ~InChunk(q, r)' /\ ~InPlan(q, r)'
         /\ \A q \in Actors : hand'[q].at \in {"idle", "parse"}
         /\ \A j \in waiting' : j.rows = {}
  <1> DEFINE R == Imports!Request
             k == Imports!Job("parse", {})
  <1>0. R \in Actors /\ Actors \ {R} = Hands /\ Hands \subseteq Actors
    BY ImportBounds
  <1>1. waiting = {} /\ \A w \in Hands : hand[w] = Imports!Free /\ hand'[w] = Imports!Free
    BY <1>0, PostHands DEF Quiet
  <1>2. k.kind = "parse" /\ k.rows = {} /\ Imports!Queued("parse", {}) \subseteq {k}
    BY <1>1, JobRecords, QueuedAdds
  <1> HIDE DEF k
  <1>3. /\ waiting' \subseteq {k} /\ hand'[R].at \in {"idle", "parse"}
        /\ waiting' # {} => hand'[R] = Imports!Free
    BY <1>1, <1>2, PostHands, FreeIsOk
  <1>4. hand'[R].job.rows = {} /\ hand'[R].plan = {}
    <2>1. hand[R] \in HandRecs /\ HandOk(R, hand[R])
      BY <1>0 DEF ImportType, ImportHands
    <2>2. hand[R].at = "post"
      BY PostHands
    <2>3. hand[R].job.rows = {} /\ hand[R].plan = {}
      BY <1>0, <2>1, <2>2, HandPlaces
    <2>4. CASE hand'[R] = [hand[R] EXCEPT !.at = "parse"]
      BY <2>1, <2>3, <2>4 DEF HandRecs
    <2> QED
      BY <2>4, PostHands, FreeIsOk
  <1>5. \A q \in Actors : hand'[q].at \in {"idle", "parse"} /\ hand'[q].job.rows = {} /\ hand'[q].plan = {}
    BY <1>0, <1>1, <1>3, <1>4, FreeIsOk
  <1>6. "idle" \notin ChunkPlaces /\ "parse" \notin ChunkPlaces /\ Imports!RowSteps \subseteq ChunkPlaces
    BY DEF ChunkPlaces, Imports!RowSteps
  <1>7. \A q \in Actors : \A r \in Rows : ~InChunk(q, r)' /\ ~InPlan(q, r)'
    BY <1>5, <1>6 DEF InChunk, InPlan
  <1>8. \A w \in Hands : ~Parsing(w)'
    BY <1>0, <1>1, FreeKeeps
  <1>9. hand'[R] = Imports!Free => ~Parsing(R)'
    BY <1>0, FreeKeeps
  <1>10. ParseAlone'
    BY <1>0, <1>3, <1>8, <1>9 DEF ParseAlone
  <1> QED
    BY <1>2, <1>3, <1>5, <1>7, <1>10

\* As long as no parse runs beside another, there is one.
LEMMA AloneStays ==
  ASSUME ImportType, Quiet, OneParse, Imports!Next, "parse" \notin twice'
  PROVE  ParseAlone'
  <1>0. "parse" \notin twice /\ ParseAlone /\ ImportType'
    BY TwiceGrows, ImportSteps DEF OneParse
  <1>1. CASE Imports!Post
    BY <1>1, PostAlone
  <1>2. CASE ElsewhereEffect
    BY <1>0, <1>2 DEF ElsewhereEffect, ParseAlone, Parsing
  <1>3. ASSUME NEW w \in Hands, NEW j \in waiting, Imports!Take(w, j) PROVE ParseAlone'
    <2>1. w \in Actors /\ OthersSame(w) /\ waiting' = waiting \ {j} /\ ~hand'[w].lost
      BY <1>3, ImportBounds, TakeHands DEF OthersSame
    <2>2. Parsing(w)' => j.kind = "parse"
      BY <1>3, TakeHands, ImportBounds DEF Parsing
    <2>3. \A q \in Actors : q # w => hand'[q] = hand[q] /\ (Parsing(q)' <=> Parsing(q))
      BY <2>1, OthersHold
    <2> QED
      BY <1>0, <2>1, <2>2, <2>3, ImportBounds DEF ParseAlone
  <1>4. ASSUME NEW p \in Actors, StepOf(p), OthersSame(p) PROVE ParseAlone'
    <2>0. \A q \in Actors : q # p => hand'[q] = hand[q] /\ (Parsing(q)' <=> Parsing(q))
      BY <1>4, OthersHold
    <2>1. CASE TakesNothing(p)
      BY <1>0, <2>0, <2>1, ImportBounds DEF TakesNothing, ParseAlone
    <2>2. CASE Requeues(p)
      <3>1. PICK j \in JobRecs : waiting' = waiting \cup {j} /\ j.kind = hand[p].job.kind
        BY <2>2 DEF Requeues
      <3>2. ~Parsing(p)' /\ (j.kind = "parse" => Parsing(p))
        BY <2>2, <3>1, FreeKeeps DEF Requeues, Parsing
      <3> QED
        BY <1>0, <2>0, <3>1, <3>2, ImportBounds DEF ParseAlone
    <2>3. CASE Doubles(p)
      <3>1. /\ waiting' = waiting \cup {hand[p].job} /\ hand[p].job.kind = "chunk"
            /\ hand'[p].job = hand[p].job
        BY <2>3, StallHands DEF Doubles
      <3>2. ~Parsing(p)'
        BY <2>3, <3>1, ImportBounds DEF Parsing, Doubles
      <3> QED
        BY <1>0, <2>0, <3>1, <3>2, ImportBounds DEF ParseAlone
    <2>4. CASE Imports!MarkValid(p)
      <3>1. waiting' = waiting /\ (Parsing(p)' => Parsing(p)) /\ hand'[p].lost = hand[p].lost
        BY <1>4, <2>4, MarkHands, StepPlaces DEF Parsing
      <3> QED
        BY <1>0, <2>0, <3>1, ImportBounds DEF ParseAlone
    <2>5. ASSUME NEW c \in SUBSET Rows, DispatchEffect(p, c) PROVE ParseAlone'
      <3>1. (Parsing(p)' => Parsing(p)) /\ hand'[p].lost = hand[p].lost
        BY <1>4, <2>5, StepPlaces DEF Parsing, DispatchEffect
      <3>2. \A j \in waiting' : j \in waiting \/ j.kind # "parse"
        BY <2>5, QueuedAdds, JobRecords DEF DispatchEffect
      <3> QED
        BY <1>0, <2>0, <3>1, <3>2, ImportBounds DEF ParseAlone
    <2> QED
      BY <1>0, <1>4, <2>1, <2>2, <2>3, <2>4, <2>5, StepSorts
  <1> QED
    BY <1>1, <1>2, <1>3, <1>4, ImportSteps

\* Rows are judged by the parse that holds them, and marked by the chunk that holds them.
LEMMA EntryMoves ==
  ASSUME ImportType, NEW p \in Actors, StepOf(p)
  PROVE  \/ entry' = entry
         \/ RowEffect(p) /\ RowProgress(p)
         \/ hand[p].at = "judge" /\ (Imports!MarkValid(p) \/ \E r \in Rows : JudgeEffect(p, r))
  <1>1. CASE CommitEffect(p) \/ AbandonEffect(p)
    BY <1>1 DEF CommitEffect, AbandonEffect
  <1>2. CASE Imports!Parse(p) \/ Imports!ReadLeads(p)
    BY <1>2, ParseHands, LeadHands
  <1>3. CASE Imports!MarkValid(p)
    BY <1>3, MarkHands
  <1>4. CASE \E r \in Rows : JudgeEffect(p, r)
    BY <1>4 DEF JudgeEffect
  <1>5. CASE \E c \in SUBSET Rows : DispatchEffect(p, c)
    BY <1>5 DEF DispatchEffect
  <1>6. CASE \E mine \in SUBSET Rows : ReadEffect(p, mine)
    BY <1>6 DEF ReadEffect
  <1>7. CASE \E r \in Rows : NextEffect(p, r)
    BY <1>7 DEF NextEffect
  <1>8. CASE p \in Hands /\ Imports!Stall(p)
    BY <1>8, StallHands
  <1> QED
    BY <1>1, <1>2, <1>3, <1>4, <1>5, <1>6, <1>7, <1>8 DEF StepOf

\* Where a step leaves an execution that reads or judges.
LEMMA JudgePlaces ==
  ASSUME ImportType, NEW p \in Actors, StepOf(p), hand'[p].at \in {"leads", "judge"}
  PROVE  \/ Imports!Parse(p) \/ Imports!ReadLeads(p) \/ \E r \in Rows : JudgeEffect(p, r)
         \/ p \in Hands /\ Imports!Stall(p)
  <1>1. CASE RowEffect(p)
    BY <1>1, RowHands DEF Imports!RowSteps
  <1>2. CASE CommitEffect(p)
    <2>1. PICK h \in HandRecs : /\ HandOk(p, h) /\ hand' = [hand EXCEPT ![p] = h]
                                /\ h.at \in {"idle", "parsed", "dispatch"} \cup CommitPlaces
      BY <1>2 DEF CommitEffect
    <2>2. hand'[p] = h
      BY <2>1, HandMoves DEF ImportType
    <2> QED
      BY <2>1, <2>2 DEF CommitPlaces
  <1>3. CASE AbandonEffect(p)
    BY <1>3, FreeIsOk DEF AbandonEffect
  <1>4. CASE Imports!MarkValid(p)
    BY <1>4, MarkHands
  <1>5. CASE \E c \in SUBSET Rows : DispatchEffect(p, c)
    BY <1>5 DEF DispatchEffect
  <1>6. CASE \E mine \in SUBSET Rows : ReadEffect(p, mine)
    BY <1>6, FreeIsOk DEF ReadEffect
  <1>7. CASE \E r \in Rows : NextEffect(p, r)
    BY <1>7 DEF NextEffect
  <1> QED
    BY <1>1, <1>2, <1>3, <1>4, <1>5, <1>6, <1>7 DEF StepOf

\* A parse that reads or judges is one.
LEMMA JudgeIsParse ==
  ASSUME ImportHands, NEW p \in Actors,
         hand[p].at \in {"leads", "judge", "dispatch"} \/ hand[p].plan # {}
  PROVE  Parsing(p)
  <1>1. HandOk(p, hand[p]) /\ hand[p] \in HandRecs
    BY DEF ImportHands
  <1>2. {"leads", "judge", "dispatch"} \subseteq ParsePlaces
    BY DEF ParsePlaces
  <1> QED
    BY <1>1, <1>2, HandPlaces DEF Parsing

\* As long as no parse runs beside another, what one is to judge nobody has judged.
LEMMA JudgesStay ==
  ASSUME ImportType, Quiet, OneParse, Imports!Next, "parse" \notin twice'
  PROVE  JudgesFresh'
  <1>0. /\ "parse" \notin twice /\ ParseAlone /\ JudgesFresh /\ FreshApart /\ ImportType'
        /\ \A r \in Rows : RowGrows(r)
    BY TwiceGrows, RowsGrow DEF OneParse
  <1>1. CASE Imports!Post
    BY <1>1, PostAlone DEF JudgesFresh
  <1>2. CASE ElsewhereEffect
    BY <1>0, <1>2 DEF ElsewhereEffect, JudgesFresh, Unjudged
  <1>3. ASSUME NEW w \in Hands, NEW j \in waiting, Imports!Take(w, j) PROVE JudgesFresh'
    <2>1. \A q \in Actors : q # w => hand'[q] = hand[q]
      BY <1>3, TakeHands
    <2>2. entry' = entry /\ hand'[w].at \notin {"leads", "judge"}
      BY <1>3, TakeHands
    <2> QED
      BY <1>0, <2>1, <2>2 DEF JudgesFresh, Unjudged
  <1>4. ASSUME NEW p \in Actors, StepOf(p), OthersSame(p) PROVE JudgesFresh'
    <2>1. ASSUME NEW q \in Actors, q # p, hand'[q].at \in {"leads", "judge"}
          PROVE  (hand'[q].todo \cup hand'[q].clean) \subseteq Unjudged'
      <3>1. /\ hand'[q] = hand[q] /\ (hand[q].todo \cup hand[q].clean) \subseteq Unjudged /\ Parsing(q)
        BY <1>0, <1>4, <2>1, JudgeIsParse DEF OthersSame, JudgesFresh, ImportType
      <3>2. hand[p].at # "judge"
        BY <1>0, <2>1, <3>1, JudgeIsParse DEF ParseAlone, ImportType
      <3>3. Unjudged \subseteq Unjudged'
        <4>1. CASE entry' = entry
          BY <4>1 DEF Unjudged
        <4>2. CASE RowEffect(p)
          <5>1. InChunk(p, hand[p].row)
            BY <4>2 DEF RowEffect, InChunk
          <5>2. \A r \in Rows : r # hand[p].row => entry'[r] = entry[r]
            BY <4>2 DEF RowEffect, RowSame
          <5>3. hand[p].row \notin Unjudged
            BY <1>0, <5>1 DEF FreshApart, InHandling
          <5> QED
            BY <5>2, <5>3 DEF Unjudged
        <4> QED
          BY <1>4, <3>2, <4>1, <4>2, EntryMoves
      <3> QED
        BY <3>1, <3>3
    <2>2. ASSUME hand'[p].at \in {"leads", "judge"}
          PROVE  (hand'[p].todo \cup hand'[p].clean) \subseteq Unjudged'
      <3>1. CASE Imports!Parse(p)
        BY <3>1, ParseHands DEF Unjudged
      <3>2. CASE Imports!ReadLeads(p)
        BY <1>0, <3>2, LeadHands DEF Unjudged, JudgesFresh
      <3>3. ASSUME NEW r \in Rows, JudgeEffect(p, r)
            PROVE  (hand'[p].todo \cup hand'[p].clean) \subseteq Unjudged'
        <4>1. /\ hand[p].at = "judge" /\ r \in hand[p].todo /\ hand'[p].todo = hand[p].todo \ {r}
              /\ \A s \in Rows : s # r => entry'[s] = entry[s]
          BY <3>3 DEF JudgeEffect, RowSame
        <4>2. (hand[p].todo \cup hand[p].clean) \subseteq Unjudged
          BY <1>0, <4>1 DEF JudgesFresh
        <4>3. r \notin hand[p].clean
          BY <4>1 DEF ImportType, ImportHands, HandOk
        <4>4. CASE hand'[p].clean = hand[p].clean
          BY <4>1, <4>2, <4>3, <4>4 DEF Unjudged
        <4>5. CASE hand'[p].clean = hand[p].clean \cup {r} /\ entry'[r].is = entry[r].is
          BY <4>1, <4>2, <4>5 DEF Unjudged
        <4> QED
          BY <3>3, <4>4, <4>5 DEF JudgeEffect
      <3>4. CASE p \in Hands /\ Imports!Stall(p)
        <4>1. hand'[p].at = hand[p].at /\ hand'[p].job = hand[p].job /\ twice' = twice \cup {hand[p].job.kind}
          BY <3>4, StallHands
        <4>2. Parsing(p) /\ p # Imports!Request
          BY <2>2, <3>4, <4>1, JudgeIsParse, ImportBounds DEF ImportType
        <4> QED
          BY <4>1, <4>2 DEF Parsing
      <3> QED
        BY <1>4, <2>2, <3>1, <3>2, <3>3, <3>4, JudgePlaces
    <2> QED
      BY <2>1, <2>2 DEF JudgesFresh
  <1> QED
    BY <1>1, <1>2, <1>3, <1>4, ImportSteps

\* An execution that takes on nothing, or whose job is handed out again, holds no row more.
LEMMA StepHeld ==
  ASSUME ImportType, NEW p \in Actors, OthersSame(p), TakesNothing(p) \/ Requeues(p) \/ Doubles(p)
  PROVE  \A r \in Rows : (InHandling(r)' => InHandling(r)) /\ \A q \in Actors : InPlan(q, r)' => InPlan(q, r)
  <1> SUFFICES ASSUME NEW r \in Rows
               PROVE  (InHandling(r)' => InHandling(r)) /\ \A q \in Actors : InPlan(q, r)' => InPlan(q, r)
    OBVIOUS
  <1>0. \A q \in Actors : q # p => (InChunk(q, r)' <=> InChunk(q, r)) /\ (InPlan(q, r)' <=> InPlan(q, r))
    BY OthersHold
  <1>1. CASE TakesNothing(p)
    BY <1>0, <1>1 DEF TakesNothing, InHandling
  <1>2. CASE Requeues(p)
    <2>1. PICK j \in JobRecs : waiting' = waiting \cup {j} /\ j.rows = hand[p].job.rows
      BY <1>2 DEF Requeues
    <2>2. ~InChunk(p, r)' /\ ~InPlan(p, r)' /\ (r \in j.rows => InChunk(p, r))
      BY <1>2, <2>1, FreeKeeps DEF Requeues, InChunk
    <2> QED
      BY <1>0, <2>1, <2>2 DEF InHandling
  <1>3. CASE Doubles(p)
    <2>1. /\ waiting' = waiting \cup {hand[p].job} /\ hand'[p].job = hand[p].job
          /\ hand'[p].at = hand[p].at /\ hand'[p].todo = hand[p].todo /\ hand'[p].plan = hand[p].plan
          /\ hand'[p].row = hand[p].row
      BY <1>3, StallHands DEF Doubles
    <2>2. /\ InChunk(p, r)' <=> InChunk(p, r)
          /\ InPlan(p, r)' <=> InPlan(p, r)
          /\ r \in hand[p].job.rows => InChunk(p, r)
      BY <2>1 DEF InChunk, InPlan
    <2> QED
      BY <1>0, <2>1, <2>2 DEF InHandling
  <1> QED
    BY <1>1, <1>2, <1>3

\* A parse that marks its rows plans them, and holds none.
LEMMA MarkHeld ==
  ASSUME ImportType, NEW p \in Actors, Imports!MarkValid(p)
  PROVE  \A r \in Rows : /\ InHandling(r)' => InHandling(r)
                         /\ InPlan(p, r)' => r \in hand[p].clean
                         /\ \A q \in Actors : q # p => (InPlan(q, r)' <=> InPlan(q, r))
  <1> SUFFICES ASSUME NEW r \in Rows
               PROVE  /\ InHandling(r)' => InHandling(r)
                      /\ InPlan(p, r)' => r \in hand[p].clean
                      /\ \A q \in Actors : q # p => (InPlan(q, r)' <=> InPlan(q, r))
    OBVIOUS
  <1>0. OthersSame(p) /\ waiting' = waiting
    BY MarkHands DEF OthersSame
  <1>1. hand[p].clean \subseteq Rows
    BY HandFields DEF ImportType, ImportHands
  <1>2. InPlan(p, r)' => r \in hand[p].clean
    BY <1>1, MarkHands, ChunksSplit DEF InPlan
  <1>3. hand'[p].at \notin ChunkPlaces /\ hand'[p].at \notin Imports!RowSteps /\ hand'[p].job = hand[p].job
    BY MarkHands DEF ChunkPlaces, Imports!RowSteps
  <1>4. InChunk(p, r)' => InChunk(p, r)
    BY <1>3 DEF InChunk
  <1>5. \A q \in Actors : q # p => (InChunk(q, r)' <=> InChunk(q, r)) /\ (InPlan(q, r)' <=> InPlan(q, r))
    BY <1>0, OthersHold
  <1> QED
    BY <1>0, <1>2, <1>4, <1>5 DEF InHandling

\* A parse that hands out a chunk has it no longer in its plan.
LEMMA DispatchHeld ==
  ASSUME ImportType, NEW p \in Actors, OthersSame(p), NEW c \in SUBSET Rows, DispatchEffect(p, c)
  PROVE  \A r \in Rows : /\ InHandling(r)' => InHandling(r) \/ r \in c
                         /\ r \in c => InPlan(p, r) /\ ~InPlan(p, r)'
                         /\ \A q \in Actors : InPlan(q, r)' => InPlan(q, r)
  <1> SUFFICES ASSUME NEW r \in Rows
               PROVE  /\ InHandling(r)' => InHandling(r) \/ r \in c
                      /\ r \in c => InPlan(p, r) /\ ~InPlan(p, r)'
                      /\ \A q \in Actors : InPlan(q, r)' => InPlan(q, r)
    OBVIOUS
  <1>0. \A q \in Actors : q # p => (InChunk(q, r)' <=> InChunk(q, r)) /\ (InPlan(q, r)' <=> InPlan(q, r))
    BY OthersHold
  <1>1. /\ c \in hand[p].plan /\ hand'[p].plan = hand[p].plan \ {c} /\ hand'[p].job = hand[p].job
        /\ hand'[p].todo \subseteq c /\ hand'[p].at \notin Imports!RowSteps
    BY DEF DispatchEffect, Imports!RowSteps
  <1>2. \A d \in hand[p].plan : d # c => c \cap d = {}
    BY <1>1 DEF ImportType, ImportHands, HandOk
  <1>3. r \in c => InPlan(p, r) /\ ~InPlan(p, r)'
    BY <1>1, <1>2 DEF InPlan
  <1>4. (InPlan(p, r)' => InPlan(p, r)) /\ (InChunk(p, r)' => InChunk(p, r) \/ r \in c)
    BY <1>1 DEF InPlan, InChunk
  <1>5. \A j \in waiting' : j \in waiting \/ j.rows = c
    BY QueuedAdds, JobRecords DEF DispatchEffect
  <1> QED
    BY <1>0, <1>3, <1>4, <1>5 DEF InHandling

\* What a worker takes was held.
LEMMA TakeHeld ==
  ASSUME ImportType, NEW w \in Hands, NEW j \in waiting, Imports!Take(w, j)
  PROVE  \A r \in Rows : (InHandling(r)' => InHandling(r)) /\ \A q \in Actors : InPlan(q, r)' => InPlan(q, r)
  <1> SUFFICES ASSUME NEW r \in Rows
               PROVE  (InHandling(r)' => InHandling(r)) /\ \A q \in Actors : InPlan(q, r)' => InPlan(q, r)
    OBVIOUS
  <1>0. w \in Actors /\ OthersSame(w) /\ waiting' \subseteq waiting
    BY ImportBounds, TakeHands DEF OthersSame
  <1>1. \A q \in Actors : q # w => (InChunk(q, r)' <=> InChunk(q, r)) /\ (InPlan(q, r)' <=> InPlan(q, r))
    BY <1>0, OthersHold
  <1>2. /\ hand'[w].job = j /\ hand'[w].todo = j.rows /\ hand'[w].plan = {}
        /\ hand'[w].at \in {"parse", "chunk", "commit"}
    BY TakeHands
  <1>3. (InChunk(w, r)' => r \in j.rows) /\ ~InPlan(w, r)'
    BY <1>2 DEF InChunk, InPlan, Imports!RowSteps
  <1> QED
    BY <1>0, <1>1, <1>3 DEF InHandling

\* As long as no parse runs beside another, nobody holds what one is to judge, or to hand out.
LEMMA ApartStays ==
  ASSUME ImportType, Quiet, OneParse, Imports!Next, "parse" \notin twice'
  PROVE  FreshApart' /\ PlanApart'
  <1>0. /\ "parse" \notin twice /\ ParseAlone /\ JudgesFresh /\ FreshApart /\ PlanApart /\ ImportType'
        /\ Unjudged' \subseteq Unjudged /\ Unjudged \subseteq Rows
    BY TwiceGrows, RowsGrow DEF OneParse, RowGrows, Unjudged
  <1>1. ASSUME \A r \in Rows : (InHandling(r)' => InHandling(r)) /\ \A q \in Actors : InPlan(q, r)' => InPlan(q, r)
        PROVE  FreshApart' /\ PlanApart'
    BY <1>0, <1>1 DEF FreshApart, PlanApart
  <1>2. CASE Imports!Post
    <2>1. \A r \in Rows : ~InHandling(r)' /\ \A q \in Actors : ~InPlan(q, r)'
      BY <1>2, PostAlone DEF InHandling
    <2> QED
      BY <1>1, <2>1
  <1>3. CASE ElsewhereEffect
    <2>1. \A r : (InHandling(r)' <=> InHandling(r)) /\ \A q : InPlan(q, r)' <=> InPlan(q, r)
      BY <1>3 DEF ElsewhereEffect, InHandling, InChunk, InPlan
    <2> QED
      BY <1>1, <2>1
  <1>4. ASSUME NEW w \in Hands, NEW j \in waiting, Imports!Take(w, j) PROVE FreshApart' /\ PlanApart'
    BY <1>1, <1>4, TakeHeld
  <1>5. ASSUME NEW p \in Actors, StepOf(p), OthersSame(p) PROVE FreshApart' /\ PlanApart'
    <2>1. CASE TakesNothing(p) \/ Requeues(p) \/ Doubles(p)
      BY <1>1, <1>5, <2>1, StepHeld
    <2>2. CASE Imports!MarkValid(p)
      <3>1. /\ hand[p].clean \subseteq Unjudged
            /\ \A r \in hand[p].clean : r \notin Unjudged'
        BY <1>0, <2>2, MarkHands DEF JudgesFresh, Unjudged
      <3>2. \A q \in Actors : \A r \in Rows : InPlan(q, r)' => InPlan(q, r) \/ r \in hand[p].clean
        BY <2>2, MarkHeld
      <3>3. \A r \in Rows : InHandling(r)' => InHandling(r)
        BY <2>2, MarkHeld
      <3>4. FreshApart'
        BY <1>0, <3>1, <3>2, <3>3 DEF FreshApart
      <3>5. PlanApart'
        BY <1>0, <3>1, <3>2, <3>3 DEF FreshApart, PlanApart
      <3> QED
        BY <3>4, <3>5
    <2>3. ASSUME NEW c \in SUBSET Rows, DispatchEffect(p, c) PROVE FreshApart' /\ PlanApart'
      <3>1. Parsing(p)
        BY <2>3, JudgeIsParse DEF DispatchEffect, ImportType
      <3>2. /\ \A r \in Rows : InHandling(r)' => InHandling(r) \/ r \in c
            /\ \A r \in c : InPlan(p, r) /\ ~InPlan(p, r)'
            /\ \A r \in Rows : \A q \in Actors : InPlan(q, r)' => InPlan(q, r)
        BY <1>5, <2>3, DispatchHeld
      <3>3. ASSUME NEW q \in Actors, NEW r \in c, InPlan(q, r) PROVE q = p
        <4>1. Parsing(q)
          BY <3>3, JudgeIsParse DEF InPlan, ImportType
        <4> QED
          BY <1>0, <3>1, <4>1 DEF ParseAlone
      <3>4. FreshApart'
        BY <1>0, <3>2 DEF FreshApart
      <3>5. PlanApart'
        BY <1>0, <3>2, <3>3 DEF PlanApart
      <3> QED
        BY <3>4, <3>5
    <2> QED
      BY <1>0, <1>5, <2>1, <2>2, <2>3, StepSorts
  <1> QED
    BY <1>2, <1>3, <1>4, <1>5, ImportSteps

\* As long as no parse runs beside another, the one there is shares its rows with nobody.
LEMMA ParseStaysOne ==
  ASSUME ImportType, Quiet, OneParse, Imports!Next
  PROVE  OneParse'
  <1>1. ASSUME "parse" \notin twice' PROVE ParseAlone' /\ JudgesFresh' /\ FreshApart' /\ PlanApart'
    BY <1>1, AloneStays, JudgesStay, ApartStays
  <1> QED
    BY <1>1 DEF OneParse

\* As long as nothing runs twice, a row is in one chunk.
LEMMA ChunksStay ==
  ASSUME ImportType, Quiet, OneParse, OneChunk, Imports!Next, {"parse", "chunk"} \cap twice' = {}
  PROVE  ChunkAlone'
  <1>0. /\ "parse" \notin twice' /\ {"parse", "chunk"} \cap twice = {} /\ ChunkAlone /\ PlanApart
        /\ ImportType'
    BY TwiceGrows, RowsGrow DEF OneParse, OneChunk
  <1>1. CASE Imports!Post
    BY <1>0, <1>1, PostAlone DEF ChunkAlone
  <1>2. CASE ElsewhereEffect
    BY <1>0, <1>2 DEF ElsewhereEffect, ChunkAlone, InChunk
  <1>3. ASSUME NEW w \in Hands, NEW j \in waiting, Imports!Take(w, j) PROVE ChunkAlone'
    <2>1. w \in Actors /\ OthersSame(w) /\ waiting' = waiting \ {j}
      BY <1>3, ImportBounds, TakeHands DEF OthersSame
    <2>2. \A r \in Rows : \A q \in Actors : q # w => (InChunk(q, r)' <=> InChunk(q, r))
      BY <2>1, OthersHold
    <2>3. /\ hand'[w].job = j /\ hand'[w].todo = j.rows /\ hand'[w].at \in {"parse", "chunk", "commit"}
      BY <1>3, TakeHands
    <2>4. \A r \in Rows : InChunk(w, r)' => r \in j.rows
      BY <2>3 DEF InChunk, Imports!RowSteps
    <2> QED
      BY <1>0, <2>1, <2>2, <2>4 DEF ChunkAlone
  <1>4. ASSUME NEW p \in Actors, StepOf(p), OthersSame(p) PROVE ChunkAlone'
    <2>0. \A r \in Rows : \A q \in Actors : q # p => (InChunk(q, r)' <=> InChunk(q, r))
      BY <1>4, OthersHold
    <2>1. CASE TakesNothing(p)
      <3>1. \A r \in Rows : \A j \in waiting' : r \in j.rows => j \in waiting
        BY <2>1 DEF TakesNothing
      <3>2. \A r \in Rows : \A q \in Actors : InChunk(q, r)' => InChunk(q, r)
        BY <2>0, <2>1 DEF TakesNothing
      <3> QED
        BY <1>0, <3>1, <3>2 DEF ChunkAlone
    <2>2. CASE Requeues(p)
      <3>1. PICK j \in JobRecs : waiting' = waiting \cup {j} /\ j.rows = hand[p].job.rows
        BY <2>2 DEF Requeues
      <3>2. \A r \in Rows : ~InChunk(p, r)' /\ (r \in j.rows => InChunk(p, r))
        BY <2>2, <3>1, FreeKeeps DEF Requeues, InChunk
      <3> QED
        BY <1>0, <2>0, <3>1, <3>2 DEF ChunkAlone
    <2>3. CASE Doubles(p)
      BY <1>0, <2>3, StallHands DEF Doubles
    <2>4. CASE Imports!MarkValid(p)
      <3>1. waiting' = waiting /\ hand'[p].at = "dispatch" /\ hand'[p].job = hand[p].job
        BY <2>4, MarkHands
      <3>2. \A r \in Rows : InChunk(p, r)' => InChunk(p, r)
        BY <3>1 DEF InChunk, ChunkPlaces, Imports!RowSteps
      <3> QED
        BY <1>0, <2>0, <3>1, <3>2 DEF ChunkAlone
    <2>5. ASSUME NEW c \in SUBSET Rows, DispatchEffect(p, c) PROVE ChunkAlone'
      <3> DEFINE k == Imports!Job("chunk", c)
      <3>0. k.rows = c
        BY JobRecords
      <3>1. \A r \in c : ~InHandling(r)
        BY <1>0, <1>4, <2>5, DispatchHeld DEF PlanApart
      <3>2. CASE p = Imports!Request
        <4>1. /\ waiting' = waiting /\ hand'[p].todo = c /\ hand'[p].at = "chunk"
              /\ hand'[p].job = hand[p].job
          BY <2>5, <3>2 DEF DispatchEffect
        <4>2. \A r \in Rows : InChunk(p, r)' => InChunk(p, r) \/ r \in c
          BY <4>1 DEF InChunk, Imports!RowSteps
        <4> QED
          BY <1>0, <2>0, <3>1, <4>1, <4>2 DEF ChunkAlone, InHandling
      <3>3. CASE p # Imports!Request
        <4>1. /\ hand'[p].todo = {} /\ hand'[p].at = "dispatch" /\ hand'[p].job = hand[p].job
              /\ waiting' \subseteq waiting \cup {k}
          BY <2>5, <3>3, QueuedAdds DEF DispatchEffect
        <4> HIDE DEF k
        <4>2. \A r \in Rows : InChunk(p, r)' => InChunk(p, r)
          BY <4>1 DEF InChunk, ChunkPlaces, Imports!RowSteps
        <4>3. \A r \in Rows : \A q \in Actors : InChunk(q, r)' => InChunk(q, r)
          BY <2>0, <4>2
        <4>4. \A r \in Rows : r \in k.rows => (\A j \in waiting : r \notin j.rows) /\ \A q \in Actors : ~InChunk(q, r)
          BY <3>0, <3>1 DEF InHandling
        <4> QED
          BY <1>0, <4>1, <4>3, <4>4 DEF ChunkAlone
      <3> QED
        BY <3>2, <3>3
    <2> QED
      BY <1>0, <1>4, <2>1, <2>2, <2>3, <2>4, <2>5, StepSorts
  <1> QED
    BY <1>1, <1>2, <1>3, <1>4, ImportSteps

\* How an execution comes to a row's step.
LEMMA RowPlaces ==
  ASSUME ImportType, NEW p \in Actors, StepOf(p), hand'[p].at \in Imports!RowSteps
  PROVE  \/ RowEffect(p) /\ RowProgress(p)
         \/ \E r \in Rows : NextEffect(p, r)
         \/ p \in Hands /\ Imports!Stall(p)
  <1> USE DEF Imports!RowSteps
  <1>1. CASE CommitEffect(p)
    <2>1. PICK h \in HandRecs : /\ HandOk(p, h) /\ hand' = [hand EXCEPT ![p] = h]
                                /\ h.at \in {"idle", "parsed", "dispatch"} \cup CommitPlaces
      BY <1>1 DEF CommitEffect
    <2>2. hand'[p] = h
      BY <2>1, HandMoves DEF ImportType
    <2> QED
      BY <2>1, <2>2 DEF CommitPlaces
  <1>2. CASE AbandonEffect(p)
    BY <1>2, FreeIsOk DEF AbandonEffect
  <1>3. CASE Imports!Parse(p) \/ Imports!ReadLeads(p) \/ Imports!MarkValid(p)
    BY <1>3, ParseHands, LeadHands, MarkHands
  <1>4. CASE \E r \in Rows : JudgeEffect(p, r)
    BY <1>4 DEF JudgeEffect
  <1>5. CASE \E c \in SUBSET Rows : DispatchEffect(p, c)
    BY <1>5 DEF DispatchEffect
  <1>6. CASE \E mine \in SUBSET Rows : ReadEffect(p, mine)
    BY <1>6, FreeIsOk DEF ReadEffect
  <1> QED
    BY <1>1, <1>2, <1>3, <1>4, <1>5, <1>6 DEF StepOf

\* As long as nothing runs twice, an item is made and noted by the execution that looked for it.
LEMMA ItemsStay ==
  ASSUME ImportType, Quiet, OneChunk, Imports!Next, {"parse", "chunk"} \cap twice' = {}
  PROVE  ItemOnce'
  <1> SUFFICES ASSUME target' = "pool", NEW r \in Rows
               PROVE  /\ out'[r].made <= 1 /\ out'[r].noted <= 1
                      /\ \A q \in Actors : hand'[q].at = "create" /\ hand'[q].row = r => out'[r].made = 0
                      /\ \A q \in Actors : hand'[q].at = "note" /\ hand'[q].row = r => out'[r].noted = 0
    BY DEF ItemOnce
  <1>0. /\ target = "pool" /\ ChunkAlone /\ ItemOnce
        /\ out[r].made <= 1 /\ out[r].noted <= 1 /\ out[r].made \in Nat /\ out[r].noted \in Nat
        /\ \A q \in Actors : hand[q].at = "create" /\ hand[q].row = r => out[r].made = 0
        /\ \A q \in Actors : hand[q].at = "note" /\ hand[q].row = r => out[r].noted = 0
    BY TwiceGrows, RowsGrow DEF OneChunk, ItemOnce, ImportType, ImportData, OutRecs
  <1>1. CASE Imports!Post
    BY <1>0, <1>1, PostHands, FreeIsOk
  <1>2. CASE ElsewhereEffect
    BY <1>0, <1>2 DEF ElsewhereEffect
  <1>3. ASSUME NEW w \in Hands, NEW j \in waiting, Imports!Take(w, j)
        PROVE  /\ out'[r].made <= 1 /\ out'[r].noted <= 1
               /\ \A q \in Actors : hand'[q].at = "create" /\ hand'[q].row = r => out'[r].made = 0
               /\ \A q \in Actors : hand'[q].at = "note" /\ hand'[q].row = r => out'[r].noted = 0
    <2>1. out' = out /\ \A q \in Actors : q # w => hand'[q] = hand[q]
      BY <1>3, TakeHands
    <2>2. hand'[w].at \notin {"create", "note"}
      BY <1>3, TakeHands
    <2> QED
      BY <1>0, <2>1, <2>2
  <1>4. ASSUME NEW p \in Actors, StepOf(p), OthersSame(p)
        PROVE  /\ out'[r].made <= 1 /\ out'[r].noted <= 1
               /\ \A q \in Actors : hand'[q].at = "create" /\ hand'[q].row = r => out'[r].made = 0
               /\ \A q \in Actors : hand'[q].at = "note" /\ hand'[q].row = r => out'[r].noted = 0
    <2>0. OutBy(p, r)
      BY <1>4, RowsAreMade
    <2>1. out'[r].made <= 1 /\ out'[r].noted <= 1
      BY <1>0, <2>0 DEF OutBy
    <2>2. ASSUME NEW q \in Actors, q # p, hand[q].at \in Imports!RowSteps, hand[q].row = r,
                 hand[p].at \in Imports!RowSteps
          PROVE  hand[p].row # r
      <3>1. InChunk(q, r) /\ (hand[p].row = r => InChunk(p, r))
        BY <2>2 DEF InChunk
      <3> QED
        BY <1>0, <2>2, <3>1 DEF ChunkAlone
    <2>3. ASSUME NEW q \in Actors, q # p, hand'[q].row = r
          PROVE  /\ hand'[q].at = "create" => out'[r].made = 0
                 /\ hand'[q].at = "note" => out'[r].noted = 0
      <3>1. hand'[q] = hand[q]
        BY <1>4, <2>3 DEF OthersSame
      <3> QED
        BY <1>0, <2>0, <2>2, <2>3, <3>1 DEF OutBy, Imports!RowSteps
    <2>4. ASSUME hand'[p].row = r, hand'[p].at \in {"create", "note"}
          PROVE  /\ hand'[p].at = "create" => out'[r].made = 0
                 /\ hand'[p].at = "note" => out'[r].noted = 0
      <3>1. CASE RowEffect(p) /\ RowProgress(p)
        <4>1. hand[p].row = r
          BY <2>4, <3>1, RowHands
        <4> QED
          BY <1>0, <2>4, <3>1, <4>1 DEF RowProgress, RowSame
      <3>2. CASE \E s \in Rows : NextEffect(p, s)
        BY <1>0, <2>4, <3>2 DEF NextEffect
      <3>3. CASE p \in Hands /\ Imports!Stall(p)
        BY <1>0, <2>4, <3>3, StallHands
      <3> QED
        BY <1>4, <2>4, <3>1, <3>2, <3>3, RowPlaces DEF Imports!RowSteps
    <2> QED
      BY <2>1, <2>3, <2>4
  <1> QED
    BY <1>1, <1>2, <1>3, <1>4, ImportSteps

\* As long as nothing runs twice, nothing is written twice.
LEMMA ChunkStaysOne ==
  ASSUME ImportType, Quiet, OneParse, OneChunk, Imports!Next
  PROVE  OneChunk'
  <1>1. ASSUME {"parse", "chunk"} \cap twice' = {} PROVE ChunkAlone' /\ ItemOnce'
    BY <1>1, ChunksStay, ItemsStay
  <1> QED
    BY <1>1 DEF OneChunk

\* Rows in flight land, and none takes off: a parse marks valid only what nobody has judged.
LEMMA FlightsLand ==
  ASSUME ImportType, Quiet, OneParse, Imports!Next, "parse" \notin twice'
  PROVE  Imports!InFlight' \subseteq Imports!InFlight
  <1>0. JudgesFresh
    BY TwiceGrows DEF OneParse
  <1>1. \A r : r \in Imports!InFlight <=> r \in Rows /\ entry[r].is \in {"pending", "valid"}
    BY DEF Imports!InFlight, Rows
  <1>2. \A r : r \in Imports!InFlight' <=> r \in Rows /\ entry'[r].is \in {"pending", "valid"}
    BY DEF Imports!InFlight, Rows
  <1>3. CASE entry' = entry
    BY <1>1, <1>2, <1>3
  <1>4. ASSUME NEW p \in Actors, StepOf(p) PROVE Imports!InFlight' \subseteq Imports!InFlight
    <2>1. CASE RowEffect(p)
      BY <1>1, <1>2, <2>1 DEF RowEffect, RowSame
    <2>2. CASE hand[p].at = "judge" /\ Imports!MarkValid(p)
      <3>1. hand[p].clean \subseteq Unjudged
        BY <1>0, <2>2 DEF JudgesFresh
      <3> QED
        BY <1>1, <1>2, <2>2, <3>1, MarkHands DEF RowSame, Unjudged
    <2>3. ASSUME NEW r \in Rows, JudgeEffect(p, r) PROVE Imports!InFlight' \subseteq Imports!InFlight
      BY <1>1, <1>2, <2>3 DEF JudgeEffect, RowSame
    <2> QED
      BY <1>3, <1>4, <2>1, <2>2, <2>3, EntryMoves
  <1>5. CASE Imports!Post \/ ElsewhereEffect
    BY <1>3, <1>5, PostHands DEF ElsewhereEffect
  <1>6. ASSUME NEW w \in Hands, NEW j \in waiting, Imports!Take(w, j) PROVE entry' = entry
    BY <1>6, TakeHands
  <1> QED
    BY <1>3, <1>4, <1>5, <1>6, ImportSteps

\* How a batch comes to be committed, and a commit to its last write.
LEMMA Closings ==
  ASSUME ImportType, NEW p \in Actors, StepOf(p)
  PROVE  /\ batch' = "committed" => batch = "committed" \/ hand[p].at = "closing"
         /\ hand'[p].at = "closing" => hand[p].at = "closing" \/ Imports!InFlight = {}
  <1>1. CASE RowEffect(p)
    BY <1>1, RowHands DEF RowEffect, Imports!RowSteps
  <1>2. CASE CommitEffect(p)
    <2>1. PICK h \in HandRecs : /\ HandOk(p, h) /\ hand' = [hand EXCEPT ![p] = h]
                                /\ h.at = "closing" => Imports!InFlight = {}
      BY <1>2 DEF CommitEffect
    <2>2. hand'[p] = h
      BY <2>1, HandMoves DEF ImportType
    <2> QED
      BY <1>2, <2>1, <2>2 DEF CommitEffect
  <1>3. CASE AbandonEffect(p)
    BY <1>3, FreeIsOk DEF AbandonEffect
  <1>4. CASE Imports!Parse(p) \/ Imports!ReadLeads(p) \/ Imports!MarkValid(p)
    BY <1>4, ParseHands, LeadHands, MarkHands
  <1>5. CASE \E r \in Rows : JudgeEffect(p, r)
    BY <1>5 DEF JudgeEffect
  <1>6. CASE \E c \in SUBSET Rows : DispatchEffect(p, c)
    BY <1>6 DEF DispatchEffect
  <1>7. CASE \E mine \in SUBSET Rows : ReadEffect(p, mine)
    BY <1>7, FreeIsOk DEF ReadEffect
  <1>8. CASE \E r \in Rows : NextEffect(p, r)
    BY <1>8 DEF NextEffect
  <1>9. CASE p \in Hands /\ Imports!Stall(p)
    BY <1>9, StallHands
  <1> QED
    BY <1>1, <1>2, <1>3, <1>4, <1>5, <1>6, <1>7, <1>8, <1>9 DEF StepOf

\* A batch is committed behind the last row in flight, and stays so.
LEMMA CommittedStays ==
  ASSUME ImportType, Quiet, OneParse, CommittedBehind, Imports!Next
  PROVE  CommittedBehind'
  <1> SUFFICES ASSUME "parse" \notin twice'
               PROVE  /\ batch' = "committed" => Imports!InFlight' = {}
                      /\ \A q \in Actors : hand'[q].at = "closing" => Imports!InFlight' = {}
    BY DEF CommittedBehind
  <1>0. /\ Imports!InFlight' \subseteq Imports!InFlight
        /\ batch = "committed" => Imports!InFlight = {}
        /\ \A q \in Actors : hand[q].at = "closing" => Imports!InFlight = {}
    BY FlightsLand, TwiceGrows DEF CommittedBehind
  <1>1. CASE Imports!Post
    BY <1>0, <1>1, PostHands, FreeIsOk
  <1>2. CASE ElsewhereEffect
    BY <1>0, <1>2 DEF ElsewhereEffect
  <1>3. ASSUME NEW w \in Hands, NEW j \in waiting, Imports!Take(w, j)
        PROVE  /\ batch' = "committed" => Imports!InFlight' = {}
               /\ \A q \in Actors : hand'[q].at = "closing" => Imports!InFlight' = {}
    <2>1. batch' = batch /\ \A q \in Actors : q # w => hand'[q] = hand[q]
      BY <1>3, TakeHands
    <2>2. hand'[w].at # "closing"
      BY <1>3, TakeHands
    <2> QED
      BY <1>0, <2>1, <2>2
  <1>4. ASSUME NEW p \in Actors, StepOf(p), OthersSame(p)
        PROVE  /\ batch' = "committed" => Imports!InFlight' = {}
               /\ \A q \in Actors : hand'[q].at = "closing" => Imports!InFlight' = {}
    BY <1>0, <1>4, Closings DEF OthersSame
  <1> QED
    BY <1>1, <1>2, <1>3, <1>4, ImportSteps

\* The rows that jobs and executions hold come from plans, and those of plans from a parse.
LEMMA RowsHeld ==
  ASSUME ImportType, Imports!Next
  PROVE  \A r \in Rows : /\ InHandling(r)' => InHandling(r) \/ \E q \in Actors : InPlan(q, r)
                         /\ \A q \in Actors : InPlan(q, r)' => InPlan(q, r) \/ r \in hand[q].clean
  <1> SUFFICES ASSUME NEW r \in Rows
               PROVE  /\ InHandling(r)' => InHandling(r) \/ \E q \in Actors : InPlan(q, r)
                      /\ \A q \in Actors : InPlan(q, r)' => InPlan(q, r) \/ r \in hand[q].clean
    OBVIOUS
  <1>1. CASE Imports!Post
    <2> DEFINE R == Imports!Request
               k == Imports!Job("parse", {})
    <2>0. R \in Actors /\ OthersSame(R)
      BY <1>1, ImportBounds, PostHands DEF OthersSame
    <2>1. k.rows = {} /\ waiting' \subseteq waiting \cup {k}
      BY <1>1, JobRecords, QueuedAdds, PostHands
    <2> HIDE DEF k
    <2>2. (InChunk(R, r)' => InChunk(R, r)) /\ (InPlan(R, r)' => InPlan(R, r))
      <3>1. CASE hand'[R] = Imports!Free
        BY <2>0, <3>1, FreeKeeps
      <3>2. CASE hand'[R] = [hand[R] EXCEPT !.at = "parse"]
        <4>1. /\ hand'[R].at = "parse" /\ hand'[R].job = hand[R].job /\ hand'[R].plan = hand[R].plan
          BY <2>0, <3>2 DEF ImportType, ImportHands, HandRecs
        <4> QED
          BY <4>1 DEF InChunk, InPlan, ChunkPlaces, Imports!RowSteps
      <3> QED
        BY <1>1, <3>1, <3>2, PostHands
    <2>3. \A q \in Actors : q # R => (InChunk(q, r)' <=> InChunk(q, r)) /\ (InPlan(q, r)' <=> InPlan(q, r))
      BY <2>0, OthersHold
    <2> QED
      BY <2>1, <2>2, <2>3 DEF InHandling
  <1>2. CASE ElsewhereEffect
    BY <1>2 DEF ElsewhereEffect, InHandling, InChunk, InPlan
  <1>3. ASSUME NEW w \in Hands, NEW j \in waiting, Imports!Take(w, j)
        PROVE  (InHandling(r)' => InHandling(r)) /\ \A q \in Actors : InPlan(q, r)' => InPlan(q, r)
    BY <1>3, TakeHeld
  <1>4. ASSUME NEW p \in Actors, StepOf(p), OthersSame(p)
        PROVE  /\ InHandling(r)' => InHandling(r) \/ \E q \in Actors : InPlan(q, r)
               /\ \A q \in Actors : InPlan(q, r)' => InPlan(q, r) \/ r \in hand[q].clean
    <2>1. CASE TakesNothing(p) \/ Requeues(p) \/ Doubles(p)
      BY <1>4, <2>1, StepHeld
    <2>2. CASE Imports!MarkValid(p)
      BY <1>4, <2>2, MarkHeld
    <2>3. ASSUME NEW c \in SUBSET Rows, DispatchEffect(p, c)
          PROVE  /\ InHandling(r)' => InHandling(r) \/ \E q \in Actors : InPlan(q, r)
                 /\ \A q \in Actors : InPlan(q, r)' => InPlan(q, r)
      BY <1>4, <2>3, DispatchHeld
    <2>4. ImportType'
      BY ImportSteps
    <2> QED
      BY <1>4, <2>1, <2>2, <2>3, <2>4, StepSorts
  <1> QED
    BY <1>1, <1>2, <1>3, <1>4, ImportSteps

\* What a step makes of the links, the matches and the rows judged clean.
LEMMA StepChooses ==
  ASSUME ImportType, ImportType', Chosen, RowSoFar, NEW p \in Actors, StepOf(p), OthersSame(p),
         \A r \in Rows : RowGrows(r) /\ (Updates(r)' <=> Updates(r)), policy' = policy
  PROVE  /\ \A r \in Rows : entry'[r].linked => out'[r].made > 0 \/ Updates(r)
         /\ hand'[p].at = "judge" =>
              /\ {r \in Rows : entry'[r].kind = "known"} \subseteq hand'[p].match
              /\ \A r \in hand'[p].match : entry'[r].kind = "known" \/ out'[r].made > 0
         /\ \A r \in hand'[p].clean : ~Updates(r)
         /\ \A r \in hand'[p].linked : entry'[r].linked
  <1>0. /\ HandOk(p, hand'[p]) /\ hand'[p] \in HandRecs /\ hand[p] \in HandRecs
        /\ HandOk(p, hand[p])
        /\ hand[p].match \subseteq Rows /\ hand[p].clean \subseteq Rows /\ hand[p].linked \subseteq Rows
        /\ hand[p].todo \subseteq Rows
    BY HandFields DEF ImportType, ImportHands
  <1>g. \A r \in Rows : /\ out[r].made \in Nat /\ out'[r].made \in Nat /\ out[r].made <= out'[r].made
                        /\ entry'[r].kind = entry[r].kind /\ (entry[r].linked => entry'[r].linked)
    BY DEF RowGrows, ImportType, ImportData, OutRecs
  <1>c. /\ \A r \in Rows : entry[r].linked => out[r].made > 0 \/ Updates(r)
        /\ hand[p].at = "judge" =>
              /\ {r \in Rows : entry[r].kind = "known"} \subseteq hand[p].match
              /\ \A r \in hand[p].match : entry[r].kind = "known" \/ out[r].made > 0
        /\ \A r \in hand[p].clean : ~Updates(r)
        /\ \A r \in hand[p].linked : entry[r].linked
    BY <1>0 DEF Chosen
  <1>1. ASSUME NEW r \in Rows, entry'[r].linked PROVE out'[r].made > 0 \/ Updates(r)
    <2>1. CASE entry' = entry
      BY <1>1, <1>c, <1>g, <2>1
    <2>2. CASE RowEffect(p) /\ RowProgress(p)
      <3>1. CASE r # hand[p].row
        BY <1>1, <1>c, <1>g, <2>2, <3>1 DEF RowEffect, RowSame
      <3>2. CASE r = hand[p].row /\ hand[p].at = "mark"
        BY <1>g, <3>2 DEF RowSoFar
      <3>3. CASE r = hand[p].row /\ hand[p].at # "mark"
        <4>1. entry'[r].linked => entry[r].linked
          BY <2>2, <3>3 DEF RowProgress, RowSame
        <4> QED
          BY <1>1, <1>c, <1>g, <4>1
      <3> QED
        BY <3>1, <3>2, <3>3
    <2>3. CASE Imports!MarkValid(p)
      <3>1. entry[r].linked
        BY <1>1, <2>3, MarkHands DEF RowSame
      <3> QED
        BY <1>c, <1>g, <3>1
    <2>4. ASSUME NEW s \in Rows, JudgeEffect(p, s) PROVE out'[r].made > 0 \/ Updates(r)
      <3>1. CASE entry[r].linked
        BY <1>c, <1>g, <3>1
      <3>2. CASE ~entry[r].linked
        <4>1. r = s
          BY <1>1, <2>4, <3>2 DEF JudgeEffect, RowSame
        <4>2. policy = "update" /\ r \in hand[p].match /\ hand[p].at = "judge"
          BY <1>1, <2>4, <3>2, <4>1 DEF JudgeEffect
        <4> QED
          BY <1>c, <1>g, <4>2 DEF Updates
      <3> QED
        BY <3>1, <3>2
    <2> QED
      BY <2>1, <2>2, <2>3, <2>4, EntryMoves
  <1>2. ASSUME hand'[p].at = "judge"
        PROVE  /\ {r \in Rows : entry'[r].kind = "known"} \subseteq hand'[p].match
               /\ \A r \in hand'[p].match : entry'[r].kind = "known" \/ out'[r].made > 0
               /\ \A r \in hand'[p].clean : ~Updates(r)
    <2>1. CASE Imports!Parse(p)
      BY <1>2, <2>1, ParseHands
    <2>2. CASE Imports!ReadLeads(p)
      <3>1. /\ hand'[p].match = {r \in Rows : entry[r].kind = "known" \/ out[r].made > 0}
            /\ hand'[p].clean = {}
        BY <2>2, LeadHands
      <3> QED
        BY <1>g, <3>1
    <2>3. ASSUME NEW s \in Rows, JudgeEffect(p, s)
          PROVE  /\ {r \in Rows : entry'[r].kind = "known"} \subseteq hand'[p].match
                 /\ \A r \in hand'[p].match : entry'[r].kind = "known" \/ out'[r].made > 0
                 /\ \A r \in hand'[p].clean : ~Updates(r)
      <3>1. hand[p].at = "judge" /\ hand'[p].match = hand[p].match
        BY <2>3 DEF JudgeEffect
      <3>2. \A r \in hand'[p].clean : r \in hand[p].clean \/ (r = s /\ (r \in hand[p].match => ~Updates(r)))
        BY <2>3 DEF JudgeEffect
      <3>3. s \notin hand[p].match => ~Updates(s)
        BY <1>c, <3>1 DEF Updates
      <3> QED
        BY <1>0, <1>c, <1>g, <3>1, <3>2, <3>3
    <2>4. CASE p \in Hands /\ Imports!Stall(p)
      BY <1>0, <1>2, <1>c, <1>g, <2>4, StallHands
    <2> QED
      BY <1>2, <2>1, <2>2, <2>3, <2>4, JudgePlaces
  <1>3. \A r \in hand'[p].clean : ~Updates(r)
    BY <1>0, <1>2 DEF HandOk
  <1>4. ASSUME NEW r \in hand'[p].linked PROVE entry'[r].linked
    <2>1. CASE r \in hand[p].linked
      BY <1>0, <1>c, <1>g, <2>1
    <2>2. CASE RowEffect(p)
      BY <1>4, <2>1, <2>2, RowHands
    <2>3. CASE CommitEffect(p)
      <3>1. PICK h \in HandRecs : HandOk(p, h) /\ hand' = [hand EXCEPT ![p] = h] /\ h.linked = {}
        BY <2>3 DEF CommitEffect
      <3>2. hand'[p] = h
        BY <3>1, HandMoves DEF ImportType
      <3> QED
        BY <1>4, <3>1, <3>2
    <2>4. CASE AbandonEffect(p)
      BY <1>4, <2>4, FreeIsOk DEF AbandonEffect
    <2>5. CASE Imports!Parse(p) \/ Imports!ReadLeads(p) \/ Imports!MarkValid(p)
      BY <1>4, <2>5, ParseHands, LeadHands, MarkHands
    <2>6. CASE \E s \in Rows : JudgeEffect(p, s)
      BY <1>4, <2>6 DEF JudgeEffect
    <2>7. CASE \E c \in SUBSET Rows : DispatchEffect(p, c)
      BY <1>4, <2>7 DEF DispatchEffect
    <2>8. ASSUME NEW mine \in SUBSET Rows, ReadEffect(p, mine) PROVE entry'[r].linked
      BY <1>4, <1>g, <2>8, FreeIsOk DEF ReadEffect
    <2>9. CASE \E s \in Rows : NextEffect(p, s)
      BY <1>4, <2>1, <2>9 DEF NextEffect
    <2>10. CASE p \in Hands /\ Imports!Stall(p)
      BY <1>4, <2>1, <2>10, StallHands
    <2> QED
      BY <2>2, <2>3, <2>4, <2>5, <2>6, <2>7, <2>8, <2>9, <2>10 DEF StepOf
  <1> QED
    BY <1>1, <1>2, <1>3, <1>4

\* A row is linked to what was made of it, and no chunk has a row the import merges.
LEMMA ChosenStays ==
  ASSUME ImportType, Chosen, RowSoFar, Imports!Next
  PROVE  Chosen'
  <1>0. /\ ImportType' /\ policy' = policy
        /\ \A r \in Rows : RowGrows(r) /\ (Updates(r)' <=> Updates(r))
    BY RowsGrow DEF RowGrows, Updates
  <1>g. \A r \in Rows : /\ out[r].made \in Nat /\ out'[r].made \in Nat /\ out[r].made <= out'[r].made
                        /\ entry'[r].kind = entry[r].kind /\ (entry[r].linked => entry'[r].linked)
    BY <1>0 DEF RowGrows, ImportType, ImportData, OutRecs
  <1>c. /\ \A r \in Rows : InHandling(r)' => ~Updates(r)
        /\ \A q \in Actors : \A r \in Rows : InPlan(q, r)' => ~Updates(r)
    BY RowsHeld DEF Chosen
  <1> DEFINE L == \A r \in Rows : entry'[r].linked => out'[r].made > 0 \/ Updates(r)
             P(q) == /\ hand'[q].at = "judge" =>
                          /\ {r \in Rows : entry'[r].kind = "known"} \subseteq hand'[q].match
                          /\ \A r \in hand'[q].match : entry'[r].kind = "known" \/ out'[r].made > 0
                     /\ \A r \in hand'[q].clean : ~Updates(r)
                     /\ \A r \in hand'[q].linked : entry'[r].linked
  <1>s. ASSUME L, \A q \in Actors : P(q) PROVE Chosen'
    BY <1>0, <1>c, <1>s DEF Chosen
  <1>h. ASSUME NEW q \in Actors, hand'[q] = hand[q] PROVE P(q)
    <2>1. /\ hand[q].match \subseteq Rows /\ hand[q].clean \subseteq Rows /\ hand[q].linked \subseteq Rows
      BY HandFields DEF ImportType, ImportHands
    <2>2. /\ hand[q].at = "judge" =>
               /\ {r \in Rows : entry[r].kind = "known"} \subseteq hand[q].match
               /\ \A r \in hand[q].match : entry[r].kind = "known" \/ out[r].made > 0
          /\ \A r \in hand[q].clean : ~Updates(r)
          /\ \A r \in hand[q].linked : entry[r].linked
      BY <2>1 DEF Chosen
    <2> QED
      BY <1>g, <1>h, <2>1, <2>2
  <1>l. entry' = entry => L
    BY <1>g DEF Chosen
  <1> HIDE DEF L, P
  <1>1. CASE Imports!Post
    <2>1. P(Imports!Request)
      <3>1. /\ hand'[Imports!Request].at # "judge"
            /\ \A r \in hand'[Imports!Request].clean : ~Updates(r)
            /\ hand'[Imports!Request].linked = {}
        <4>1. hand[Imports!Request] \in HandRecs /\ HandOk(Imports!Request, hand[Imports!Request])
          BY ImportBounds DEF ImportType, ImportHands
        <4>2. hand[Imports!Request].linked = {} /\ hand[Imports!Request].clean = {}
          BY <1>1, <4>1, PostHands DEF HandOk, ChunkPlaces, Imports!RowSteps
        <4>3. CASE hand'[Imports!Request] = [hand[Imports!Request] EXCEPT !.at = "parse"]
          BY <4>1, <4>2, <4>3 DEF HandRecs
        <4> QED
          BY <1>1, <4>3, PostHands, FreeIsOk
      <3> QED
        BY <3>1 DEF P
    <2> QED
      BY <1>1, <1>h, <1>l, <1>s, <2>1, PostHands
  <1>2. CASE ElsewhereEffect
    BY <1>2, <1>h, <1>l, <1>s DEF ElsewhereEffect
  <1>3. ASSUME NEW w \in Hands, NEW j \in waiting, Imports!Take(w, j) PROVE Chosen'
    <2>1. P(w)
      BY <1>3, TakeHands DEF P
    <2> QED
      BY <1>3, <1>h, <1>l, <1>s, <2>1, TakeHands
  <1>4. ASSUME NEW p \in Actors, StepOf(p), OthersSame(p) PROVE Chosen'
    <2>1. L /\ P(p)
      BY <1>0, <1>4, StepChooses DEF L, P
    <2> QED
      BY <1>4, <1>h, <1>s, <2>1 DEF OthersSame
  <1> QED
    BY <1>1, <1>2, <1>3, <1>4, ImportSteps

\* What a row has been given when its execution is at a step, it keeps.
LEMMA RowsProgress ==
  ASSUME ImportType, Chosen, RowSoFar, Imports!Next
  PROVE  RowSoFar'
  <1> DEFINE G(h, r, o, t) ==
               /\ h.at \in {"mark"} \cup Late => o[r].made > 0
               /\ h.at \in {"enrol", "task", "schedule"} => o[r].noted > 0 /\ t = "lead"
               /\ h.at \in {"task", "schedule"} => o[r].cadence # "none"
               /\ h.at = "schedule" => o[r].task
               /\ h.at = "noted" => t = "pool"
               /\ h.at = "find" => t = "pool"
  <1>0. /\ ImportType' /\ target' = target /\ target \in {"lead", "pool"}
        /\ \A r \in Rows : RowGrows(r)
    BY RowsGrow DEF ImportType, ImportData, Imports!Targets
  <1>g. \A r \in Rows : /\ out[r].made \in Nat /\ out'[r].made \in Nat /\ out[r].made <= out'[r].made
                        /\ out[r].noted \in Nat /\ out'[r].noted \in Nat
                        /\ out[r].noted > 0 => out'[r].noted > 0
                        /\ out[r].cadence # "none" => out'[r].cadence # "none"
                        /\ out[r].task => out'[r].task
    BY <1>0 DEF RowGrows, ImportType, ImportData, OutRecs
  <1>c. \A q \in Actors : \A r \in Rows : hand[q].row = r => G(hand[q], r, out, target)
    BY DEF RowSoFar
  <1>s. ASSUME \A q \in Actors : \A r \in Rows : hand'[q].row = r => G(hand'[q], r, out', target)
        PROVE  RowSoFar'
    BY <1>0, <1>s DEF RowSoFar
  <1>h. ASSUME NEW q \in Actors, NEW r \in Rows, hand'[q].at = hand[q].at,
               hand'[q].row = hand[q].row, hand'[q].row = r
        PROVE  G(hand'[q], r, out', target)
    <2>1. G(hand[q], r, out, target)
      BY <1>c, <1>h
    <2> QED
      BY <1>g, <1>h, <2>1 DEF Late
  <1>n. ASSUME NEW q \in Actors, NEW r \in Rows, hand'[q].at \notin Imports!RowSteps
        PROVE  G(hand'[q], r, out', target)
    BY <1>n DEF Imports!RowSteps, Late
  <1>1. CASE Imports!Post
    <2>1. hand'[Imports!Request].at \notin Imports!RowSteps
      BY <1>1, PostHands, FreeIsOk DEF Imports!RowSteps
    <2> QED
      BY <1>1, <1>h, <1>n, <1>s, <2>1, PostHands
  <1>2. CASE ElsewhereEffect
    BY <1>2, <1>h, <1>s DEF ElsewhereEffect
  <1>3. ASSUME NEW w \in Hands, NEW j \in waiting, Imports!Take(w, j) PROVE RowSoFar'
    <2>1. hand'[w].at \notin Imports!RowSteps
      BY <1>3, TakeHands DEF Imports!RowSteps
    <2> QED
      BY <1>3, <1>h, <1>n, <1>s, <2>1, TakeHands
  <1>4. ASSUME NEW p \in Actors, StepOf(p), OthersSame(p) PROVE RowSoFar'
    <2> SUFFICES ASSUME NEW r \in Rows, hand'[p].row = r, hand'[p].at \in Imports!RowSteps
                 PROVE  G(hand'[p], r, out', target)
      BY <1>4, <1>h, <1>n, <1>s DEF OthersSame
    <2>1. CASE RowEffect(p) /\ RowProgress(p)
      <3>1. hand[p].row = r /\ G(hand[p], r, out, target)
        BY <1>c, <2>1, RowHands
      <3>2. /\ \/ /\ hand[p].at = "find" /\ out[r].made > 0 /\ hand'[p].at = "mark"
               \/ hand'[p].at = "create"
               \/ hand[p].at = "create" /\ hand'[p].at = "mark" /\ (out'[r].made = out[r].made + 1 \/ out'[r].made > 0)
               \/ hand[p].at = "mark" /\ hand'[p].at = IF target = "lead" THEN "note" ELSE "noted"
               \/ hand[p].at = "noted" /\ hand'[p].at = "note"
               \/ hand[p].at = "note" /\ target = "lead" /\ out'[r].noted = 1 /\ hand'[p].at = "enrol"
               \/ hand[p].at = "enrol" /\ hand'[p].at = "task" /\ out'[r].cadence # "none"
               \/ hand[p].at = "task" /\ hand'[p].at = "schedule" /\ out'[r].task
        BY <2>1, <3>1 DEF RowProgress, Imports!RowSteps, RowSame
      <3> QED
        BY <1>0, <1>g, <3>1, <3>2 DEF Late
    <2>2. ASSUME NEW s \in Rows, NextEffect(p, s) PROVE G(hand'[p], r, out', target)
      <3>1. s = r /\ hand[p].at = "next" /\ r \in hand[p].todo
        BY <2>2 DEF NextEffect
      <3>2. CASE hand'[p].at = "mark" /\ r \in hand[p].linked
        <4>1. InChunk(p, r)
          BY <3>1 DEF InChunk, ChunkPlaces
        <4>2. ~Updates(r) /\ entry[r].linked
          BY <3>2, <4>1 DEF Chosen, InHandling
        <4>3. out[r].made > 0
          BY <4>2 DEF Chosen
        <4> QED
          BY <1>g, <3>2, <4>3 DEF Late
      <3>3. CASE hand'[p].at = "create"
        BY <3>3 DEF Late
      <3>4. CASE hand'[p].at = "find" /\ target = "pool"
        BY <3>4 DEF Late
      <3> QED
        BY <2>2, <3>1, <3>2, <3>3, <3>4 DEF NextEffect
    <2>3. CASE p \in Hands /\ Imports!Stall(p)
      BY <1>h, <2>3, StallHands
    <2> QED
      BY <1>4, <2>1, <2>2, <2>3, RowPlaces
  <1> QED
    BY <1>1, <1>2, <1>3, <1>4, ImportSteps

\* No step of an execution takes a job from the queue, and what was dropped stays so.
LEMMA JobsStay ==
  ASSUME ImportType, NEW p \in Actors, StepOf(p)
  PROVE  waiting \subseteq waiting' /\ (~dropped' => ~dropped)
  <1>1. CASE RowEffect(p)
    BY <1>1 DEF RowEffect
  <1>2. CASE CommitEffect(p)
    BY <1>2 DEF CommitEffect
  <1>3. CASE AbandonEffect(p)
    BY <1>3 DEF AbandonEffect
  <1>4. CASE Imports!Parse(p) \/ Imports!ReadLeads(p) \/ Imports!MarkValid(p)
    BY <1>4, ParseHands, LeadHands, MarkHands
  <1>5. CASE \E r \in Rows : JudgeEffect(p, r)
    BY <1>5 DEF JudgeEffect
  <1>6. CASE \E c \in SUBSET Rows : DispatchEffect(p, c)
    BY <1>6, QueuedAdds DEF DispatchEffect
  <1>7. CASE \E mine \in SUBSET Rows : ReadEffect(p, mine)
    BY <1>7 DEF ReadEffect
  <1>8. CASE \E r \in Rows : NextEffect(p, r)
    BY <1>8 DEF NextEffect
  <1>9. CASE p \in Hands /\ Imports!Stall(p)
    BY <1>9, StallHands
  <1> QED
    BY <1>1, <1>2, <1>3, <1>4, <1>5, <1>6, <1>7, <1>8, <1>9 DEF StepOf

\* The rows of an execution whose job is handed out again are in that job.
LEMMA AgainHasRows ==
  ASSUME ImportType, NEW p \in Actors, ~hand[p].lost, NEW r \in Rows,
         \/ hand[p].at \in ChunkPlaces /\ r \in hand[p].todo
         \/ hand[p].at \in Imports!RowSteps /\ hand[p].row = r,
         (AbandonEffect(p) /\ ~dropped') \/ (p \in Hands /\ Imports!Stall(p))
  PROVE  \E j \in waiting' : r \in j.rows
  <1>0. HandOk(p, hand[p]) /\ Imports!RowSteps \subseteq ChunkPlaces
    BY DEF ImportType, ImportHands, ChunkPlaces
  <1>1. p # Imports!Request /\ \E j \in waiting' : j.rows = hand[p].job.rows
    <2>1. CASE AbandonEffect(p) /\ ~dropped'
      BY <2>1 DEF AbandonEffect
    <2>2. CASE p \in Hands /\ Imports!Stall(p)
      BY <2>2, StallHands, ImportBounds
    <2> QED
      BY <2>1, <2>2
  <1>2. hand[p] # Imports!Free
    BY <1>0, FreeIsOk DEF ChunkPlaces, Imports!RowSteps
  <1>3. r \in hand[p].job.rows
    BY <1>0, <1>1, <1>2 DEF HandOk
  <1> QED
    BY <1>1, <1>3

\* An execution that has a row at hand, to make it.
AtRow(p, r) == hand[p].at \in {"find", "create", "mark"} /\ hand[p].row = r /\ ~hand[p].lost

\* The row an execution is still to write stays before it, goes to a job, or is at hand.
LEMMA WriteStays ==
  ASSUME ImportType, ImportType', OneParse, "parse" \notin twice, "parse" \notin twice', ~dropped',
         NEW p \in Actors, StepOf(p), OthersSame(p), NEW r \in Rows,
         entry[r].is \in {"valid", "imported"},
         ~hand[p].lost, InPlan(p, r) \/ r \in hand[p].todo
  PROVE  ToWrite(r)' \/ AtRow(p, r)'
  <1>0. HandOk(p, hand[p]) /\ hand[p] \in HandRecs
    BY DEF ImportType, ImportHands
  <1>1. hand[p].at \notin {"parse", "leads", "judge"}
    <2>1. hand[p].at \in {"leads", "judge"} => r \notin hand[p].todo
      BY DEF OneParse, JudgesFresh, Unjudged
    <2>2. hand[p].at \in {"parse", "leads", "judge"} => hand[p].plan = {}
      BY <1>0 DEF HandOk, ChunkPlaces, Imports!RowSteps
    <2>3. hand[p].at = "parse" => hand[p].todo = {}
      BY <1>0 DEF HandOk, ChunkPlaces, Imports!RowSteps
    <2> QED
      BY <2>1, <2>2, <2>3 DEF InPlan
  <1>2. r \in hand[p].todo => hand[p].at \in ChunkPlaces
    BY <1>0, <1>1 DEF HandOk
  <1>3. ASSUME hand'[p].lost = hand[p].lost, hand[p].plan \subseteq hand'[p].plan,
               r \in hand[p].todo => r \in hand'[p].todo
        PROVE  ToWrite(r)'
    BY <1>3 DEF ToWrite, InPlan
  <1>4. ASSUME \E j \in waiting' : r \in j.rows PROVE ToWrite(r)'
    BY <1>4 DEF ToWrite
  <1>5. CASE RowEffect(p)
    BY <1>3, <1>5, RowHands
  <1>6. CASE CommitEffect(p)
    <2>1. PICK h \in HandRecs : /\ HandOk(p, h) /\ hand' = [hand EXCEPT ![p] = h] /\ h.plan = hand[p].plan
                                /\ h = Imports!Free \/ h.lost = hand[p].lost
      BY <1>6 DEF CommitEffect
    <2>2. hand'[p] = h
      BY <2>1, HandMoves DEF ImportType
    <2>3. hand[p].todo = {} /\ InPlan(p, r)
      BY <1>6 DEF CommitEffect
    <2> QED
      BY <1>3, <2>1, <2>2, <2>3, FreeIsOk DEF InPlan
  <1>7. CASE AbandonEffect(p)
    <2>1. r \in hand[p].todo
      BY <1>7 DEF AbandonEffect, InPlan
    <2> QED
      BY <1>2, <1>4, <1>7, <2>1, AgainHasRows
  <1>8. CASE Imports!Parse(p) \/ Imports!ReadLeads(p) \/ Imports!MarkValid(p)
    BY <1>1, <1>8, ParseHands, LeadHands, MarkHands
  <1>9. CASE \E s \in Rows : JudgeEffect(p, s)
    BY <1>1, <1>9 DEF JudgeEffect
  <1>10. ASSUME NEW c \in SUBSET Rows, DispatchEffect(p, c) PROVE ToWrite(r)'
    <2>1. /\ hand[p].todo = {} /\ hand'[p].plan = hand[p].plan \ {c} /\ hand'[p].lost = hand[p].lost
      BY <1>10 DEF DispatchEffect
    <2>2. CASE InPlan(p, r)'
      BY <2>1, <2>2 DEF ToWrite
    <2>3. CASE ~InPlan(p, r)'
      <3>1. r \in c
        BY <2>1, <2>3 DEF InPlan
      <3>2. CASE p = Imports!Request
        BY <1>10, <2>1, <3>1, <3>2 DEF DispatchEffect, ToWrite
      <3>3. CASE p # Imports!Request
        <4>1. ~InHandling(r)
          BY <2>1 DEF OneParse, PlanApart
        <4>2. ~Imports!Alive("chunk", c)
          BY <3>1, <4>1, ImportBounds DEF Imports!Alive, InHandling, InChunk
        <4>3. Imports!Job("chunk", c) \in waiting' /\ Imports!Job("chunk", c).rows = c
          BY <1>10, <3>3, <4>2, QueuedAdds, JobRecords DEF DispatchEffect
        <4> QED
          BY <1>4, <3>1, <4>3
      <3> QED
        BY <3>2, <3>3
    <2> QED
      BY <2>2, <2>3
  <1>11. ASSUME NEW mine \in SUBSET Rows, ReadEffect(p, mine) PROVE ToWrite(r)'
    <2>1. /\ r \in hand[p].todo => r \in hand'[p].todo
          /\ hand'[p].plan = hand[p].plan
      BY <1>11 DEF ReadEffect
    <2>2. hand'[p] # Imports!Free
      BY <2>1, FreeIsOk DEF InPlan
    <2>3. hand'[p].lost = hand[p].lost
      BY <1>11, <2>2 DEF ReadEffect
    <2> QED
      BY <1>3, <2>1, <2>3
  <1>12. ASSUME NEW s \in Rows, NextEffect(p, s) PROVE ToWrite(r)' \/ AtRow(p, r)'
    <2>1. CASE r = s
      BY <1>12, <2>1 DEF NextEffect, AtRow
    <2>2. CASE r # s
      BY <1>3, <1>12, <2>2 DEF NextEffect
    <2> QED
      BY <2>1, <2>2
  <1>13. CASE p \in Hands /\ Imports!Stall(p)
    <2>1. hand[p].plan = {}
      <3>1. p # Imports!Request /\ twice' = twice \cup {hand[p].job.kind}
        BY <1>13, StallHands, ImportBounds
      <3> QED
        BY <1>0, <3>1, HandPlaces
    <2> QED
      BY <1>2, <1>4, <1>13, <2>1, AgainHasRows DEF InPlan
  <1> QED
    BY <1>5, <1>6, <1>7, <1>8, <1>9, <1>10, <1>11, <1>12, <1>13 DEF StepOf

\* The row an execution has at hand stays there until it is written, or goes to a job.
LEMMA RowStays ==
  ASSUME ImportType, ImportType', ~dropped', NEW p \in Actors, StepOf(p), OthersSame(p), NEW r \in Rows,
         entry'[r].is = "valid", AtRow(p, r)
  PROVE  ToWrite(r)' \/ AtRow(p, r)'
  <1>0. hand[p].at \in Imports!RowSteps /\ hand[p].at \in {"find", "create", "mark"}
    BY DEF AtRow, Imports!RowSteps
  <1>1. CASE RowEffect(p) /\ RowProgress(p)
    BY <1>0, <1>1, RowHands DEF RowProgress, RowSame, AtRow
  <1>2. CASE CommitEffect(p)
    BY <1>0, <1>2 DEF CommitEffect, CommitPlaces
  <1>3. CASE AbandonEffect(p)
    BY <1>0, <1>3, AgainHasRows DEF AtRow, ToWrite
  <1>4. CASE Imports!Parse(p) \/ Imports!ReadLeads(p) \/ Imports!MarkValid(p)
    BY <1>0, <1>4, ParseHands, LeadHands, MarkHands
  <1>5. CASE \E s \in Rows : JudgeEffect(p, s)
    BY <1>0, <1>5 DEF JudgeEffect
  <1>6. CASE \E c \in SUBSET Rows : DispatchEffect(p, c)
    BY <1>0, <1>6 DEF DispatchEffect
  <1>7. CASE \E mine \in SUBSET Rows : ReadEffect(p, mine)
    BY <1>0, <1>7 DEF ReadEffect
  <1>8. CASE \E s \in Rows : NextEffect(p, s)
    BY <1>0, <1>8 DEF NextEffect
  <1>9. CASE p \in Hands /\ Imports!Stall(p)
    BY <1>0, <1>9, AgainHasRows DEF AtRow, ToWrite
  <1> QED
    BY <1>1, <1>2, <1>3, <1>4, <1>5, <1>6, <1>7, <1>8, <1>9 DEF StepOf

\* The row an execution has half written stays at hand until it is whole, or goes to a job.
LEMMA HalfStays ==
  ASSUME ImportType, ImportType', RowSoFar, ~dropped', NEW p \in Actors, StepOf(p), OthersSame(p),
         NEW r \in Rows, entry'[r].is = "imported", ~Imports!Whole(r)', RowGrows(r),
         target' = target,
         hand[p].at \in Imports!RowSteps, hand[p].row = r
  PROVE  ToWrite(r)' \/ \E q \in Actors : hand'[q].at \in Imports!RowSteps /\ hand'[q].row = r
  <1>0. hand[p].at \in ChunkPlaces /\ target \in {"lead", "pool"}
    BY DEF ChunkPlaces, ImportType, ImportData, Imports!Targets
  <1>1. CASE RowEffect(p) /\ RowProgress(p)
    <2>1. hand'[p].row = r /\ hand'[p].at \in Imports!RowSteps \cup {"next"}
      BY <1>1, RowHands
    <2>2. CASE hand'[p].at = "next"
      <3>1. /\ out[r].made \in Nat /\ out'[r].made \in Nat /\ out[r].made <= out'[r].made
            /\ out[r].noted \in Nat /\ out'[r].noted \in Nat
            /\ out[r].noted > 0 => out'[r].noted > 0
            /\ out[r].cadence # "none" => out'[r].cadence # "none"
            /\ out[r].task => out'[r].task
        BY DEF RowGrows, ImportType, ImportData, OutRecs
      <3>2. \/ hand[p].at = "noted" /\ out[r].noted > 0
            \/ hand[p].at = "note" /\ target # "lead" /\ out'[r].noted = out[r].noted + 1
            \/ hand[p].at = "schedule" /\ out'[r].sched
        BY <1>1, <2>2 DEF RowProgress, RowSame
      <3>3. /\ out[r].made > 0
            /\ hand[p].at = "schedule" => out[r].noted > 0 /\ out[r].cadence # "none" /\ out[r].task
            /\ hand[p].at = "noted" => target = "pool"
        BY <3>2 DEF RowSoFar, Late
      <3>4. Imports!Whole(r)'
        BY <3>1, <3>2, <3>3 DEF Imports!Whole
      <3> QED
        BY <3>4
    <2> QED
      BY <2>1, <2>2
  <1>2. CASE CommitEffect(p)
    BY <1>2 DEF CommitEffect, CommitPlaces, Imports!RowSteps
  <1>3. CASE AbandonEffect(p)
    <2>1. CASE ~hand[p].lost
      BY <1>3, <2>1, AgainHasRows DEF ToWrite
    <2>2. CASE hand[p].lost
      <3>1. Imports!StillDue(r, p) /\ waiting \subseteq waiting'
        BY <1>3, <2>2 DEF AbandonEffect
      <3>2. CASE \E j \in waiting : r \in j.rows
        BY <3>1, <3>2 DEF ToWrite
      <3>3. ASSUME NEW q \in Actors \ {p}, r \in hand[q].todo, ~hand[q].lost PROVE ToWrite(r)'
        BY <3>3 DEF OthersSame, ToWrite
      <3>4. ASSUME NEW q \in Actors \ {p}, hand[q].at \in Imports!RowSteps, hand[q].row = r
            PROVE  hand'[q].at \in Imports!RowSteps /\ hand'[q].row = r
        BY <3>4 DEF OthersSame
      <3> QED
        BY <3>1, <3>2, <3>3, <3>4 DEF Imports!StillDue, Actors
    <2> QED
      BY <2>1, <2>2
  <1>4. CASE Imports!Parse(p) \/ Imports!ReadLeads(p) \/ Imports!MarkValid(p)
    BY <1>4, ParseHands, LeadHands, MarkHands DEF Imports!RowSteps
  <1>5. CASE \E s \in Rows : JudgeEffect(p, s)
    BY <1>5 DEF JudgeEffect, Imports!RowSteps
  <1>6. CASE \E c \in SUBSET Rows : DispatchEffect(p, c)
    BY <1>6 DEF DispatchEffect, Imports!RowSteps
  <1>7. CASE \E mine \in SUBSET Rows : ReadEffect(p, mine)
    BY <1>7 DEF ReadEffect, Imports!RowSteps
  <1>8. CASE \E s \in Rows : NextEffect(p, s)
    BY <1>8 DEF NextEffect, Imports!RowSteps
  <1>9. CASE p \in Hands /\ Imports!Stall(p)
    BY <1>9, StallHands
  <1> QED
    BY <1>1, <1>2, <1>3, <1>4, <1>5, <1>6, <1>7, <1>8, <1>9 DEF StepOf

\* A row that is not judged stays before a parse, or goes back to the parse's job.
LEMMA JudgingStays ==
  ASSUME ImportType, ImportType', OneParse, "parse" \notin twice, ~dropped', NEW p \in Actors,
         StepOf(p), OthersSame(p), NEW r \in Rows,
         entry'[r].is = "pending", RowGrows(r),
         \/ hand[p].at \in {"post", "parse"}
         \/ hand[p].at \in {"leads", "judge"} /\ r \in hand[p].todo \cup hand[p].clean
  PROVE  ToJudge(r)'
  <1>0. /\ r \in Unjudged /\ hand[p].at \in {"parse", "leads", "judge"}
        /\ HandOk(p, hand[p]) /\ hand[p] \in HandRecs
    BY StepPlaces DEF RowGrows, Unjudged, ImportType, ImportHands
  <1>p. Parsing(p)
    BY <1>0, HandPlaces DEF Parsing, ParsePlaces
  <1>1. CASE RowEffect(p)
    BY <1>0, <1>1 DEF RowEffect, Imports!RowSteps
  <1>2. CASE CommitEffect(p)
    BY <1>0, <1>2 DEF CommitEffect, CommitPlaces
  <1>3. CASE AbandonEffect(p)
    <2>1. ~hand[p].lost
      BY <1>0, <1>p, ImportBounds DEF OneParse, ParseAlone, HandOk
    <2>2. \E j \in waiting' : j.kind = hand[p].job.kind
      BY <1>3, <2>1 DEF AbandonEffect
    <2>3. p # Imports!Request
      BY <1>3, <2>1 DEF AbandonEffect
    <2> QED
      BY <1>p, <2>2, <2>3 DEF Parsing, ToJudge
  <1>4. CASE Imports!Parse(p)
    BY <1>0, <1>4, ParseHands DEF ToJudge
  <1>5. CASE Imports!ReadLeads(p)
    BY <1>0, <1>5, LeadHands DEF ToJudge
  <1>6. CASE Imports!MarkValid(p)
    <2>1. r \in hand[p].clean
      BY <1>6, MarkHands
    <2> QED
      BY <1>6, <2>1, MarkHands
  <1>7. ASSUME NEW s \in Rows, JudgeEffect(p, s) PROVE ToJudge(r)'
    <2>1. r \in hand'[p].todo \cup hand'[p].clean
      BY <1>7 DEF JudgeEffect
    <2> QED
      BY <1>7, <2>1 DEF JudgeEffect, ToJudge
  <1>8. CASE \E c \in SUBSET Rows : DispatchEffect(p, c)
    BY <1>0, <1>8 DEF DispatchEffect
  <1>9. CASE \E mine \in SUBSET Rows : ReadEffect(p, mine)
    BY <1>0, <1>9 DEF ReadEffect
  <1>10. CASE \E s \in Rows : NextEffect(p, s)
    BY <1>0, <1>10 DEF NextEffect
  <1>11. CASE p \in Hands /\ Imports!Stall(p)
    BY <1>0, <1>11, StallHands DEF ToJudge
  <1> QED
    BY <1>1, <1>2, <1>3, <1>4, <1>5, <1>6, <1>7, <1>8, <1>9, <1>10, <1>11 DEF StepOf

\* A row's record is written by the parse that judges it, or by the execution that has it.
LEMMA RecordMoves ==
  ASSUME ImportType, ImportType', OneParse, "parse" \notin twice, NEW p \in Actors, StepOf(p), NEW r \in Rows
  PROVE  /\ entry'[r].is = "valid" => entry[r].is = "valid" \/ (Imports!MarkValid(p) /\ r \in hand[p].clean)
         /\ entry'[r].is = "imported" =>
              \/ entry[r].is = "imported"
              \/ hand'[p].at \in Imports!RowSteps /\ hand'[p].row = r
  <1>1. CASE entry' = entry
    BY <1>1
  <1>2. CASE RowEffect(p) /\ RowProgress(p)
    <2>1. CASE r # hand[p].row
      BY <1>2, <2>1 DEF RowEffect, RowSame
    <2>2. CASE r = hand[p].row
      <3>1. hand'[p].row = r
        BY <1>2, <2>2, RowHands
      <3>2. \/ entry'[r].is = "error" \/ entry'[r] = entry[r]
            \/ entry'[r].is = "imported" /\ hand'[p].at \in {"note", "noted"}
        BY <1>2, <2>2 DEF RowProgress, RowSame
      <3> QED
        BY <3>1, <3>2 DEF Imports!RowSteps
    <2> QED
      BY <2>1, <2>2
  <1>3. CASE Imports!MarkValid(p)
    BY <1>3, MarkHands DEF RowSame
  <1>4. ASSUME NEW s \in Rows, JudgeEffect(p, s)
        PROVE  entry'[r].is = entry[r].is \/ entry'[r].is \in {"error", "updated"}
    BY <1>4 DEF JudgeEffect, RowSame
  <1> QED
    BY <1>1, <1>2, <1>3, <1>4, EntryMoves

\* Where a row is carried, by what it is.
CarriedRow(r) ==
    /\ entry[r].is = "pending" => ToJudge(r)
    /\ entry[r].is = "valid" => ToWrite(r) \/ \E p \in Actors : AtRow(p, r)
    /\ entry[r].is = "imported" /\ ~Imports!Whole(r) =>
         ToWrite(r) \/ \E p \in Actors : hand[p].at \in Imports!RowSteps /\ hand[p].row = r

\* A step of one execution forgets no row.
LEMMA StepCarries ==
  ASSUME ImportType, ImportType', OneParse, RowSoFar, "parse" \notin twice, "parse" \notin twice', ~dropped',
         NEW p \in Actors, StepOf(p), OthersSame(p), NEW r \in Rows, RowGrows(r), CarriedRow(r),
         target' = target
  PROVE  CarriedRow(r)'
  <1>0. waiting \subseteq waiting' /\ HandOk(p, hand[p])
    BY JobsStay DEF ImportType, ImportHands
  <1>1. ASSUME entry'[r].is = "pending" PROVE ToJudge(r)'
    <2>1. ToJudge(r)
      BY <1>1 DEF RowGrows, CarriedRow
    <2>2. CASE \E j \in waiting : j.kind = "parse"
      BY <1>0, <2>2 DEF ToJudge
    <2>3. ASSUME NEW q \in Actors,
                 \/ hand[q].at \in {"post", "parse"}
                 \/ hand[q].at \in {"leads", "judge"} /\ r \in hand[q].todo \cup hand[q].clean
          PROVE  ToJudge(r)'
      <3>1. CASE q = p
        BY <1>1, <2>3, <3>1, JudgingStays
      <3>2. CASE q # p
        BY <2>3, <3>2 DEF OthersSame, ToJudge
      <3> QED
        BY <3>1, <3>2
    <2> QED
      BY <2>1, <2>2, <2>3 DEF ToJudge
  <1>2. ASSUME ToWrite(r), entry[r].is \in {"valid", "imported"}
        PROVE  ToWrite(r)' \/ AtRow(p, r)'
    <2>1. CASE \E j \in waiting : r \in j.rows
      BY <1>0, <2>1 DEF ToWrite
    <2>2. ASSUME NEW q \in Actors, ~hand[q].lost, InPlan(q, r) \/ r \in hand[q].todo
          PROVE  ToWrite(r)' \/ AtRow(p, r)'
      <3>1. CASE q = p
        BY <1>2, <2>2, <3>1, WriteStays
      <3>2. CASE q # p
        BY <2>2, <3>2 DEF OthersSame, ToWrite, InPlan
      <3> QED
        BY <3>1, <3>2
    <2> QED
      BY <1>2, <2>1, <2>2 DEF ToWrite
  <1>3. ASSUME entry'[r].is = "valid" PROVE ToWrite(r)' \/ \E q \in Actors : AtRow(q, r)'
    <2>1. CASE Imports!MarkValid(p) /\ r \in hand[p].clean
      <3>1. hand[p].clean \subseteq Rows
        BY HandFields DEF ImportType, ImportHands
      <3>2. InPlan(p, r)'
        BY <2>1, <3>1, ChunksSplit, MarkHands DEF InPlan
      <3>3. Parsing(p)
        BY <2>1, MarkHands, JudgeIsParse DEF ImportType
      <3>4. ~hand[p].lost
        BY <1>0, <3>3, ImportBounds DEF OneParse, ParseAlone, HandOk
      <3> QED
        BY <2>1, <3>2, <3>4, MarkHands DEF ToWrite
    <2>2. CASE entry[r].is = "valid" /\ ToWrite(r)
      BY <1>2, <2>2
    <2>3. ASSUME entry[r].is = "valid", NEW q \in Actors, AtRow(q, r)
          PROVE  ToWrite(r)' \/ \E z \in Actors : AtRow(z, r)'
      <3>1. CASE q = p
        BY <1>3, <2>3, <3>1, RowStays
      <3>2. CASE q # p
        BY <2>3, <3>2 DEF OthersSame, AtRow
      <3> QED
        BY <3>1, <3>2
    <2> QED
      BY <1>3, <2>1, <2>2, <2>3, RecordMoves DEF CarriedRow
  <1>4. ASSUME entry'[r].is = "imported", ~Imports!Whole(r)'
        PROVE  ToWrite(r)' \/ \E q \in Actors : hand'[q].at \in Imports!RowSteps /\ hand'[q].row = r
    <2>1. CASE hand'[p].at \in Imports!RowSteps /\ hand'[p].row = r
      BY <2>1
    <2>2. CASE entry[r].is = "imported"
      <3>1. ~Imports!Whole(r)
        <4>1. /\ out[r].made \in Nat /\ out'[r].made \in Nat /\ out[r].made <= out'[r].made
              /\ out[r].noted > 0 => out'[r].noted > 0
              /\ out[r].cadence # "none" => out'[r].cadence # "none"
              /\ out[r].task => out'[r].task
              /\ out[r].sched => out'[r].sched
          BY DEF RowGrows, ImportType, ImportData, OutRecs
        <4> QED
          BY <1>4, <4>1 DEF Imports!Whole
      <3>2. CASE ToWrite(r)
        BY <1>2, <2>2, <3>2 DEF AtRow, Imports!RowSteps
      <3>3. ASSUME NEW q \in Actors, hand[q].at \in Imports!RowSteps, hand[q].row = r
            PROVE  ToWrite(r)' \/ \E z \in Actors : hand'[z].at \in Imports!RowSteps /\ hand'[z].row = r
        <4>1. CASE q = p
          BY <1>4, <3>3, <4>1, HalfStays
        <4>2. CASE q # p
          BY <3>3, <4>2 DEF OthersSame
        <4> QED
          BY <4>1, <4>2
      <3> QED
        BY <2>2, <3>1, <3>2, <3>3 DEF CarriedRow
    <2> QED
      BY <1>4, <2>1, <2>2, RecordMoves
  <1> QED
    BY <1>1, <1>3, <1>4 DEF CarriedRow

\* No step forgets a row, as long as no work is dropped.
LEMMA CarriedStays ==
  ASSUME ImportType, Quiet, OneParse, RowSoFar, Carried, Imports!Next
  PROVE  Carried'
  <1> SUFFICES ASSUME "parse" \notin twice', ~dropped', NEW r \in Rows
               PROVE  CarriedRow(r)'
    BY DEF Carried, CarriedRow, AtRow
  <1>0. "parse" \notin twice /\ ImportType' /\ RowGrows(r) /\ target' = target
    BY TwiceGrows, RowsGrow
  <1>c. ~dropped => CarriedRow(r)
    BY <1>0 DEF Carried, CarriedRow, AtRow
  <1>w. Imports!Whole(r) => Imports!Whole(r)'
    <2>1. /\ out[r].made \in Nat /\ out'[r].made \in Nat /\ out[r].made <= out'[r].made
          /\ out[r].noted > 0 => out'[r].noted > 0
          /\ out[r].cadence # "none" => out'[r].cadence # "none"
          /\ out[r].task => out'[r].task
          /\ out[r].sched => out'[r].sched
      BY <1>0 DEF RowGrows, ImportType, ImportData, OutRecs
    <2> QED
      BY <1>0, <2>1 DEF Imports!Whole
  <1>1. CASE Imports!Post
    <2> DEFINE R == Imports!Request
    <2>1. /\ R \in Actors /\ Actors \ {R} = Hands /\ waiting = {} /\ hand[R].at = "post"
          /\ \A w \in Hands : hand[w] = Imports!Free
          /\ dropped' = dropped /\ entry' = entry /\ out' = out
      BY <1>1, ImportBounds, PostHands DEF Quiet
    <2>2. hand[R].todo = {} /\ hand[R].plan = {} /\ HandOk(R, hand[R])
      BY <2>1 DEF ImportType, ImportHands, HandOk, ChunkPlaces, Imports!RowSteps
    <2>3. ~ToWrite(r) /\ \A q \in Actors : hand[q].at \notin Imports!RowSteps
      BY <2>1, <2>2, FreeIsOk DEF ToWrite, InPlan, Imports!RowSteps
    <2>4. ToJudge(r)'
      <3>1. ~Imports!Alive("parse", {})
        BY <2>1, FreeIsOk DEF Imports!Alive
      <3>2. Imports!Queued("parse", {}) = {Imports!Job("parse", {})}
        BY <2>1, <3>1, QueuedAdds
      <3>3. Imports!Job("parse", {}).kind = "parse"
        BY JobRecords
      <3>4. hand'[R].at = "parse" \/ waiting' = Imports!Queued("parse", {})
        BY <1>1, PostHands
      <3> QED
        BY <2>1, <3>2, <3>3, <3>4 DEF ToJudge
    <2>5. CarriedRow(r)
      BY <1>c, <2>1
    <2>6. entry[r].is # "valid" /\ ~(entry[r].is = "imported" /\ ~Imports!Whole(r))
      BY <2>3, <2>5 DEF CarriedRow, AtRow, Imports!RowSteps
    <2> QED
      BY <1>w, <2>1, <2>4, <2>6 DEF CarriedRow
  <1>2. CASE ElsewhereEffect
    <2>1. UNCHANGED <<entry, waiting, hand, dropped>>
      BY <1>2 DEF ElsewhereEffect
    <2>2. CarriedRow(r)
      BY <1>c, <2>1
    <2>3. /\ ToJudge(r)' <=> ToJudge(r)
          /\ ToWrite(r)' <=> ToWrite(r)
          /\ \A q \in Actors : AtRow(q, r)' <=> AtRow(q, r)
      BY <2>1 DEF ToJudge, ToWrite, InPlan, AtRow
    <2> QED
      BY <1>w, <2>1, <2>2, <2>3 DEF CarriedRow
  <1>3. ASSUME NEW w \in Hands, NEW j \in waiting, Imports!Take(w, j) PROVE CarriedRow(r)'
    <2>1. /\ w \in Actors /\ waiting' = waiting \ {j} /\ hand[w] = Imports!Free
          /\ \A q \in Actors : q # w => hand'[q] = hand[q]
          /\ UNCHANGED <<entry, out, target, dropped>>
          /\ hand'[w].todo = j.rows /\ ~hand'[w].lost
          /\ hand'[w].at = IF j.kind = "again" THEN "commit" ELSE j.kind
      BY <1>3, TakeHands, ImportBounds
    <2>2. CarriedRow(r)
      BY <1>c, <2>1
    <2>3. ToJudge(r) => ToJudge(r)'
      <3>1. CASE \E k \in waiting : k.kind = "parse"
        BY <2>1, <3>1 DEF ToJudge
      <3>2. ASSUME NEW q \in Actors,
                   \/ hand[q].at \in {"post", "parse"}
                   \/ hand[q].at \in {"leads", "judge"} /\ r \in hand[q].todo \cup hand[q].clean
            PROVE  ToJudge(r)'
        <4>1. q # w
          BY <2>1, <3>2, FreeIsOk
        <4> QED
          BY <2>1, <3>2, <4>1 DEF ToJudge
      <3> QED
        BY <3>1, <3>2 DEF ToJudge
    <2>4. ToWrite(r) => ToWrite(r)'
      <3>1. CASE \E k \in waiting : r \in k.rows
        BY <2>1, <3>1 DEF ToWrite
      <3>2. ASSUME NEW q \in Actors, ~hand[q].lost, InPlan(q, r) \/ r \in hand[q].todo
            PROVE  ToWrite(r)'
        <4>1. q # w
          BY <2>1, <3>2, FreeIsOk DEF InPlan
        <4> QED
          BY <2>1, <3>2, <4>1 DEF ToWrite, InPlan
      <3> QED
        BY <3>1, <3>2 DEF ToWrite
    <2>5. \A q \in Actors : hand[q].at \in Imports!RowSteps => hand'[q] = hand[q]
      BY <2>1, FreeIsOk DEF Imports!RowSteps
    <2>6. \A q \in Actors : AtRow(q, r) => AtRow(q, r)'
      BY <2>5 DEF AtRow, Imports!RowSteps
    <2> QED
      BY <1>w, <2>1, <2>2, <2>3, <2>4, <2>5, <2>6 DEF CarriedRow
  <1>4. ASSUME NEW p \in Actors, StepOf(p), OthersSame(p) PROVE CarriedRow(r)'
    <2>1. CarriedRow(r)
      BY <1>4, <1>c, JobsStay
    <2> QED
      BY <1>0, <1>4, <2>1, StepCarries
  <1> QED
    BY <1>1, <1>2, <1>3, <1>4, ImportSteps

\* The import invariant holds when the request has the file.
LEMMA ImportStart == Imports!Init => ImportInv
  <1> SUFFICES ASSUME Imports!Init PROVE ImportInv
    OBVIOUS
  <1> DEFINE posts == [Imports!Free EXCEPT !.at = "post"]
  <1>1. /\ target \in Imports!Targets /\ policy \in Imports!Policies /\ batch = "pending"
        /\ redis \in BOOLEAN /\ waiting = {} /\ dropped = FALSE /\ twice = {} /\ mishaps = 0
    BY DEF Imports!Init
  <1>2. /\ posts \in HandRecs /\ posts.at = "post" /\ posts.job = Imports!Free.job
        /\ posts.lost = Imports!Free.lost /\ posts.todo = {} /\ posts.match = {}
        /\ posts.clean = {} /\ posts.plan = {} /\ posts.linked = {} /\ posts.row = 0
    BY FreeIsOk DEF HandRecs, Imports!Free
  <1> HIDE DEF posts
  <1>3. /\ hand \in [Actors -> HandRecs] /\ hand[Imports!Request] = posts
        /\ \A w \in Hands : hand[w] = Imports!Free
    <2>1. hand = [p \in Actors |-> IF p = Imports!Request THEN posts ELSE Imports!Free]
      BY DEF Imports!Init, Actors, posts
    <2> QED
      BY <1>2, <2>1, ImportBounds, FreeIsOk
  <1>4. ASSUME NEW p \in Actors
        PROVE  /\ hand[p].todo = {} /\ hand[p].match = {} /\ hand[p].clean = {} /\ hand[p].plan = {}
               /\ hand[p].linked = {} /\ hand[p].row = 0 /\ ~hand[p].lost
               /\ hand[p].job.rows = {} /\ hand[p].job.kind = "none"
               /\ IF p = Imports!Request THEN hand[p].at = "post" ELSE hand[p].at = "idle"
    BY <1>2, <1>3, ImportBounds, FreeIsOk
  <1>5. entry \in [Rows -> EntryRecs] /\ \A r \in Rows : entry[r].is = "pending" /\ ~entry[r].linked
    <2>1. entry \in [Rows -> {[kind |-> k, is |-> "pending", linked |-> FALSE, forced |-> FALSE] :
                                k \in Imports!RowKinds}]
      BY DEF Imports!Init, Rows
    <2>2. ASSUME NEW k \in Imports!RowKinds
          PROVE  [kind |-> k, is |-> "pending", linked |-> FALSE, forced |-> FALSE] \in EntryRecs
      BY DEF EntryRecs, Imports!RowStates
    <2>3. ASSUME NEW r \in Rows
          PROVE  entry[r] \in EntryRecs /\ entry[r].is = "pending" /\ ~entry[r].linked
      <3>1. PICK k \in Imports!RowKinds :
              entry[r] = [kind |-> k, is |-> "pending", linked |-> FALSE, forced |-> FALSE]
        BY <2>1
      <3> QED
        BY <2>2, <3>1
    <2> QED
      BY <2>1, <2>3
  <1>6. out \in [Rows -> OutRecs] /\ \A r \in Rows : out[r].made = 0 /\ out[r].noted = 0
    BY DEF Imports!Init, Rows, Imports!Nothing, OutRecs
  <1>7. ImportType
    <2>1. ImportData
      BY <1>1, <1>5, <1>6 DEF ImportData
    <2>2. ImportJobs
      BY <1>1, FS_EmptySet DEF ImportJobs
    <2>3. HandOk(Imports!Request, posts)
      BY <1>2, FreeIsOk, ImportBounds DEF HandOk, ChunkPlaces, Imports!RowSteps
    <2>4. ImportHands
      BY <1>3, <2>3, ImportBounds, FreeIsOk DEF ImportHands
    <2> QED
      BY <2>1, <2>2, <2>4 DEF ImportType
  <1>8. Quiet
    BY <1>1, <1>3 DEF Quiet
  <1>9. ParseSees
    BY <1>4 DEF ParseSees, Seen, ChunkPlaces, CommitPlaces, Imports!RowSteps
  <1>10. LeadOnce
    BY <1>6 DEF LeadOnce
  <1>11. ASSUME NEW r \in Rows PROVE Counted(r)
    <2>1. JobsFor(r) = {}
      BY <1>1 DEF JobsFor
    <2>2. HandsFor(r) \subseteq {Imports!Request}
      BY <1>4 DEF HandsFor, Aims
    <2>3. Cardinality(JobsFor(r)) = 0
      BY <2>1, FS_EmptySet
    <2>4. Cardinality(HandsFor(r)) \in Nat /\ Cardinality(HandsFor(r)) <= 1
      <3>1. IsFiniteSet({Imports!Request}) /\ Cardinality({Imports!Request}) = 1
        BY FS_Singleton
      <3> QED
        BY <2>2, <3>1, Sizes
    <2> QED
      BY <1>1, <1>6, <2>3, <2>4 DEF Counted
  <1>12. OneParse
    <2>1. \A p \in Actors : Parsing(p) => p = Imports!Request
      BY <1>4 DEF Parsing
    <2>2. ParseAlone
      BY <1>1, <2>1, ImportBounds DEF ParseAlone
    <2>3. JudgesFresh
      BY <1>4 DEF JudgesFresh
    <2>4. \A r \in Rows : ~InHandling(r) /\ \A p \in Actors : ~InPlan(p, r)
      BY <1>1, <1>4 DEF InHandling, InChunk, InPlan, Imports!RowSteps
    <2> QED
      BY <2>2, <2>3, <2>4 DEF OneParse, FreshApart, PlanApart, Unjudged
  <1>13. OneChunk
    BY <1>1, <1>4, <1>6 DEF OneChunk, ChunkAlone, InChunk, ItemOnce, ChunkPlaces, Imports!RowSteps
  <1>14. CommittedBehind
    BY <1>1, <1>4 DEF CommittedBehind
  <1>15. Chosen
    BY <1>1, <1>4, <1>5 DEF Chosen, InHandling, InChunk, InPlan, Imports!RowSteps
  <1>16. RowSoFar
    BY <1>4 DEF RowSoFar, Late
  <1>17. Carried
    BY <1>4, <1>5, ImportBounds DEF Carried, ToJudge
  <1> QED
    BY <1>7, <1>8, <1>9, <1>10, <1>11, <1>12, <1>13, <1>14, <1>15, <1>16, <1>17
    DEF ImportInv, WritesCounted

\* Every step of an import keeps it.
LEMMA ImportStep ==
  ASSUME ImportInv, Imports!Next
  PROVE  ImportInv'
  <1>0. /\ ImportType /\ Quiet /\ ParseSees /\ LeadOnce /\ WritesCounted /\ OneParse /\ OneChunk
        /\ CommittedBehind /\ Chosen /\ RowSoFar /\ Carried
    BY DEF ImportInv
  <1>1. ImportType' /\ Quiet' /\ ParseSees'
    BY <1>0, ImportSteps, QuietStays, ParseKeepsSeeing
  <1>2. LeadOnce' /\ WritesCounted'
    BY <1>0, LeadStaysOne, CountStays
  <1>3. OneParse' /\ OneChunk'
    BY <1>0, ParseStaysOne, ChunkStaysOne
  <1>4. CommittedBehind' /\ Chosen'
    BY <1>0, CommittedStays, ChosenStays
  <1>5. RowSoFar' /\ Carried'
    BY <1>0, RowsProgress, CarriedStays
  <1> QED
    BY <1>1, <1>2, <1>3, <1>4, <1>5 DEF ImportInv

\* What does not run stays as it began.
LEMMA ImportRests == ImportInv /\ UNCHANGED imports => ImportInv'
  <1> SUFFICES ASSUME ImportInv, UNCHANGED imports PROVE ImportInv'
    OBVIOUS
  <1>1. UNCHANGED <<target, batch, policy, entry, out, redis, waiting, hand, dropped, twice, mishaps>>
    BY DEF imports
  <1>2. ImportType' /\ Quiet'
    BY <1>1 DEF ImportInv, ImportType, ImportData, ImportJobs, ImportHands, Quiet
  <1>3. ParseSees' /\ LeadOnce'
    BY <1>1 DEF ImportInv, ParseSees, Seen, Unjudged, LeadOnce
  <1>4. WritesCounted'
    BY <1>1 DEF ImportInv, WritesCounted, Counted, JobsFor, HandsFor, Aims
  <1>5. ASSUME NEW r PROVE InHandling(r)' = InHandling(r)
    BY <1>1 DEF InHandling, InChunk
  <1>6. OneParse'
    BY <1>1, <1>5 DEF ImportInv, OneParse, ParseAlone, Parsing, JudgesFresh, FreshApart, PlanApart,
       InPlan, Unjudged
  <1>7. OneChunk'
    BY <1>1 DEF ImportInv, OneChunk, ChunkAlone, InChunk, ItemOnce
  <1>8. CommittedBehind'
    BY <1>1 DEF ImportInv, CommittedBehind, Imports!InFlight
  <1>9. Chosen'
    BY <1>1, <1>5 DEF ImportInv, Chosen, Updates, InPlan
  <1>10. RowSoFar'
    BY <1>1 DEF ImportInv, RowSoFar
  <1>11. Carried'
    BY <1>1 DEF ImportInv, Carried, ToJudge, ToWrite, InPlan, Imports!Whole
  <1> QED
    BY <1>2, <1>3, <1>4, <1>6, <1>7, <1>8, <1>9, <1>10, <1>11 DEF ImportInv

\* The import invariant is one of every behaviour that runs it.
LEMMA ImportInvariant == Spec => []ImportGood
  <1>1. Init => ImportGood
    BY ImportStart DEF Init, ImportGood
  <1>2. ImportGood /\ [Next]_vars => ImportGood'
    BY ImportStep, ImportRests DEF Next, vars, ImportGood
  <1> QED
    BY <1>1, <1>2, PTL DEF Spec

\* Whatever is delivered twice, retried after a crash or run beside the request that fell back
\* to running it, a lead is written once for its row, a forced one once and once more for
\* each fault, and a pool item and its activity once unless two executions of one job overlap.
THEOREM RowsAreWrittenOnce == Spec => []OnePerRow
  <1>1. ImportGood => OnePerRow
    <2> SUFFICES ASSUME ImportInv PROVE Imports!OnePerRow
      BY DEF ImportGood, OnePerRow
    <2>1. target \in {"lead", "pool"} /\ mishaps \in Nat
      BY DEF ImportInv, ImportType, ImportData, Imports!Targets
    <2>2. ASSUME NEW r \in Rows, target = "pool", {"parse", "chunk"} \cap twice = {}
          PROVE  out[r].made <= 1 /\ out[r].noted <= 1
      BY <2>2 DEF ImportInv, OneChunk, ItemOnce
    <2>3. ASSUME NEW r \in Rows PROVE out[r].made <= 1 + mishaps
      <3>1. Counted(r) /\ ImportType
        BY DEF ImportInv, WritesCounted
      <3>2. Cardinality(JobsFor(r)) \in Nat /\ Cardinality(HandsFor(r)) \in Nat
        BY <3>1, WritersFinite
      <3>3. out[r].made \in Nat
        BY <3>1 DEF ImportType, ImportData, OutRecs
      <3> QED
        BY <2>1, <3>1, <3>2, <3>3 DEF Counted
    <2>4. ASSUME NEW r \in Rows, target = "lead", ~entry[r].forced PROVE out[r].made <= 1
      BY <2>4 DEF ImportInv, LeadOnce
    <2> QED
      BY <2>1, <2>2, <2>3, <2>4 DEF Imports!OnePerRow, Rows
  <1> QED
    BY <1>1, ImportInvariant, PTL

\* Where no parse ran beside another: a batch is committed behind its last row in flight; and
\* when nothing is left to run and no work was dropped, every row has its outcome and every
\* imported one its activity, cadence, first task and job.
THEOREM SettlesWhole == Spec => []SettledIsWhole
  <1>1. ImportGood => SettledIsWhole
    <2> SUFFICES ASSUME ImportInv PROVE Imports!SettledIsWhole
      BY DEF ImportGood, SettledIsWhole
    <2>1. ASSUME "parse" \notin twice, batch = "committed" PROVE Imports!InFlight = {}
      BY <2>1 DEF ImportInv, CommittedBehind
    <2>2. ASSUME "parse" \notin twice, ~dropped,
                 \A j \in waiting : j.kind \in {"commit", "again"},
                 \A p \in Actors : hand[p].at \in {"idle", "commit", "barrier", "closing"}
          PROVE  Imports!InFlight = {} /\ \A r \in Rows : entry[r].is = "imported" => Imports!Whole(r)
      <3>1. \A j \in waiting : j.kind # "parse" /\ j.rows = {}
        BY <2>2 DEF ImportInv, ImportType, ImportJobs, JobOk
      <3>2. ASSUME NEW p \in Actors
            PROVE  hand[p].todo = {} /\ hand[p].plan = {} /\ hand[p].at \notin Imports!RowSteps
        <4>1. hand[p].at \in {"idle", "commit", "barrier", "closing"} /\ HandOk(p, hand[p])
          BY <2>2 DEF ImportInv, ImportType, ImportHands
        <4> QED
          BY <4>1 DEF HandOk, ChunkPlaces, Imports!RowSteps
      <3>3. ASSUME NEW r \in Rows PROVE ~ToJudge(r) /\ ~ToWrite(r)
        BY <2>2, <3>1, <3>2 DEF ToJudge, ToWrite, InPlan
      <3>4. ASSUME NEW r \in Rows
            PROVE  /\ entry[r].is \notin {"pending", "valid"}
                   /\ entry[r].is = "imported" => Imports!Whole(r)
        BY <2>2, <3>2, <3>3 DEF ImportInv, Carried, Imports!RowSteps
      <3> QED
        BY <3>4 DEF Imports!InFlight, Rows
    <2> QED
      BY <2>1, <2>2 DEF Imports!SettledIsWhole, Actors, Rows
  <1> QED
    BY <1>1, ImportInvariant, PTL

\* Whatever part a behaviour runs, its rows, jobs, calls, messages, candidates and processes
\* are in states the code knows, and what they claim of each other is so: a call under way has
\* its claimer, a classified message was placed, a turn's row is held from its call to its
\* settlement, a job is active exactly while a worker is at it.
THEOREM PartsAreTyped == Spec => []TypeOK
  <1>1. ResearchInv => Research!TypeOK
    <2> SUFFICES ASSUME ResearchInv PROVE Research!TypeOK
      OBVIOUS
    <2>1. \A r \in Requests : ask[r].at \in {"idle", "reopen", "claim", "enqueue", "undo"}
      BY DEF ResearchInv, RunType, Asks, Ahead
    <2>2. \A w \in Slots : slice[w].kind = "none" <=> slice[w] = Research!NoSlice
      BY DEF ResearchInv, RunType, SliceOk
    <2> QED
      BY <2>1, <2>2 DEF ResearchInv, RunType, Candidates, Research!TypeOK
  <1>2. ImportInv => Imports!TypeOK
    <2> SUFFICES ASSUME ImportInv PROVE Imports!TypeOK
      OBVIOUS
    <2>1. ASSUME NEW r \in Rows
          PROVE  /\ entry[r].is \in Imports!RowStates /\ entry[r].kind \in Imports!RowKinds
                 /\ out[r].made \in Nat /\ out[r].noted \in Nat
                 /\ out[r].cadence \in {"none", "active", "stopped"}
      BY DEF ImportInv, ImportType, ImportData, EntryRecs, OutRecs
    <2>2. ASSUME NEW j \in waiting
          PROVE  /\ j.kind \in {"parse", "chunk", "commit", "again"} /\ j.rows \subseteq Rows
                 /\ j.tries < Imports!Attempts(j.kind)
      BY DEF ImportInv, ImportType, ImportJobs, JobOk, JobRecs
    <2>3. ASSUME NEW p \in Actors
          PROVE  hand[p].todo \cup hand[p].clean \cup hand[p].linked \subseteq Rows
      BY HandFields DEF ImportInv, ImportType, ImportHands
    <2> QED
      BY <2>1, <2>2, <2>3 DEF ImportInv, ImportType, ImportData, Imports!TypeOK, Rows, Actors
  <1>3. /\ ResearchGood => (service = "research" => Research!TypeOK)
        /\ ImportGood => (service = "imports" => Imports!TypeOK)
    BY <1>1, <1>2 DEF ResearchGood, ImportGood
  <1>4. Init => service \in Services
    BY DEF Init
  <1>5. service \in Services /\ [Next]_vars => (service \in Services)'
    BY DEF Next, vars
  <1>6. /\ service \in Services
        /\ service = "jobs" => Jobs!TypeOK
        /\ service = "ai" => Ai!TypeOK
        /\ service = "dialer" => Dialer!TypeOK
        /\ service = "inbox" => Inbox!TypeOK
        /\ service = "research" => Research!TypeOK
        /\ service = "imports" => Imports!TypeOK
        => TypeOK
    BY ServicesAssumption DEF TypeOK
  <1> QED
    BY <1>3, <1>4, <1>5, <1>6, ResearchInvariant, ImportInvariant, JobsAreTyped, DialerIsTyped,
       GatewayIsTyped, InboxIsTyped, PTL DEF Spec
=============================================================================
