---------------------------- MODULE PromptsProofs ----------------------------
(***************************************************************************)
(* Theorems of Prompts, for any processes, versions of the code, requests  *)
(* and contents.                                                           *)
(***************************************************************************)
EXTENDS Prompts, TLAPS

(* An override's content is never Default, and a row about to be updated   *)
(* exists.                                                                 *)
Contents == \A r \in Request : pc[r] \in {"check", "read", "update", "insert"} => asked[r] \in Content
Targets == \A p \in Process : proc[p] = "update" => target[p] \in SystemRows

TypeInv == TypeOK /\ Contents /\ Targets

LEMMA InitType == Init => TypeInv
  BY DEF Init, TypeInv, TypeOK, Contents, Targets, SystemRows

-----------------------------------------------------------------------------
(* What the writing steps do to the rows.                                  *)

LEMMA SeededRows ==
  ASSUME TypeInv, NEW p \in Process, SeedCommit(p)
  PROVE  /\ system' \in [Process -> Content \cup {NoRow}]
         /\ SystemRows \subseteq SystemRows'
         /\ SystemRows' # {}  \/ proc[p] = "keep"
  <1>1. Code[p] \in Content /\ Code[p] # NoRow
    BY CodeAssumption, NoRowAssumption
  <1>2. CASE proc[p] = "insert" /\ system' = [system EXCEPT ![p] = Code[p]]
    BY <1>1, <1>2 DEF TypeInv, TypeOK, SystemRows
  <1>3. CASE proc[p] = "update" /\ system' = [system EXCEPT ![target[p]] = Code[p]]
    <2>1. target[p] \in Process
      BY <1>3 DEF TypeInv, Targets, SystemRows
    <2> QED
      BY <1>1, <1>3, <2>1 DEF TypeInv, TypeOK, SystemRows
  <1>4. CASE proc[p] = "keep" /\ UNCHANGED system
    BY <1>4 DEF TypeInv, TypeOK, SystemRows
  <1> QED
    BY <1>2, <1>3, <1>4 DEF SeedCommit

LEMMA UpdatedRow ==
  ASSUME TypeInv, NEW r \in Request, pc[r] = "update", row[r] \in Overrides,
         override' = [override EXCEPT ![row[r]] = asked[r]]
  PROVE  Overrides' = Overrides /\ override'[row[r]] = asked[r]
  <1>1. asked[r] # NoRow
    BY NoRowAssumption DEF TypeInv, Contents
  <1> QED
    BY <1>1 DEF TypeInv, TypeOK, Overrides

LEMMA InsertedRow ==
  ASSUME TypeInv, NEW r \in Request, InsertOverride(r)
  PROVE  Overrides' = Overrides \cup {r} /\ override'[r] = asked[r]
  <1>1. asked[r] # NoRow
    BY NoRowAssumption DEF TypeInv, Contents, InsertOverride, At
  <1> QED
    BY <1>1 DEF TypeInv, TypeOK, Overrides, InsertOverride

LEMMA DeletedRow ==
  ASSUME TypeInv, NEW r \in Request, DeleteOverride(r)
  PROVE  Overrides' = Overrides \ {row[r]}
  BY DEF TypeInv, TypeOK, Overrides, DeleteOverride

-----------------------------------------------------------------------------
(* Types.                                                                  *)

LEMMA ProcessType ==
  ASSUME TypeInv, NEW p \in Process, ProcessNext(p)
  PROVE  TypeInv'
  <1>1. UNCHANGED <<request, team>>
    BY DEF ProcessNext, SeedRead, SeedCommit, Crash
  <1>2. Contents'
    BY <1>1 DEF Contents, TypeInv, request
  <1>3. CASE SeedRead(p)
    BY <1>1, <1>2, <1>3 DEF SeedRead, TypeInv, TypeOK, Targets, SystemRows, Seeding, request, team
  <1>4. CASE SeedCommit(p)
    <2>1. current' \in Content \cup {NoRow}
      BY <1>4, CodeAssumption DEF SeedCommit
    <2>2. Targets'
      BY <1>4, SeededRows DEF SeedCommit, TypeInv, TypeOK, Targets
    <2> QED
      BY <1>1, <1>2, <1>4, <2>1, <2>2, SeededRows DEF SeedCommit, TypeInv, TypeOK, request, team
  <1>5. CASE Crash(p)
    BY <1>1, <1>2, <1>5 DEF Crash, TypeInv, TypeOK, Targets, SystemRows, request, team
  <1> QED
    BY <1>3, <1>4, <1>5 DEF ProcessNext

(* A request's step changes no default.                                    *)
LEMMA Startup == ASSUME NEW r \in Request, RequestNext(r) PROVE UNCHANGED startup
  BY DEF RequestNext, Override, Revert, Get, Start, CheckSystem, ReadOverride, UpdateOverride,
         InsertOverride, FindOverride, DeleteOverride, GetOverride, GetDefault, Die

(* Where a request's step leads.                                           *)
LEMMA Advance ==
  ASSUME NEW r \in Request, RequestNext(r)
  PROVE  \E s \in Changing \cup Reading \cup Ended : Goto(r, s)
  <1>1. CASE \E c \in Content : Override(r, c)
    BY <1>1 DEF Override, Start, Changing
  <1>2. CASE Revert(r) \/ Get(r)
    BY <1>2 DEF Revert, Get, Start, Changing, Reading
  <1>3. CASE CheckSystem(r) \/ GetOverride(r) \/ GetDefault(r) \/ Die(r)
    BY <1>3 DEF CheckSystem, GetOverride, GetDefault, Die, Changing, Reading, Ended
  <1>4. CASE ReadOverride(r) \/ UpdateOverride(r) \/ InsertOverride(r) \/ FindOverride(r) \/ DeleteOverride(r)
    BY <1>4 DEF ReadOverride, UpdateOverride, InsertOverride, FindOverride, DeleteOverride, Changing, Ended
  <1> QED
    BY <1>1, <1>2, <1>3, <1>4 DEF RequestNext

LEMMA RequestType ==
  ASSUME TypeInv, NEW r \in Request, RequestNext(r)
  PROVE  TypeInv'
  <1>1. UNCHANGED startup
    BY Startup
  <1>2. Targets'
    BY <1>1 DEF startup, Targets, SystemRows, TypeInv
  <1>3. pc' \in [Request -> {"new"} \cup Changing \cup Reading \cup Ended]
    BY Advance DEF Goto, TypeInv, TypeOK
  <1>4. asked' \in [Request -> Content \cup {Default}]
    BY DEF TypeInv, TypeOK, RequestNext, Override, Revert, Get, Start, CheckSystem, ReadOverride,
           UpdateOverride, InsertOverride, FindOverride, DeleteOverride, GetOverride, GetDefault, Die, team
  <1>5. row' \in [Request -> Request \cup {NoRow}]
    BY DEF TypeInv, TypeOK, RequestNext, Override, Revert, Get, Start, CheckSystem, ReadOverride,
           UpdateOverride, InsertOverride, FindOverride, DeleteOverride, GetOverride, GetDefault, Die, Overrides
  <1>6. override' \in [Request -> Content \cup {NoRow}]
    <2>1. CASE UpdateOverride(r) \/ InsertOverride(r) \/ DeleteOverride(r)
      BY <2>1 DEF TypeInv, TypeOK, Contents, UpdateOverride, InsertOverride, DeleteOverride, At
    <2>2. CASE UNCHANGED override
      BY <2>2 DEF TypeInv, TypeOK
    <2> QED
      BY <2>1, <2>2 DEF RequestNext, Override, Revert, Get, Start, CheckSystem, ReadOverride,
                        FindOverride, GetOverride, GetDefault, Die, team
  <1>7. raced' \subseteq Request
    <2>1. CASE ReadOverride(r)
      BY <2>1 DEF ReadOverride, TypeInv, TypeOK
    <2>2. CASE UNCHANGED raced
      BY <2>2 DEF TypeInv, TypeOK
    <2> QED
      BY <2>1, <2>2 DEF RequestNext, Override, Revert, Get, Start, CheckSystem, UpdateOverride,
                InsertOverride, FindOverride, DeleteOverride, GetOverride, GetDefault, Die, team
  <1>8. doubled' \in BOOLEAN
    <2>1. CASE InsertOverride(r)
      BY <2>1 DEF InsertOverride, TypeInv, TypeOK
    <2>2. CASE UNCHANGED doubled
      BY <2>2 DEF TypeInv, TypeOK
    <2> QED
      BY <2>1, <2>2 DEF RequestNext, Override, Revert, Get, Start, CheckSystem, ReadOverride, UpdateOverride,
                FindOverride, DeleteOverride, GetOverride, GetDefault, Die, team
  <1>9. TypeOK'
    BY <1>1, <1>3, <1>4, <1>5, <1>6, <1>7, <1>8 DEF startup, TypeInv, TypeOK
  <1>10. Contents'
    <2>1. CASE \E c \in Content : Override(r, c)
      BY <2>1 DEF Override, Start, Goto, TypeInv, TypeOK, Contents
    <2>2. CASE Revert(r) \/ Get(r)
      BY <2>2 DEF Revert, Get, Start, Goto, TypeInv, TypeOK, Contents
    <2>3. CASE CheckSystem(r) \/ GetOverride(r) \/ GetDefault(r) \/ Die(r)
      BY <2>3 DEF CheckSystem, GetOverride, GetDefault, Die, Goto, At, TypeInv, TypeOK, Contents
    <2>4. CASE ReadOverride(r)
      BY <2>4 DEF ReadOverride, Goto, At, TypeInv, TypeOK, Contents
    <2>5. CASE UpdateOverride(r) \/ InsertOverride(r) \/ FindOverride(r) \/ DeleteOverride(r)
      BY <2>5 DEF UpdateOverride, InsertOverride, FindOverride, DeleteOverride, Goto, At, TypeInv, TypeOK, Contents
    <2> QED
      BY <2>1, <2>2, <2>3, <2>4, <2>5 DEF RequestNext
  <1> QED
    BY <1>2, <1>9, <1>10 DEF TypeInv

LEMMA NextType == TypeInv /\ [Next]_vars => TypeInv'
  <1> SUFFICES ASSUME TypeInv, [Next]_vars
               PROVE  TypeInv'
    OBVIOUS
  <1>1. CASE UNCHANGED vars
    BY <1>1 DEF vars, startup, request, team, TypeInv, TypeOK, Contents, Targets, SystemRows
  <1> QED
    BY <1>1, ProcessType, RequestType DEF Next

LEMMA TypeInvariant == Spec => []TypeInv
  BY InitType, NextType, PTL DEF Spec

(* Every variable keeps its type: what is written as an override is the    *)
(* content of a request, never a default.                                  *)
THEOREM TypeCorrect == Spec => []TypeOK
  <1>1. TypeInv => TypeOK
    BY DEF TypeInv
  <1> QED
    BY <1>1, TypeInvariant, PTL

-----------------------------------------------------------------------------
(* The system default.                                                     *)

(* A process that serves has seeded, and requests come only to such ones.  *)
Seeded ==
  (\E p \in Process : proc[p] \in {"serving", "keep"}) \/ (\E r \in Request : pc[r] # "new")
    => SystemRows # {}

FoundInv == Seeded /\ PromptAlwaysFound

LEMMA InitFound == Init => FoundInv
  BY DEF Init, FoundInv, Seeded, PromptAlwaysFound

LEMMA ProcessFound ==
  ASSUME TypeInv, FoundInv, NEW p \in Process, ProcessNext(p)
  PROVE  FoundInv'
  <1>1. UNCHANGED request
    BY DEF ProcessNext, SeedRead, SeedCommit, Crash
  <1>2. PromptAlwaysFound'
    BY <1>1 DEF FoundInv, PromptAlwaysFound, request
  <1>3. CASE SeedRead(p)
    BY <1>1, <1>2, <1>3 DEF SeedRead, FoundInv, Seeded, SystemRows, TypeInv, TypeOK, request
  <1>4. CASE SeedCommit(p)
    <2>1. SystemRows' # {}
      BY <1>4, SeededRows DEF FoundInv, Seeded
    <2> QED
      BY <1>2, <2>1 DEF FoundInv, Seeded
  <1>5. CASE Crash(p)
    BY <1>1, <1>2, <1>5 DEF Crash, FoundInv, Seeded, SystemRows, TypeInv, TypeOK, request
  <1> QED
    BY <1>3, <1>4, <1>5 DEF ProcessNext

LEMMA RequestFound ==
  ASSUME TypeInv, FoundInv, NEW r \in Request, RequestNext(r)
  PROVE  FoundInv'
  <1>1. UNCHANGED startup
    BY Startup
  <1>2. SystemRows # {}
    <2>1. CASE pc[r] = "new"
      BY <2>1 DEF RequestNext, Override, Revert, Get, Start, CheckSystem, ReadOverride, UpdateOverride,
          InsertOverride, FindOverride, DeleteOverride, GetOverride, GetDefault, Die, At, Served,
          Changing, FoundInv, Seeded
    <2>2. CASE pc[r] # "new"
      BY <2>2 DEF FoundInv, Seeded
    <2> QED
      BY <2>1, <2>2
  <1>3. \E s \in (Changing \cup Reading \cup Ended) \ {"notfound"} : Goto(r, s)
    <2>1. CASE \E c \in Content : Override(r, c)
      BY <2>1 DEF Override, Start, Changing
    <2>2. CASE Revert(r) \/ Get(r)
      BY <2>2 DEF Revert, Get, Start, Changing, Reading
    <2>3. CASE CheckSystem(r) \/ GetOverride(r) \/ GetDefault(r) \/ Die(r)
      BY <1>2, <2>3 DEF CheckSystem, GetOverride, GetDefault, Die, Changing, Reading, Ended
    <2>4. CASE ReadOverride(r) \/ UpdateOverride(r) \/ InsertOverride(r) \/ FindOverride(r) \/ DeleteOverride(r)
      BY <2>4 DEF ReadOverride, UpdateOverride, InsertOverride, FindOverride, DeleteOverride, Changing, Ended
    <2> QED
      BY <2>1, <2>2, <2>3, <2>4 DEF RequestNext
  <1>4. PromptAlwaysFound'
    BY <1>3 DEF Goto, FoundInv, PromptAlwaysFound, TypeInv, TypeOK
  <1> QED
    BY <1>1, <1>2, <1>4 DEF startup, FoundInv, Seeded, SystemRows

LEMMA NextFound == TypeInv /\ FoundInv /\ [Next]_vars => FoundInv'
  <1> SUFFICES ASSUME TypeInv, FoundInv, [Next]_vars
               PROVE  FoundInv'
    OBVIOUS
  <1>1. CASE UNCHANGED vars
    BY <1>1 DEF vars, startup, request, FoundInv, Seeded, PromptAlwaysFound, SystemRows
  <1> QED
    BY <1>1, ProcessFound, RequestFound DEF Next

LEMMA FoundInvariant == Spec => [](TypeInv /\ FoundInv)
  BY TypeInvariant, InitFound, NextFound, PTL DEF Spec

(* However processes start and crash, no request misses a system prompt.   *)
THEOREM AlwaysFound == Spec => []PromptAlwaysFound
  <1>1. FoundInv => PromptAlwaysFound
    BY DEF FoundInv
  <1> QED
    BY <1>1, FoundInvariant, PTL

(* While no two processes have seeded at once, there is one row, and a     *)
(* process that is about to commit still sees it as it was.                *)
OneSeeds == \A p, q \in Process : proc[p] \in Seeding /\ proc[q] \in Seeding => p = q
OneDefault == \A x, y \in SystemRows : x = y
StillAsSeen ==
  \A p \in Process :
    /\ proc[p] = "insert" => SystemRows = {}
    /\ proc[p] = "keep" => \A x \in SystemRows : system[x] = Code[p]
SeedInv == ~ clash => OneSeeds /\ OneDefault /\ StillAsSeen /\ DefaultIsCurrent

LEMMA InitSeed == Init => SeedInv
  BY DEF Init, SeedInv, OneSeeds, OneDefault, StillAsSeen, DefaultIsCurrent, SystemRows, Seeding

LEMMA SeedReadSeed ==
  ASSUME TypeInv, SeedInv, NEW p \in Process, SeedRead(p)
  PROVE  SeedInv'
  <1> SUFFICES ASSUME ~ clash'
               PROVE  (OneSeeds /\ OneDefault /\ StillAsSeen /\ DefaultIsCurrent)'
    BY DEF SeedInv
  <1>1. ~ clash /\ \A q \in Process : proc[q] \notin Seeding
    BY DEF SeedRead, TypeInv, TypeOK
  <1>2. SystemRows' = SystemRows /\ UNCHANGED <<system, current>>
    BY DEF SeedRead, SystemRows
  <1>3. \A q \in Process \ {p} : proc'[q] = proc[q]
    BY DEF SeedRead, TypeInv, TypeOK
  <1>4. proc'[p] = "insert" => SystemRows = {}
    BY DEF SeedRead, TypeInv, TypeOK
  <1>5. proc'[p] = "keep" => \A x \in SystemRows : system[x] = Code[p]
    <2>1. \A x, y \in SystemRows : x = y
      BY <1>1 DEF SeedInv, OneDefault
    <2> QED
      BY <2>1 DEF SeedRead, TypeInv, TypeOK
  <1>6. OneSeeds'
    BY <1>1, <1>3 DEF OneSeeds
  <1>7. StillAsSeen'
    BY <1>1, <1>2, <1>3, <1>4, <1>5 DEF StillAsSeen, Seeding
  <1> QED
    BY <1>1, <1>2, <1>6, <1>7 DEF SeedInv, OneDefault, DefaultIsCurrent

LEMMA SeedCommitSeed ==
  ASSUME TypeInv, SeedInv, NEW p \in Process, SeedCommit(p)
  PROVE  SeedInv'
  <1> SUFFICES ASSUME ~ clash
               PROVE  (OneSeeds /\ OneDefault /\ StillAsSeen /\ DefaultIsCurrent)'
    BY DEF SeedInv, SeedCommit
  <1>1. \A q \in Process \ {p} : proc[q] \notin Seeding /\ proc'[q] = proc[q]
    BY DEF SeedInv, OneSeeds, SeedCommit
  <1>2. proc'[p] = "serving"
    BY DEF SeedCommit, TypeInv, TypeOK
  <1>3. OneSeeds' /\ StillAsSeen'
    BY <1>1, <1>2 DEF OneSeeds, StillAsSeen, Seeding
  <1>4. current' = Code[p] /\ Code[p] # NoRow
    BY CodeAssumption, NoRowAssumption DEF SeedCommit
  <1>5. CASE proc[p] = "insert" /\ system' = [system EXCEPT ![p] = Code[p]]
    <2>1. SystemRows = {}
      BY <1>5 DEF SeedInv, StillAsSeen
    <2>2. SystemRows' = {p} /\ system'[p] = Code[p]
      BY <1>4, <1>5, <2>1 DEF SystemRows, TypeInv, TypeOK
    <2> QED
      BY <1>3, <1>4, <2>2 DEF OneDefault, DefaultIsCurrent
  <1>6. CASE proc[p] = "update" /\ system' = [system EXCEPT ![target[p]] = Code[p]]
    <2>1. target[p] \in SystemRows /\ \A x \in SystemRows : x = target[p]
      BY <1>6 DEF SeedInv, OneDefault, TypeInv, Targets
    <2>2. SystemRows' = {target[p]} /\ system'[target[p]] = Code[p]
      BY <1>4, <1>6, <2>1 DEF SystemRows, TypeInv, TypeOK
    <2> QED
      BY <1>3, <1>4, <2>2 DEF OneDefault, DefaultIsCurrent
  <1>7. CASE proc[p] = "keep" /\ UNCHANGED system
    <2>1. SystemRows' = SystemRows
      BY <1>7 DEF SystemRows
    <2> QED
      BY <1>3, <1>4, <1>7, <2>1 DEF SeedInv, OneDefault, StillAsSeen, DefaultIsCurrent
  <1> QED
    BY <1>5, <1>6, <1>7 DEF SeedCommit

LEMMA CrashSeed ==
  ASSUME TypeInv, SeedInv, NEW p \in Process, Crash(p)
  PROVE  SeedInv'
  <1>1. SystemRows' = SystemRows /\ UNCHANGED <<system, current, clash>>
    BY DEF Crash, SystemRows
  <1>2. \A q \in Process : proc'[q] = proc[q] \/ proc'[q] = "down"
    BY DEF Crash, TypeInv, TypeOK
  <1> QED
    BY <1>1, <1>2 DEF SeedInv, OneSeeds, OneDefault, StillAsSeen, DefaultIsCurrent, Seeding

LEMMA NextSeed == TypeInv /\ SeedInv /\ [Next]_vars => SeedInv'
  <1> SUFFICES ASSUME TypeInv, SeedInv, [Next]_vars
               PROVE  SeedInv'
    OBVIOUS
  <1>1. CASE UNCHANGED startup
    BY <1>1 DEF startup, SeedInv, OneSeeds, OneDefault, StillAsSeen, DefaultIsCurrent, SystemRows
  <1> QED
    BY <1>1, SeedReadSeed, SeedCommitSeed, CrashSeed, Startup DEF Next, ProcessNext, vars

(* What readers get by default is what the last process to seed has in its *)
(* code, unless two have seeded at once.                                   *)
THEOREM DefaultFollowsCode == Spec => []DefaultIsCurrent
  <1>1. SeedInv => DefaultIsCurrent
    BY DEF SeedInv, DefaultIsCurrent
  <1> QED
    BY <1>1, TypeInvariant, InitSeed, NextSeed, PTL DEF Spec

-----------------------------------------------------------------------------
(* The overrides.                                                          *)

(* Whoever found no override and is about to insert one: either it is the  *)
(* only one and there is still none, or it and all others are in raced.    *)
InsertsRace ==
  /\ \A r, s \in Request : At(r, "insert") /\ At(s, "insert") /\ r # s => r \in raced
  /\ \A r \in Request : At(r, "insert") =>
       /\ Overrides # {} => r \in raced
       /\ Overrides \subseteq raced

OverrideInv == InsertsRace /\ OneOverride

LEMMA InitOverride == Init => OverrideInv
  BY DEF Init, OverrideInv, InsertsRace, OneOverride, Overrides, At

(* A step after which no new request is about to insert, and there are no  *)
(* new overrides.                                                          *)
LEMMA NoNewOverride ==
  ASSUME TypeInv, OverrideInv, UNCHANGED raced, Overrides' \subseteq Overrides,
         NEW r \in Request, NEW s \in (Changing \cup Reading \cup Ended) \ {"insert"}, Goto(r, s)
  PROVE  OverrideInv'
  <1>1. \A q \in Request : At(q, "insert")' => At(q, "insert")
    BY DEF Goto, At, TypeInv, TypeOK
  <1> QED
    BY <1>1 DEF OverrideInv, InsertsRace, OneOverride

LEMMA ReadOverrides ==
  ASSUME TypeInv, OverrideInv, NEW r \in Request, ReadOverride(r)
  PROVE  OverrideInv'
  <1>1. Overrides' = Overrides
    BY DEF ReadOverride, Overrides
  <1>2. CASE \E x \in Overrides : /\ Goto(r, IF override[x] = asked[r] THEN "done" ELSE "update")
                                  /\ UNCHANGED raced
    BY <1>1, <1>2, NoNewOverride DEF Changing, Ended
  <1>3. CASE Overrides = {} /\ Goto(r, "insert")
    <2> DEFINE rivals == {s \in Request \ {r} : pc[s] = "insert"}
    <2>1. raced' = IF rivals = {} THEN raced ELSE raced \cup rivals \cup {r}
      <3>1. ~ \E x \in Overrides : TRUE
        BY <1>3
      <3> QED
        BY <3>1 DEF ReadOverride
    <2>2. \A q \in Request \ {r} : At(q, "insert")' <=> q \in rivals
      BY <1>3 DEF Goto, At, TypeInv, TypeOK
    <2>3. \A q, s \in Request : At(q, "insert")' /\ At(s, "insert")' /\ q # s => q \in raced'
      BY <2>1, <2>2
    <2> QED
      BY <1>1, <1>3, <2>3 DEF OverrideInv, InsertsRace, OneOverride
  <1> QED
    BY <1>2, <1>3 DEF ReadOverride

LEMMA InsertOverrides ==
  ASSUME TypeInv, OverrideInv, NEW r \in Request, InsertOverride(r)
  PROVE  OverrideInv'
  <1>1. Overrides' = Overrides \cup {r} /\ UNCHANGED raced
    BY InsertedRow DEF InsertOverride
  <1>2. \A q \in Request : At(q, "insert")' => At(q, "insert") /\ q # r
    BY DEF InsertOverride, Goto, At, TypeInv, TypeOK
  <1>3. At(r, "insert")
    BY DEF InsertOverride
  <1>4. OneOverride'
    BY <1>1, <1>3 DEF OverrideInv, InsertsRace, OneOverride
  <1>5. InsertsRace'
    BY <1>1, <1>2, <1>3 DEF OverrideInv, InsertsRace
  <1> QED
    BY <1>4, <1>5 DEF OverrideInv

LEMMA RequestOverride ==
  ASSUME TypeInv, OverrideInv, NEW r \in Request, RequestNext(r)
  PROVE  OverrideInv'
  <1>1. CASE \/ (\E c \in Content : Override(r, c)) \/ Revert(r) \/ Get(r)
             \/ CheckSystem(r) \/ GetOverride(r) \/ GetDefault(r) \/ Die(r) \/ FindOverride(r)
    <2>1. UNCHANGED raced /\ Overrides' = Overrides
      BY <1>1 DEF Override, Revert, Get, Start, CheckSystem, GetOverride, GetDefault, Die, FindOverride,
                  team, Overrides
    <2>2. \E s \in (Changing \cup Reading \cup Ended) \ {"insert"} : Goto(r, s)
      BY <1>1 DEF Override, Revert, Get, Start, CheckSystem, GetOverride, GetDefault, Die, FindOverride,
                  Changing, Reading, Ended
    <2> QED
      BY <2>1, <2>2, NoNewOverride
  <1>2. CASE ReadOverride(r)
    BY <1>2, ReadOverrides
  <1>3. CASE UpdateOverride(r)
    <2>1. Overrides' = Overrides /\ UNCHANGED raced
      BY <1>3, UpdatedRow DEF UpdateOverride, At, Overrides
    <2> QED
      BY <1>3, <2>1, NoNewOverride DEF UpdateOverride, Ended
  <1>4. CASE InsertOverride(r)
    BY <1>4, InsertOverrides
  <1>5. CASE DeleteOverride(r)
    BY <1>5, DeletedRow, NoNewOverride DEF DeleteOverride, Ended
  <1> QED
    BY <1>1, <1>2, <1>3, <1>4, <1>5 DEF RequestNext

LEMMA NextOverride == TypeInv /\ OverrideInv /\ [Next]_vars => OverrideInv'
  <1> SUFFICES ASSUME TypeInv, OverrideInv, [Next]_vars
               PROVE  OverrideInv'
    OBVIOUS
  <1>1. CASE UNCHANGED <<request, team>>
    BY <1>1 DEF request, team, OverrideInv, InsertsRace, OneOverride, Overrides, At
  <1> QED
    BY <1>1, RequestOverride DEF Next, ProcessNext, SeedRead, SeedCommit, Crash, vars

(* A team has one override at most, but for overrides that all found none. *)
THEOREM OneOverrideUnlessRaced == Spec => []OneOverride
  <1>1. OverrideInv => OneOverride
    BY DEF OverrideInv
  <1> QED
    BY <1>1, TypeInvariant, InitOverride, NextOverride, PTL DEF Spec

-----------------------------------------------------------------------------
(* The refinement.                                                         *)

(* A row was inserted by a request that is done, and so was what a request *)
(* has read. While no override was inserted beside another, there is one.  *)
Rows ==
  \A r \in Request :
    /\ r \in Overrides => pc[r] = "done"
    /\ row[r] # NoRow => pc[row[r]] = "done"
    /\ pc[r] \in {"update", "delete"} => row[r] \in Request
    /\ pc[r] \in {"new", "find", "delete"} => asked[r] = Default
Single == ~ doubled => \A x, y \in Overrides : x = y

RowInv == Rows /\ Single

LEMMA InitRows == Init => RowInv
  BY DEF Init, RowInv, Rows, Single, Overrides

(* A request that is done stays so.                                        *)
LEMMA Undone ==
  ASSUME NEW r \in Request, RequestNext(r)
  PROVE  pc[r] # "done"
  BY DEF RequestNext, Override, Revert, Get, Start, CheckSystem, ReadOverride, UpdateOverride,
         InsertOverride, FindOverride, DeleteOverride, GetOverride, GetDefault, Die, At, Changing

(* A step in which r reads no row and no new row appears.                  *)
LEMMA StepRows ==
  ASSUME TypeInv, RowInv, NEW r \in Request, RequestNext(r), UNCHANGED <<row, doubled>>,
         Overrides' \subseteq Overrides, NEW s \in Changing \cup Reading \cup Ended, Goto(r, s),
         s \in {"update", "delete"} => row[r] \in Request,
         s \in {"find", "delete"} => asked'[r] = Default,
         \A q \in Request \ {r} : asked'[q] = asked[q]
  PROVE  RowInv'
  <1>1. pc[r] # "done"
    BY Undone
  <1>2. \A q \in Request : pc'[q] = IF q = r THEN s ELSE pc[q]
    BY DEF Goto, TypeInv, TypeOK
  <1>3. \A q \in Request : row[q] # NoRow => row[q] \in Request
    BY DEF TypeInv, TypeOK
  <1>4. Rows'
    BY <1>1, <1>2, <1>3 DEF RowInv, Rows, Changing, Reading, Ended
  <1>5. Single'
    BY DEF RowInv, Single
  <1> QED
    BY <1>4, <1>5 DEF RowInv

(* A step in which r reads a row.                                          *)
LEMMA FindRows ==
  ASSUME TypeInv, RowInv, NEW r \in Request, RequestNext(r), NEW x \in Overrides,
         row' = [row EXCEPT ![r] = x], UNCHANGED <<override, asked, doubled>>,
         NEW s \in Changing \cup Ended, Goto(r, s), s # "find", s = "delete" => asked[r] = Default
  PROVE  RowInv'
  <1>1. Overrides' = Overrides
    BY DEF Overrides
  <1>2. pc[r] # "done" /\ x \in Request /\ pc[x] = "done"
    BY Undone DEF RowInv, Rows, Overrides
  <1>3. \A q \in Request : pc'[q] = IF q = r THEN s ELSE pc[q]
    BY DEF Goto, TypeInv, TypeOK
  <1>4. \A q \in Request : row'[q] = IF q = r THEN x ELSE row[q]
    BY DEF TypeInv, TypeOK
  <1>5. \A q \in Request : row[q] # NoRow => row[q] \in Request
    BY DEF TypeInv, TypeOK
  <1>6. Rows'
    BY <1>1, <1>2, <1>3, <1>4, <1>5 DEF RowInv, Rows, Changing, Ended
  <1>7. Single'
    BY <1>1 DEF RowInv, Single
  <1> QED
    BY <1>6, <1>7 DEF RowInv

LEMMA InsertRows ==
  ASSUME TypeInv, RowInv, NEW r \in Request, InsertOverride(r)
  PROVE  RowInv'
  <1>1. Overrides' = Overrides \cup {r} /\ UNCHANGED <<asked, row>>
    BY InsertedRow DEF InsertOverride
  <1>2. \A q \in Request : pc'[q] = IF q = r THEN "done" ELSE pc[q]
    BY DEF InsertOverride, Goto, TypeInv, TypeOK
  <1>3. \A q \in Request : row[q] # NoRow => row[q] \in Request
    BY DEF TypeInv, TypeOK
  <1>4. Rows'
    BY <1>1, <1>2, <1>3 DEF RowInv, Rows
  <1>5. ~ doubled' => Overrides = {}
    BY DEF InsertOverride, TypeInv, TypeOK
  <1>6. Single'
    BY <1>1, <1>5 DEF Single
  <1> QED
    BY <1>4, <1>6 DEF RowInv

LEMMA RequestRows ==
  ASSUME TypeInv, RowInv, NEW r \in Request, RequestNext(r)
  PROVE  RowInv'
  <1>1. CASE \E c \in Content : Override(r, c)
    <2>1. \E c \in Content : asked' = [asked EXCEPT ![r] = c] /\ Goto(r, "check")
      BY <1>1 DEF Override, Start
    <2>2. UNCHANGED <<row, doubled>> /\ Overrides' = Overrides
      BY <1>1 DEF Override, Start, team, Overrides
    <2> QED
      BY <2>1, <2>2, StepRows DEF Changing
  <1>2. CASE Revert(r) \/ Get(r)
    <2>1. asked' = [asked EXCEPT ![r] = Default] /\ (Goto(r, "find") \/ Goto(r, "team"))
      BY <1>2 DEF Revert, Get, Start
    <2>2. UNCHANGED <<row, doubled>> /\ Overrides' = Overrides
      BY <1>2 DEF Revert, Get, Start, team, Overrides
    <2>3. asked'[r] = Default /\ \A q \in Request \ {r} : asked'[q] = asked[q]
      BY <2>1 DEF TypeInv, TypeOK
    <2> QED
      BY <2>1, <2>2, <2>3, StepRows DEF Changing, Reading
  <1>3. CASE CheckSystem(r) \/ GetOverride(r) \/ GetDefault(r) \/ Die(r)
    <2>1. UNCHANGED <<asked, row, doubled>> /\ Overrides' = Overrides
      BY <1>3 DEF CheckSystem, GetOverride, GetDefault, Die, team, Overrides
    <2>2. \E s \in {"read", "notfound", "system", "answered", "dead"} : Goto(r, s)
      BY <1>3 DEF CheckSystem, GetOverride, GetDefault, Die
    <2> QED
      BY <2>1, <2>2, StepRows DEF Changing, Reading, Ended
  <1>4. CASE ReadOverride(r)
    <2>1. UNCHANGED <<override, asked, doubled>>
      BY <1>4 DEF ReadOverride
    <2>2. CASE \E x \in Overrides : /\ Goto(r, IF override[x] = asked[r] THEN "done" ELSE "update")
                                    /\ row' = [row EXCEPT ![r] = x]
      BY <2>1, <2>2, FindRows DEF Changing, Ended
    <2>3. CASE Goto(r, "insert") /\ UNCHANGED row
      BY <2>1, <2>3, StepRows DEF Changing, Overrides
    <2> QED
      BY <1>4, <2>2, <2>3 DEF ReadOverride
  <1>5. CASE UpdateOverride(r)
    <2>1. Overrides' = Overrides
      BY <1>5, UpdatedRow DEF UpdateOverride, At, Overrides
    <2> QED
      BY <1>5, <2>1, StepRows DEF UpdateOverride, Ended
  <1>6. CASE InsertOverride(r)
    BY <1>6, InsertRows
  <1>7. CASE FindOverride(r)
    <2>1. UNCHANGED <<override, asked, doubled>> /\ asked[r] = Default
      BY <1>7 DEF FindOverride, team, At, RowInv, Rows
    <2>2. CASE \E x \in Overrides : Goto(r, "delete") /\ row' = [row EXCEPT ![r] = x]
      BY <2>1, <2>2, FindRows DEF Changing
    <2>3. CASE Goto(r, "done") /\ UNCHANGED row
      BY <2>1, <2>3, StepRows DEF Ended, Overrides
    <2> QED
      BY <1>7, <2>2, <2>3 DEF FindOverride
  <1>8. CASE DeleteOverride(r)
    <2>1. Overrides' \subseteq Overrides
      BY <1>8, DeletedRow
    <2> QED
      BY <1>8, <2>1, StepRows DEF DeleteOverride, Ended
  <1> QED
    BY <1>1, <1>2, <1>3, <1>4, <1>5, <1>6, <1>7, <1>8 DEF RequestNext

LEMMA NextRows == TypeInv /\ RowInv /\ [Next]_vars => RowInv'
  <1> SUFFICES ASSUME TypeInv, RowInv, [Next]_vars
               PROVE  RowInv'
    OBVIOUS
  <1>1. CASE UNCHANGED <<request, team>>
    BY <1>1 DEF request, team, RowInv, Rows, Single, Overrides
  <1> QED
    BY <1>1, RequestRows DEF Next, ProcessNext, SeedRead, SeedCommit, Crash, vars

(* What the abstract specification sees.                                   *)
Lives == [r \in Request |-> Life(r)]
Seen == IF Overrides = {} THEN {Default} ELSE {override[x] : x \in Overrides}

Pending == {"check", "read", "update", "insert", "find"}

LEMMA LifeOf ==
  ASSUME NEW r \in Request
  PROVE  /\ pc[r] \in {"new", "answered", "notfound", "team", "system"} => Life(r) = "idle"
         /\ pc[r] \in Pending => Life(r) = "pending"
         /\ pc[r] = "delete" /\ row[r] \in Overrides => Life(r) = "pending"
         /\ pc[r] = "delete" /\ row[r] \notin Overrides => Life(r) = "applied"
         /\ pc[r] = "done" => Life(r) = "applied"
         /\ pc[r] \in {"stale", "dead"} => Life(r) = "failed"
  BY DEF Life, Reverted, At, Reading, Pending

LEMMA LifeOfNext ==
  ASSUME NEW r \in Request
  PROVE  /\ pc'[r] \in {"new", "answered", "notfound", "team", "system"} => Life(r)' = "idle"
         /\ pc'[r] \in Pending => Life(r)' = "pending"
         /\ pc'[r] = "delete" /\ row'[r] \in Overrides' => Life(r)' = "pending"
         /\ pc'[r] = "delete" /\ row'[r] \notin Overrides' => Life(r)' = "applied"
         /\ pc'[r] = "done" => Life(r)' = "applied"
         /\ pc'[r] \in {"stale", "dead"} => Life(r)' = "failed"
  BY DEF Life, Reverted, At, Reading, Pending

(* The others go on living: their rows are there, or gone, as before.      *)
OthersLive(r) == \A q \in Request \ {r} : Life(q)' = Life(q)

LEMMA Others ==
  ASSUME TypeInv, NEW r \in Request, NEW s, Goto(r, s), \A q \in Request \ {r} : row'[q] = row[q],
         \A q \in Request \ {r} :
           pc[q] = "delete" => (row[q] \in Overrides' <=> row[q] \in Overrides)
  PROVE  OthersLive(r)
  <1> SUFFICES ASSUME NEW q \in Request \ {r}
               PROVE  Life(q)' = Life(q)
    BY DEF OthersLive
  <1>1. pc'[q] = pc[q] /\ row'[q] = row[q]
    BY DEF Goto, TypeInv, TypeOK
  <1>2. Reverted(q)' <=> Reverted(q)
    BY <1>1 DEF Reverted, At
  <1> QED
    BY <1>1, <1>2 DEF Life, At

LEMMA LivesStep ==
  ASSUME NEW r \in Request, OthersLive(r), NEW v, Life(r)' = v
  PROVE  Lives' = [Lives EXCEPT ![r] = v]
  BY DEF Lives, OthersLive

LEMMA LivesStay ==
  ASSUME NEW r \in Request, OthersLive(r), Life(r)' = Life(r)
  PROVE  Lives' = Lives
  BY DEF Lives, OthersLive

(* Unchanged overrides are seen as before.                                 *)
LEMMA SeenStays == UNCHANGED override => Overrides' = Overrides /\ Seen' = Seen
  BY DEF Overrides, Seen

(* The one step of the promise that each kind of step implements.          *)
LEMMA Stutters ==
  ASSUME Lives' = Lives, UNCHANGED <<asked, override, doubled>>
  PROVE  UNCHANGED Promise!vars
  BY SeenStays DEF Promise!vars, Lives, Seen

LEMMA Fails ==
  ASSUME NEW r \in Request, Life(r) = "pending", Life(r)' = "failed", OthersLive(r),
         UNCHANGED <<asked, override, doubled>>
  PROVE  Promise!Next
  <1>1. Lives' = [Lives EXCEPT ![r] = "failed"]
    BY LivesStep
  <1>2. Promise!Fail(r)
    BY <1>1, SeenStays DEF Promise!Fail, Lives, Seen
  <1> QED
    BY <1>2 DEF Promise!Next

LEMMA Asks ==
  ASSUME TypeInv, NEW r \in Request, NEW c \in Content \cup {Default}, NEW first \in {"check", "find"},
         Start(r, first, c)
  PROVE  Promise!Next
  <1>1. Life(r) = "idle"
    BY LifeOf DEF Start, At
  <1>2. UNCHANGED <<override, doubled, row>> /\ Overrides' = Overrides
    BY SeenStays DEF Start, team
  <1>3. pc'[r] = first
    BY DEF Start, Goto, TypeInv, TypeOK
  <1>4. Life(r)' = "pending"
    BY <1>3, LifeOfNext DEF Pending
  <1>5. OthersLive(r)
    BY <1>2, Others DEF Start
  <1>6. Lives' = [Lives EXCEPT ![r] = "pending"]
    BY <1>4, <1>5, LivesStep
  <1>7. Promise!Ask(r, c)
    BY <1>1, <1>2, <1>6, SeenStays DEF Promise!Ask, Start, Lives, Seen
  <1> QED
    BY <1>7 DEF Promise!Next, Promise!Wanted

LEMMA Applies ==
  ASSUME NEW R \in SUBSET Request, R # {}, NEW c \in Content \cup {Default},
         \A r \in R : Life(r) = "pending" /\ asked[r] = c /\ Life(r)' = "applied",
         \A q \in Request \ R : Life(q)' = Life(q),
         Seen' = {c}, UNCHANGED <<asked, doubled>>
  PROVE  Promise!Next
  <1>1. Lives' = [r \in Request |-> IF r \in R THEN "applied" ELSE Lives[r]]
    BY DEF Lives
  <1>2. Promise!Apply(R, c)
    BY <1>1 DEF Promise!Apply, Lives, Seen
  <1>3. R \in (SUBSET Request) \ {{}} /\ c \in Promise!Wanted
    BY DEF Promise!Wanted
  <1> QED
    BY <1>2, <1>3 DEF Promise!Next

LEMMA AppliesOne ==
  ASSUME NEW r \in Request, asked[r] \in Content \cup {Default},
         Life(r) = "pending", Life(r)' = "applied", OthersLive(r),
         Seen' = {asked[r]}, UNCHANGED <<asked, doubled>>
  PROVE  Promise!Next
  <1> DEFINE R == {r}
  <1>1. /\ R \in SUBSET Request /\ R # {}
        /\ \A q \in R : Life(q) = "pending" /\ asked[q] = asked[r] /\ Life(q)' = "applied"
        /\ \A q \in Request \ R : Life(q)' = Life(q)
    BY DEF OthersLive
  <1> HIDE DEF R
  <1> QED
    BY <1>1, Applies

(* Once doubled, nothing is promised.                                      *)
LEMMA Unpromised == doubled /\ doubled' => Promise!Next
  BY DEF Promise!Next

(* A step that leaves the overrides and what was read alone.               *)
LEMMA Quiet ==
  ASSUME TypeInv, NEW r \in Request, NEW s, Goto(r, s), UNCHANGED <<asked, row, override, doubled>>,
         Life(r)' = Life(r)
  PROVE  UNCHANGED Promise!vars
  <1>1. OthersLive(r)
    BY SeenStays, Others
  <1> QED
    BY <1>1, LivesStay, Stutters

(* r reads a row.                                                          *)
LEMMA Finds ==
  ASSUME TypeInv, NEW r \in Request, NEW x, NEW s, Goto(r, s), row' = [row EXCEPT ![r] = x],
         UNCHANGED <<asked, override, doubled>>, Life(r)' = Life(r)
  PROVE  UNCHANGED Promise!vars
  <1>1. \A q \in Request \ {r} : row'[q] = row[q]
    BY DEF TypeInv, TypeOK
  <1>2. OthersLive(r)
    BY <1>1, SeenStays, Others
  <1> QED
    BY <1>2, LivesStay, Stutters

(* Where a request stands after its step.                                  *)
LEMMA There == ASSUME TypeInv, NEW r \in Request, NEW s, Goto(r, s) PROVE pc'[r] = s
  BY DEF Goto, TypeInv, TypeOK

PromiseStep == [Promise!Next]_(Promise!vars)

LEMMA LookUpKeeps ==
  ASSUME TypeInv, PromptAlwaysFound', NEW r \in Request,
         CheckSystem(r) \/ GetOverride(r) \/ GetDefault(r)
  PROVE  PromiseStep
  <1>1. UNCHANGED <<asked, row, override, doubled>>
    BY DEF CheckSystem, GetOverride, GetDefault, team
  <1>2. PICK s \in {"read", "notfound", "system", "answered"} : Goto(r, s)
    BY DEF CheckSystem, GetOverride, GetDefault
  <1>3. pc'[r] = s
    BY <1>2, There
  <1>4. CASE CheckSystem(r)
    <2>1. s = "read"
      BY <1>3, <1>4, There DEF CheckSystem, PromptAlwaysFound
    <2>2. Life(r) = "pending" /\ Life(r)' = "pending"
      BY <1>3, <1>4, <2>1, LifeOf, LifeOfNext DEF CheckSystem, At, Pending
    <2> QED
      BY <1>1, <1>2, <2>2, Quiet DEF PromiseStep
  <1>5. CASE GetOverride(r) \/ GetDefault(r)
    <2>1. pc'[r] \in {"system", "answered", "notfound"} /\ pc[r] \in {"team", "system"}
      BY <1>5, There DEF GetOverride, GetDefault, At
    <2>2. Life(r) = "idle" /\ Life(r)' = "idle"
      BY <2>1, LifeOf, LifeOfNext
    <2> QED
      BY <1>1, <1>2, <2>2, Quiet DEF PromiseStep
  <1> QED
    BY <1>4, <1>5

LEMMA ReadKeeps ==
  ASSUME TypeInv, RowInv, NEW r \in Request, ReadOverride(r)
  PROVE  PromiseStep
  <1>1. UNCHANGED <<asked, override, doubled>> /\ Overrides' = Overrides /\ Seen' = Seen
    BY SeenStays DEF ReadOverride
  <1>2. Life(r) = "pending"
    BY LifeOf DEF ReadOverride, At, Pending
  <1>3. CASE Goto(r, "insert") /\ UNCHANGED row
    <2>1. Life(r)' = "pending"
      BY <1>3, There, LifeOfNext DEF Pending
    <2> QED
      BY <1>1, <1>2, <1>3, <2>1, Quiet DEF PromiseStep
  <1>4. ASSUME NEW x \in Overrides, row' = [row EXCEPT ![r] = x], override[x] # asked[r], Goto(r, "update")
        PROVE  PromiseStep
    <2>1. Life(r)' = "pending"
      BY <1>4, There, LifeOfNext DEF Pending
    <2> QED
      BY <1>1, <1>2, <1>4, <2>1, Finds DEF PromiseStep
  <1>5. ASSUME NEW x \in Overrides, row' = [row EXCEPT ![r] = x], override[x] = asked[r], Goto(r, "done")
        PROVE  PromiseStep
    <2>1. Life(r)' = "applied"
      BY <1>5, There, LifeOfNext
    <2>2. \A q \in Request \ {r} : row'[q] = row[q]
      BY <1>5 DEF TypeInv, TypeOK
    <2>3. OthersLive(r)
      BY <1>1, <1>5, <2>2, Others
    <2>4. CASE ~ doubled
      <3>1. Overrides = {x}
        BY <2>4 DEF RowInv, Single
      <3>2. Seen' = {asked[r]}
        BY <1>1, <1>5, <3>1 DEF Seen
      <3>3. asked[r] \in Content \cup {Default}
        BY DEF TypeInv, TypeOK
      <3> QED
        BY <1>1, <1>2, <2>1, <2>3, <3>2, <3>3, AppliesOne DEF PromiseStep
    <2>5. CASE doubled
      BY <1>1, <2>5, Unpromised DEF PromiseStep
    <2> QED
      BY <2>4, <2>5
  <1> QED
    BY <1>3, <1>4, <1>5 DEF ReadOverride

LEMMA UpdateKeeps ==
  ASSUME TypeInv, RowInv, NEW r \in Request, UpdateOverride(r)
  PROVE  PromiseStep
  <1>1. UNCHANGED <<asked, row, doubled>>
    BY DEF UpdateOverride
  <1>2. pc[r] = "update" /\ Life(r) = "pending"
    BY LifeOf DEF UpdateOverride, At, Pending
  <1>3. CASE row[r] \in Overrides /\ override' = [override EXCEPT ![row[r]] = asked[r]] /\ Goto(r, "done")
    <2>1. Overrides' = Overrides /\ override'[row[r]] = asked[r]
      BY <1>2, <1>3, UpdatedRow
    <2>2. OthersLive(r)
      BY <1>1, <1>3, <2>1, Others
    <2>3. Life(r)' = "applied"
      BY <1>3, There, LifeOfNext
    <2>4. CASE ~ doubled
      <3>1. Overrides' = {row[r]}
        BY <1>3, <2>1, <2>4 DEF RowInv, Single
      <3>2. Seen' = {asked[r]}
        BY <2>1, <3>1 DEF Seen
      <3>3. asked[r] \in Content \cup {Default}
        BY DEF TypeInv, TypeOK
      <3> QED
        BY <1>1, <1>2, <2>2, <2>3, <3>2, <3>3, AppliesOne DEF PromiseStep
    <2>5. CASE doubled
      BY <1>1, <2>5, Unpromised DEF PromiseStep
    <2> QED
      BY <2>4, <2>5, <2>1
  <1>4. CASE Goto(r, "stale") /\ UNCHANGED override
    <2>1. Life(r)' = "failed"
      BY <1>4, There, LifeOfNext
    <2>2. OthersLive(r)
      BY <1>1, <1>4, SeenStays, Others
    <2> QED
      BY <1>1, <1>2, <1>4, <2>1, <2>2, Fails DEF PromiseStep
  <1> QED
    BY <1>3, <1>4 DEF UpdateOverride

LEMMA InsertKeeps ==
  ASSUME TypeInv, RowInv, NEW r \in Request, InsertOverride(r)
  PROVE  PromiseStep
  <1>1. UNCHANGED <<asked, row>> /\ doubled' = (doubled \/ Overrides # {})
    BY DEF InsertOverride
  <1>2. Overrides' = Overrides \cup {r} /\ override'[r] = asked[r]
    BY InsertedRow
  <1>3. pc[r] = "insert" /\ Life(r) = "pending" /\ Goto(r, "done")
    BY LifeOf DEF InsertOverride, At, Pending
  <1>4. \A q \in Request : row[q] # r
    BY <1>3, NoRowAssumption DEF RowInv, Rows
  <1>5. OthersLive(r)
    BY <1>1, <1>2, <1>3, <1>4, Others
  <1>6. Life(r)' = "applied"
    BY <1>3, There, LifeOfNext
  <1>7. CASE Overrides = {}
    <2>1. Seen' = {asked[r]} /\ UNCHANGED doubled
      BY <1>1, <1>2, <1>7 DEF Seen, TypeInv, TypeOK
    <2>2. asked[r] \in Content \cup {Default}
      BY DEF TypeInv, TypeOK
    <2> QED
      BY <1>1, <1>3, <1>5, <1>6, <2>1, <2>2, AppliesOne DEF PromiseStep
  <1>8. CASE Overrides # {} /\ ~ doubled
    <2>1. r \notin Overrides
      BY <1>3 DEF RowInv, Rows
    <2>2. \A x \in Overrides : override'[x] = override[x]
      BY <2>1 DEF InsertOverride, TypeInv, TypeOK, Overrides
    <2>3. Seen' = Seen \cup {asked[r]}
      BY <1>2, <1>8, <2>2 DEF Seen
    <2>4. Lives' = [Lives EXCEPT ![r] = "applied"]
      BY <1>5, <1>6, LivesStep
    <2>5. Promise!Double(r)
      BY <1>1, <1>3, <1>8, <2>3, <2>4 DEF Promise!Double, Lives, Seen
    <2> QED
      BY <2>5 DEF Promise!Next, PromiseStep
  <1>9. CASE doubled
    BY <1>1, <1>9, Unpromised DEF PromiseStep
  <1> QED
    BY <1>7, <1>8, <1>9

LEMMA FindKeeps ==
  ASSUME TypeInv, RowInv, NEW r \in Request, FindOverride(r)
  PROVE  PromiseStep
  <1>1. UNCHANGED <<asked, override, doubled>> /\ Overrides' = Overrides /\ Seen' = Seen
    BY SeenStays DEF FindOverride, team
  <1>2. pc[r] = "find" /\ Life(r) = "pending" /\ asked[r] = Default
    BY LifeOf DEF FindOverride, At, Pending, RowInv, Rows
  <1>3. ASSUME NEW x \in Overrides, Goto(r, "delete"), row' = [row EXCEPT ![r] = x]
        PROVE  PromiseStep
    <2>1. row'[r] = x
      BY <1>3 DEF TypeInv, TypeOK
    <2>2. Life(r)' = "pending"
      BY <1>1, <1>3, <2>1, There, LifeOfNext
    <2> QED
      BY <1>1, <1>2, <1>3, <2>2, Finds DEF PromiseStep
  <1>4. CASE Overrides = {} /\ Goto(r, "done") /\ UNCHANGED row
    <2>1. Life(r)' = "applied"
      BY <1>4, There, LifeOfNext
    <2>2. OthersLive(r)
      BY <1>1, <1>4, Others
    <2>3. Seen' = {asked[r]}
      BY <1>1, <1>2, <1>4 DEF Seen
    <2> QED
      BY <1>1, <1>2, <2>1, <2>2, <2>3, AppliesOne DEF PromiseStep
  <1> QED
    BY <1>3, <1>4 DEF FindOverride

(* The delete of a row serves every revert that has read it.               *)
LEMMA DeleteKeeps ==
  ASSUME TypeInv, RowInv, NEW r \in Request, DeleteOverride(r)
  PROVE  PromiseStep
  <1>1. UNCHANGED <<asked, row, doubled>> /\ Goto(r, "done") /\ pc[r] = "delete"
    BY DEF DeleteOverride, At
  <1>2. Overrides' = Overrides \ {row[r]}
    BY DeletedRow
  <1>3. Life(r)' = "applied"
    BY <1>1, There, LifeOfNext
  <1>4. CASE row[r] \notin Overrides
    <2>1. Life(r) = "applied"
      BY <1>1, <1>4, LifeOf
    <2>2. UNCHANGED override
      BY <1>4 DEF DeleteOverride, Overrides, TypeInv, TypeOK, RowInv, Rows, At
    <2> QED
      BY <1>1, <1>3, <2>1, <2>2, Quiet DEF PromiseStep
  <1>5. CASE row[r] \in Overrides /\ ~ doubled
    <2> DEFINE R == {q \in Request : pc[q] = "delete" /\ row[q] = row[r]}
    <2>1. Overrides = {row[r]} /\ Overrides' = {}
      BY <1>2, <1>5 DEF RowInv, Single
    <2>2. Seen' = {Default}
      BY <2>1 DEF Seen
    <2>3. \A q \in R : Life(q) = "pending" /\ asked[q] = Default
      BY <1>5, LifeOf DEF RowInv, Rows
    <2>4. \A q \in Request \ {r} : pc'[q] = pc[q] /\ row'[q] = row[q]
      BY <1>1 DEF Goto, TypeInv, TypeOK
    <2>5. \A q \in R : Life(q)' = "applied"
      <3> SUFFICES ASSUME NEW q \in R, q # r
                   PROVE  Life(q)' = "applied"
        BY <1>3
      <3>1. pc'[q] = "delete" /\ row'[q] \notin Overrides'
        BY <2>1, <2>4
      <3> QED
        BY <3>1, LifeOfNext
    <2>6. \A q \in Request \ R : Life(q)' = Life(q)
      <3> SUFFICES ASSUME NEW q \in Request \ R
                   PROVE  Life(q)' = Life(q)
        OBVIOUS
      <3>1. pc'[q] = pc[q] /\ row'[q] = row[q]
        BY <1>1, <2>4
      <3>2. Reverted(q)' <=> Reverted(q)
        BY <2>1, <3>1 DEF Reverted, At
      <3> QED
        BY <3>1, <3>2 DEF Life
    <2>7. R \in SUBSET Request /\ R # {}
      BY <1>1
    <2> HIDE DEF R
    <2> QED
      BY <1>1, <2>2, <2>3, <2>5, <2>6, <2>7, Applies DEF PromiseStep
  <1>6. CASE doubled
    BY <1>1, <1>6, Unpromised DEF PromiseStep
  <1> QED
    BY <1>4, <1>5, <1>6

LEMMA DieKeeps ==
  ASSUME TypeInv, NEW r \in Request, Die(r)
  PROVE  PromiseStep
  <1>1. UNCHANGED <<asked, row, override, doubled>> /\ Goto(r, "dead")
    BY DEF Die, team
  <1>2. Life(r) = "pending"
    BY LifeOf DEF Die, Changing, Pending, Reverted, At
  <1>3. Life(r)' = "failed"
    BY <1>1, There, LifeOfNext
  <1>4. OthersLive(r)
    BY <1>1, SeenStays, Others
  <1> QED
    BY <1>1, <1>2, <1>3, <1>4, Fails DEF PromiseStep

LEMMA StartKeeps ==
  ASSUME TypeInv, RowInv, NEW r \in Request, (\E c \in Content : Override(r, c)) \/ Revert(r) \/ Get(r)
  PROVE  PromiseStep
  <1>1. CASE (\E c \in Content : Override(r, c)) \/ Revert(r)
    BY <1>1, Asks DEF Override, Revert, PromiseStep
  <1>2. CASE Get(r)
    <2>1. Goto(r, "team") /\ At(r, "new") /\ asked' = [asked EXCEPT ![r] = Default]
      BY <1>2 DEF Get, Start
    <2>2. UNCHANGED <<row, override, doubled>>
      BY <1>2 DEF Get, Start, team
    <2>3. UNCHANGED asked
      BY <2>1 DEF RowInv, Rows, At, TypeInv, TypeOK
    <2>4. Life(r) = "idle" /\ Life(r)' = "idle"
      BY <2>1, There, LifeOf, LifeOfNext DEF At
    <2> QED
      BY <2>1, <2>2, <2>3, <2>4, Quiet DEF PromiseStep
  <1> QED
    BY <1>1, <1>2

LEMMA InitKeeps == Init => Promise!Init
  <1> SUFFICES ASSUME Init
               PROVE  Promise!Init
    OBVIOUS
  <1>1. \A r \in Request : Life(r) = "idle"
    BY LifeOf DEF Init
  <1>2. Overrides = {}
    BY DEF Init, Overrides
  <1> QED
    BY <1>1, <1>2 DEF Init, Promise!Init

LEMMA StepKeeps ==
  ASSUME TypeInv, RowInv, PromptAlwaysFound', [Next]_vars
  PROVE  PromiseStep
  <1>1. CASE UNCHANGED <<request, team>>
    <2>1. UNCHANGED <<asked, override, doubled>> /\ Overrides' = Overrides
      BY <1>1, SeenStays DEF request, team
    <2>2. \A q \in Request : Life(q)' = Life(q)
      BY <1>1, <2>1 DEF request, Life, Reverted, At
    <2>3. Lives' = Lives
      BY <2>2 DEF Lives
    <2> QED
      BY <2>1, <2>3, Stutters DEF PromiseStep
  <1>2. ASSUME NEW r \in Request, RequestNext(r)
        PROVE  PromiseStep
    BY <1>2, StartKeeps, LookUpKeeps, ReadKeeps, UpdateKeeps, InsertKeeps, FindKeeps, DeleteKeeps, DieKeeps
       DEF RequestNext
  <1> QED
    BY <1>1, <1>2 DEF Next, ProcessNext, SeedRead, SeedCommit, Crash, vars

(* The overrides of a team implement the register of PromptPromise, for    *)
(* any number of overlapping requests, until two overrides exist at once.  *)
THEOREM ImplementsPromise == Spec => KeepsPromise
  <1>1. TypeInv /\ RowInv /\ PromptAlwaysFound' /\ [Next]_vars => [Promise!Next]_(Promise!vars)
    BY StepKeeps DEF PromiseStep
  <1>2. FoundInv => PromptAlwaysFound
    BY DEF FoundInv
  <1> QED
    BY <1>1, <1>2, FoundInvariant, InitRows, NextRows, InitKeeps, PTL DEF Spec, KeepsPromise, Promise!Spec
=============================================================================
