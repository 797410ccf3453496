---------------------------- MODULE OrderProofs -----------------------------
(***************************************************************************)
(* What OrderProps says of circuits, order numbers and stored answers,     *)
(* proved for every set of calls, processes, tools and cases.              *)
(***************************************************************************)
EXTENDS OrderProps, FiniteSetTheorems, TLAPS

(* Circuits.  A state that k failures since the last success justify:      *)
Earned(s, k) == s.failures <= k /\ (s.opened # 0 => k >= Threshold) /\ (s.half => s.opened # 0)

\* What stands in a table is justified by what was recorded there; what a call has
\* loaded and will save is justified at the moment it is saved, a counted failure with
\* one failure more; unless a success came in between.  Only a shared circuit is copied.
CircuitsEarned == \A x \in Places, t \in Tools : Earned(circuit[x][t], streak[x][t])
CopiesEarned ==
    \A c \in Calls :
        /\ at[c] = "marking" => Earned(copy[c], streak["redis"][Tool(c)])
        /\ at[c] = "counting" => Earned(copy[c], streak["redis"][Tool(c)] + 1)

Asking ==
    /\ \A c \in Calls : Process(c) \in Processes
    /\ \A c \in Calls : at[c] # "idle" => Tool(c) \in Tools
    /\ \A c \in Calls : at[c] \in {"marking", "recording", "counting"} => Shared /\ Guarded(c)

BreakerInv == ToolTypeOK /\ Asking /\ (stale \/ (CircuitsEarned /\ CopiesEarned))

LEMMA CircuitAfter ==
    ASSUME clock \in 1 .. MaxClock, NEW s \in Circuit, NEW k \in Nat
    PROVE  /\ Closed \in Circuit /\ Probing(s) \in Circuit /\ Counted(s) \in Circuit
           /\ Earned(Closed, k)
           /\ Earned(s, k) => Earned(Probing(s), k) /\ Earned(Counted(s), k + 1)
<1>. MaxClock \in Nat /\ Threshold \in Nat \ {0}
  BY BreakerAssumption
<1>. s.failures \in Nat /\ s.opened \in 0 .. MaxClock /\ s.half \in BOOLEAN
  BY DEF Circuit
<1>1. Closed \in Circuit /\ Earned(Closed, k)
  BY DEF Closed, Circuit, Earned
<1>2. Probing(s) \in Circuit /\ (Earned(s, k) => Earned(Probing(s), k))
  BY DEF Probing, Circuit, Earned
<1>. clock \in Nat \ {0} /\ clock <= MaxClock
  OBVIOUS
<1>3. CASE s.half
  <2>1. Counted(s) = [failures |-> s.failures, opened |-> clock, half |-> FALSE]
    BY <1>3 DEF Counted, Circuit
  <2>2. Earned(s, k) => k >= Threshold
    BY <1>3 DEF Earned
  <2>. QED BY <1>1, <1>2, <2>1, <2>2 DEF Circuit, Earned
<1>4. CASE ~s.half
  <2> DEFINE n == s.failures + 1
             at1 == IF n >= Threshold THEN clock ELSE s.opened
  <2>1. Counted(s) = [failures |-> n, opened |-> at1, half |-> FALSE]
    BY <1>4 DEF Counted, Circuit
  <2>2. n \in Nat /\ at1 \in 0 .. MaxClock
    OBVIOUS
  <2>3. Counted(s) \in Circuit
    BY <2>1, <2>2 DEF Circuit
  <2>4. Earned(s, k) => n <= k + 1 /\ (at1 # 0 => k + 1 >= Threshold)
    BY DEF Earned
  <2>. HIDE DEF n, at1
  <2>. QED BY <1>1, <1>2, <2>1, <2>3, <2>4 DEF Earned
<1>. QED BY <1>3, <1>4

Inside == {"running", "numbering", "saving", "writing"}

Onward(c) ==
    /\ \E s \in Inside : at' = [at EXCEPT ![c] = s]
    /\ UNCHANGED <<answer, clock, circuit, copy, streak, stale>>

\* To the middleware the body of a tool is steps of its own and then one answer.
LEMMA BodyLeaves ==
    ASSUME NEW c \in Calls, Body(c)
    PROVE  /\ at[c] \in Inside
           /\ Onward(c) \/ Leave(c, "ok") \/ Leave(c, "error")
<1>1. CASE Deduct(c)
  BY <1>1 DEF Deduct, Refuse, Onward, Inside
<1>2. CASE CreateInMemory(c)
  BY <1>2 DEF CreateInMemory, Refuse, Inside
<1>3. CASE Search(c)
  BY <1>3 DEF Search, Inside
<1>4. CASE TimeOut(c)
  BY <1>4 DEF TimeOut, Suspended, Inside
<1>5. ASSUME NEW o \in Outcomes, NextOrderId(c, o)
      PROVE  at[c] \in Inside /\ (Onward(c) \/ Leave(c, "error"))
  BY <1>5 DEF NextOrderId, Refuse, Onward, Inside
<1>6. ASSUME NEW o \in Outcomes, Merge(c, o)
      PROVE  at[c] \in Inside /\ (Onward(c) \/ Leave(c, "error"))
  BY <1>6 DEF Merge, Onward, Inside
<1>7. ASSUME NEW o \in Outcomes, Commit(c, o)
      PROVE  at[c] \in Inside /\ (Leave(c, "ok") \/ Leave(c, "error"))
  BY <1>7 DEF Commit, Inside
<1>8. ASSUME NEW o \in Outcomes, Cancel(c, o)
      PROVE  at[c] \in Inside /\ (Onward(c) \/ Leave(c, "ok") \/ Leave(c, "error"))
  BY <1>8 DEF Cancel, Onward, Inside
<1>9. ASSUME NEW o \in Outcomes, Query(c, o)
      PROVE  at[c] \in Inside /\ (Leave(c, "ok") \/ Leave(c, "error"))
  BY <1>9 DEF Query, Inside
<1>. QED BY <1>1, <1>2, <1>3, <1>4, <1>5, <1>6, <1>7, <1>8, <1>9 DEF Body

\* What the three writes of a breaker do to the table they write.
LEMMA TableAfter ==
    ASSUME BreakerInv, NEW c \in Calls, Tool(c) \in Tools
    PROVE  /\ Place(c) \in Places /\ State(c) \in Circuit /\ streak[Place(c)][Tool(c)] \in Nat
           /\ \A s \in Circuit : Set(c, s) =>
                 /\ circuit' \in [Places -> [Tools -> Circuit]]
                 /\ \A x \in Places, t \in Tools :
                       circuit'[x][t] = (IF x = Place(c) /\ t = Tool(c) THEN s ELSE circuit[x][t])
           /\ Succeeds(c) =>
                 /\ streak' \in [Places -> [Tools -> Nat]]
                 /\ \A x \in Places, t \in Tools :
                       streak'[x][t] = (IF x = Place(c) /\ t = Tool(c) THEN 0 ELSE streak[x][t])
           /\ Fails(c) =>
                 /\ streak' \in [Places -> [Tools -> Nat]]
                 /\ \A x \in Places, t \in Tools :
                       streak'[x][t] = (IF x = Place(c) /\ t = Tool(c) THEN streak[x][t] + 1
                                        ELSE streak[x][t])
<1>1. Place(c) \in Places
  BY DEF BreakerInv, Asking, Place, Places
<1>2. circuit \in [Places -> [Tools -> Circuit]] /\ streak \in [Places -> [Tools -> Nat]]
  BY DEF BreakerInv, ToolTypeOK
<1>3. State(c) \in Circuit /\ streak[Place(c)][Tool(c)] \in Nat
  BY <1>1, <1>2 DEF State
<1>4. \A s \in Circuit : Set(c, s) =>
         /\ circuit' \in [Places -> [Tools -> Circuit]]
         /\ \A x \in Places, t \in Tools :
               circuit'[x][t] = (IF x = Place(c) /\ t = Tool(c) THEN s ELSE circuit[x][t])
  BY <1>1, <1>2 DEF Set
<1>5. Succeeds(c) =>
         /\ streak' \in [Places -> [Tools -> Nat]]
         /\ \A x \in Places, t \in Tools :
               streak'[x][t] = (IF x = Place(c) /\ t = Tool(c) THEN 0 ELSE streak[x][t])
  BY <1>1, <1>2 DEF Succeeds
<1>6. Fails(c) =>
         /\ streak' \in [Places -> [Tools -> Nat]]
         /\ \A x \in Places, t \in Tools :
               streak'[x][t] = (IF x = Place(c) /\ t = Tool(c) THEN streak[x][t] + 1
                                ELSE streak[x][t])
  BY <1>1, <1>2, <1>3 DEF Fails
<1>. QED BY <1>1, <1>3, <1>4, <1>5, <1>6

\* The setup and the requests are fixed.
Fixed == UNCHANGED <<setup, ask>>

LEMMA FixedMeans ==
    ASSUME Fixed
    PROVE  /\ Shared' = Shared
           /\ \A c : /\ Process(c)' = Process(c) /\ Tool(c)' = Tool(c)
                     /\ Guarded(c)' = Guarded(c) /\ Place(c)' = Place(c)
BY DEF Fixed, Shared, Process, Tool, Guarded, Place

\* A step that leaves the tables alone; what a call begins to save is justified.
LEMMA QuietStep ==
    ASSUME BreakerInv, Fixed, UNCHANGED <<circuit, streak, stale>>,
           at' \in [Calls -> Steps], clock' \in 1 .. MaxClock, copy' \in [Calls -> Circuit],
           answer' \in [Calls -> {"none", "ok", "error", "refused", "lost"}],
           \A d \in Calls :
              /\ at'[d] # "idle" => Tool(d) \in Tools
              /\ at'[d] \in {"marking", "recording", "counting"} => Shared /\ Guarded(d)
              /\ \/ at'[d] = at[d] /\ copy'[d] = copy[d]
                 \/ at'[d] \notin {"marking", "counting"} \/ stale
                 \/ at'[d] = "marking" /\ Earned(copy'[d], streak["redis"][Tool(d)])
                 \/ at'[d] = "counting" /\ Earned(copy'[d], streak["redis"][Tool(d)] + 1)
    PROVE  BreakerInv'
<1>1. ToolTypeOK'
  BY DEF BreakerInv, ToolTypeOK
<1>2. Asking'
  BY FixedMeans DEF BreakerInv, Asking
<1>3. (stale \/ (CircuitsEarned /\ CopiesEarned))'
  <2>1. CircuitsEarned => CircuitsEarned'
    BY DEF CircuitsEarned
  <2>2. ~stale /\ CopiesEarned => CopiesEarned'
    BY FixedMeans DEF CopiesEarned
  <2>. QED BY <2>1, <2>2 DEF BreakerInv
<1>. QED BY <1>1, <1>2, <1>3 DEF BreakerInv

LEMMA OnwardKeeps ==
    ASSUME BreakerInv, Fixed, NEW c \in Calls, Tool(c) \in Tools, Onward(c)
    PROVE  BreakerInv'
<1>. PICK s \in Inside : at' = [at EXCEPT ![c] = s]
  BY DEF Onward
<1>. at \in [Calls -> Steps] /\ Inside \subseteq Steps
  BY DEF BreakerInv, ToolTypeOK, Inside, Steps
<1>1. \A d \in Calls : at'[d] = (IF d = c THEN s ELSE at[d])
  OBVIOUS
<1>2. s \notin {"marking", "counting", "recording", "idle"}
  BY DEF Inside
<1>3. \A d \in Calls :
         /\ at[d] \in {"marking", "recording", "counting"} => Shared /\ Guarded(d)
         /\ at[d] # "idle" => Tool(d) \in Tools
  BY DEF BreakerInv, Asking
<1>. QED
  BY <1>1, <1>2, <1>3, QuietStep DEF BreakerInv, ToolTypeOK, Onward

\* A table written with a circuit that its new count of failures justifies, by a call
\* that ends with it.
LEMMA WriteStep ==
    ASSUME BreakerInv, Fixed, NEW c \in Calls, Tool(c) \in Tools, NEW s \in Circuit, Set(c, s),
           at' \in [Calls -> Steps], clock' = clock,
           copy' \in [Calls -> Circuit],
           answer' \in [Calls -> {"none", "ok", "error", "refused", "lost"}],
           \A d \in Calls \ {c} : at'[d] = at[d] /\ copy'[d] = copy[d],
           at'[c] \in Inside \cup {"end"},
           stale' \in BOOLEAN, stale => stale',
           streak' \in [Places -> [Tools -> Nat]],
           \A x \in Places, t \in Tools :
              x # Place(c) \/ t # Tool(c) => streak'[x][t] = streak[x][t],
           ~stale' => Earned(s, streak'[Place(c)][Tool(c)]),
           \/ streak'[Place(c)][Tool(c)] >= streak[Place(c)][Tool(c)]
           \/ ~Shared
           \/ stale' \/ \A d \in Calls \ {c} :
                 Tool(d) = Tool(c) => at[d] \notin {"marking", "counting"}
    PROVE  BreakerInv'
<1>1. ToolTypeOK'
  BY TableAfter DEF BreakerInv, ToolTypeOK
<1>2. Asking'
  BY FixedMeans DEF BreakerInv, Asking, Inside
<1>3. ASSUME ~stale'
      PROVE  CircuitsEarned'
  BY <1>3, TableAfter DEF BreakerInv, CircuitsEarned
<1>4. ASSUME ~stale', NEW d \in Calls, at'[d] \in {"marking", "counting"}
      PROVE  /\ at'[d] = "marking" => Earned(copy'[d], streak'["redis"][Tool(d)])
             /\ at'[d] = "counting" => Earned(copy'[d], streak'["redis"][Tool(d)] + 1)
  <2>1. d # c /\ at'[d] = at[d] /\ copy'[d] = copy[d]
    BY <1>4 DEF Inside
  <2>2. Shared /\ Tool(d) \in Tools /\ "redis" \in Places
    BY <1>4, <2>1 DEF BreakerInv, Asking, Places
  <2>3. Place(c) = "redis"
    BY <2>2 DEF Place
  <2> DEFINE k == streak["redis"][Tool(d)]
             kk == streak'["redis"][Tool(d)]
  <2>4. kk >= k /\ k \in Nat /\ kk \in Nat /\ copy[d] \in Circuit
    BY <1>4, <2>1, <2>2, <2>3 DEF BreakerInv, ToolTypeOK
  <2>5. /\ at[d] = "marking" => Earned(copy[d], k)
        /\ at[d] = "counting" => Earned(copy[d], k + 1)
    BY <1>4 DEF BreakerInv, CopiesEarned
  <2>6. \A q \in Circuit, m \in Nat, n \in Nat : Earned(q, m) /\ n >= m => Earned(q, n)
    BY BreakerAssumption DEF Earned, Circuit
  <2>7. at[d] = "marking" => Earned(copy[d], kk)
    <3>. HIDE DEF k, kk
    <3>. QED BY <2>4, <2>5, <2>6
  <2>8. at[d] = "counting" => Earned(copy[d], kk + 1)
    <3>. HIDE DEF k, kk
    <3>1. k + 1 \in Nat /\ kk + 1 \in Nat /\ kk + 1 >= k + 1
      BY <2>4
    <3>. QED BY <2>4, <2>5, <2>6, <3>1
  <2>. QED BY <2>1, <2>7, <2>8
<1>5. ~stale' => CopiesEarned'
  BY <1>4, FixedMeans DEF CopiesEarned
<1>. QED BY <1>1, <1>2, <1>3, <1>5 DEF BreakerInv

LEMMA LeaveKeeps ==
    ASSUME BreakerInv, Fixed, NEW c \in Calls, Tool(c) \in Tools, at[c] \in Inside,
           NEW v \in {"ok", "error"}, Leave(c, v)
    PROVE  BreakerInv'
<1>. /\ at \in [Calls -> Steps] /\ clock \in 1 .. MaxClock /\ copy \in [Calls -> Circuit]
     /\ answer \in [Calls -> {"none", "ok", "error", "refused", "lost"}] /\ stale \in BOOLEAN
     /\ streak \in [Places -> [Tools -> Nat]]
  BY DEF BreakerInv, ToolTypeOK
<1>. clock' = clock /\ copy' = copy /\ stale' = stale
  BY DEF Leave
<1>1. /\ at' \in [Calls -> Steps]
      /\ answer' \in [Calls -> {"none", "ok", "error", "refused", "lost"}]
      /\ \A d \in Calls \ {c} : at'[d] = at[d]
      /\ at'[c] = (IF Guarded(c) /\ Shared THEN "recording" ELSE "end")
  BY DEF Leave, End, Steps
<1>2. \A d \in Calls :
         /\ at[d] \in {"marking", "recording", "counting"} => Shared /\ Guarded(d)
         /\ at[d] # "idle" => Tool(d) \in Tools
  BY DEF BreakerInv, Asking
<1>3. CASE ~Guarded(c) \/ Shared
  <2>1. circuit' = circuit /\ streak' = streak
    BY <1>3 DEF Leave
  <2>. QED BY <1>1, <1>2, <2>1, QuietStep
<1>4. CASE Guarded(c) /\ ~Shared
  <2> DEFINE s == Recorded(State(c), v)
             k == streak[Place(c)][Tool(c)]
             kk == streak'[Place(c)][Tool(c)]
  <2>1. Set(c, s) /\ IF v = "ok" THEN Succeeds(c) ELSE Fails(c)
    BY <1>4 DEF Leave
  <2>2. Place(c) \in Places /\ State(c) \in Circuit /\ k \in Nat
    BY TableAfter
  <2>3. s \in Circuit
    BY <2>2, CircuitAfter DEF Recorded
  <2>4. /\ streak' \in [Places -> [Tools -> Nat]]
        /\ \A x \in Places, t \in Tools :
              x # Place(c) \/ t # Tool(c) => streak'[x][t] = streak[x][t]
        /\ kk = IF v = "ok" THEN 0 ELSE k + 1
    BY <2>1, <2>2, TableAfter
  <2>5. ~stale => Earned(s, kk)
    <3>1. ~stale => Earned(State(c), k)
      BY <2>2 DEF BreakerInv, CircuitsEarned, State
    <3>2. Earned(Closed, 0) /\ (Earned(State(c), k) => Earned(Counted(State(c)), k + 1))
      <4>. HIDE DEF k
      <4>. QED BY <2>2, CircuitAfter
    <3>. QED BY <3>1, <3>2, <2>4 DEF Recorded
  <2>. HIDE DEF s, k, kk
  <2>. QED BY <1>1, <1>4, <2>1, <2>3, <2>4, <2>5, WriteStep DEF kk
<1>. QED BY <1>3, <1>4

LEMMA AdmitKeeps ==
    ASSUME BreakerInv, Fixed, NEW c \in Calls, Tool(c) \in Tools, NEW o \in Outcomes,
           Admit(c, o)
    PROVE  BreakerInv'
<1>. /\ at \in [Calls -> Steps] /\ clock \in 1 .. MaxClock /\ copy \in [Calls -> Circuit]
     /\ answer \in [Calls -> {"none", "ok", "error", "refused", "lost"}] /\ stale \in BOOLEAN
     /\ streak \in [Places -> [Tools -> Nat]]
  BY DEF BreakerInv, ToolTypeOK
<1> DEFINE s == IF o = "ok" THEN State(c) ELSE Closed
           k == streak[Place(c)][Tool(c)]
<1>1. at[c] = "idle" /\ Guarded(c) /\ UNCHANGED <<clock, streak, stale>>
  BY DEF Admit
<1>2. Place(c) \in Places /\ State(c) \in Circuit /\ k \in Nat
  BY TableAfter
<1>3. s \in Circuit /\ Probing(s) \in Circuit
  BY <1>2, CircuitAfter
<1>4. ~stale => Earned(s, k) /\ Earned(Probing(s), k)
  <2>1. ~stale => Earned(State(c), k)
    BY <1>2 DEF BreakerInv, CircuitsEarned, State
  <2>2. \A q \in Circuit : Earned(Closed, k) /\ (Earned(q, k) => Earned(Probing(q), k))
    <3>. HIDE DEF k
    <3>. QED BY <1>2, CircuitAfter
  <2>. HIDE DEF k
  <2>. QED BY <1>3, <2>1, <2>2
<1>5. \A d \in Calls :
         /\ at[d] \in {"marking", "recording", "counting"} => Shared /\ Guarded(d)
         /\ at[d] # "idle" => Tool(d) \in Tools
  BY DEF BreakerInv, Asking
<1>6. CASE Cooling(s)
  <2>1. End(c, "refused") /\ UNCHANGED <<circuit, copy>>
    BY <1>6 DEF Admit
  <2>2. /\ at' \in [Calls -> Steps]
        /\ answer' \in [Calls -> {"none", "ok", "error", "refused", "lost"}]
        /\ at'[c] = "end" /\ \A d \in Calls \ {c} : at'[d] = at[d]
    BY <2>1 DEF End, Steps
  <2>. QED BY <1>1, <1>5, <2>1, <2>2, QuietStep
<1>7. CASE ~Cooling(s) /\ Shared /\ s.opened # 0
  <2>1. /\ copy' = [copy EXCEPT ![c] = Probing(s)] /\ at' = [at EXCEPT ![c] = "marking"]
        /\ UNCHANGED <<answer, circuit>>
    BY <1>7 DEF Admit
  <2>2. Place(c) = "redis"
    BY <1>7 DEF Place
  <2>3. at' \in [Calls -> Steps]
    BY <2>1 DEF Steps
  <2>4. /\ copy' \in [Calls -> Circuit] /\ copy'[c] = Probing(s) /\ at'[c] = "marking"
        /\ \A d \in Calls \ {c} : at'[d] = at[d] /\ copy'[d] = copy[d]
    <3>. HIDE DEF s
    <3>. QED BY <2>1, <1>3
  <2>. HIDE DEF s
  <2>. QED BY <1>1, <1>4, <1>5, <1>7, <2>1, <2>2, <2>3, <2>4, QuietStep
<1>8. CASE ~Cooling(s) /\ ~(Shared /\ s.opened # 0)
  <2>1. /\ at' = [at EXCEPT ![c] = "running"]
        /\ IF Shared THEN UNCHANGED circuit ELSE Set(c, Probing(s))
        /\ UNCHANGED <<answer, copy>>
    BY <1>8 DEF Admit
  <2>2. /\ at' \in [Calls -> Steps] /\ at'[c] = "running"
        /\ \A d \in Calls \ {c} : at'[d] = at[d]
    BY <2>1 DEF Steps
  <2>. HIDE DEF s
  <2>3. CASE Shared
    BY <1>1, <1>5, <2>1, <2>2, <2>3, QuietStep
  <2>4. CASE ~Shared
    <3>1. Set(c, Probing(s))
      BY <2>1, <2>4
    <3>2. "running" \in Inside
      BY DEF Inside
    <3>. QED BY <1>1, <1>2, <1>3, <1>4, <2>1, <2>2, <2>4, <3>1, <3>2, WriteStep
  <2>. QED BY <2>3, <2>4
<1>. QED BY <1>6, <1>7, <1>8

LEMMA MarkKeeps ==
    ASSUME BreakerInv, Fixed, NEW c \in Calls, Tool(c) \in Tools, NEW o \in Outcomes,
           Mark(c, o)
    PROVE  BreakerInv'
<1>. /\ at \in [Calls -> Steps] /\ clock \in 1 .. MaxClock /\ copy \in [Calls -> Circuit]
     /\ answer \in [Calls -> {"none", "ok", "error", "refused", "lost"}] /\ stale \in BOOLEAN
     /\ streak \in [Places -> [Tools -> Nat]]
  BY DEF BreakerInv, ToolTypeOK
<1>1. /\ at[c] = "marking" /\ at' = [at EXCEPT ![c] = "running"]
      /\ copy' = [copy EXCEPT ![c] = Closed] /\ UNCHANGED <<answer, clock, streak, stale>>
      /\ IF Effect(o) THEN Set(c, copy[c]) ELSE UNCHANGED circuit
  BY DEF Mark
<1>2. Closed \in Circuit
  BY CircuitAfter, TableAfter
<1>3. /\ at' \in [Calls -> Steps] /\ copy' \in [Calls -> Circuit] /\ at'[c] = "running"
      /\ \A d \in Calls \ {c} : at'[d] = at[d] /\ copy'[d] = copy[d]
  BY <1>1, <1>2 DEF Steps
<1>4. \A d \in Calls :
         /\ at[d] \in {"marking", "recording", "counting"} => Shared /\ Guarded(d)
         /\ at[d] # "idle" => Tool(d) \in Tools
  BY DEF BreakerInv, Asking
<1>5. CASE ~Effect(o)
  BY <1>1, <1>3, <1>4, <1>5, QuietStep
<1>6. CASE Effect(o)
  <2>1. Place(c) = "redis" /\ Place(c) \in Places /\ streak[Place(c)][Tool(c)] \in Nat
    BY <1>1, <1>4, TableAfter DEF Place
  <2>2. ~stale => Earned(copy[c], streak[Place(c)][Tool(c)])
    BY <1>1, <2>1 DEF BreakerInv, CopiesEarned
  <2>3. Set(c, copy[c]) /\ copy[c] \in Circuit /\ "running" \in Inside
    BY <1>1, <1>6 DEF Inside
  <2>. QED BY <1>1, <1>3, <2>1, <2>2, <2>3, WriteStep
<1>. QED BY <1>5, <1>6

LEMMA RecordKeeps ==
    ASSUME BreakerInv, Fixed, NEW c \in Calls, Tool(c) \in Tools, NEW o \in Outcomes,
           RecordSuccess(c, o)
    PROVE  BreakerInv'
<1>. /\ at \in [Calls -> Steps] /\ clock \in 1 .. MaxClock /\ copy \in [Calls -> Circuit]
     /\ answer \in [Calls -> {"none", "ok", "error", "refused", "lost"}] /\ stale \in BOOLEAN
     /\ streak \in [Places -> [Tools -> Nat]]
  BY DEF BreakerInv, ToolTypeOK
<1>1. /\ at[c] = "recording" /\ End(c, "ok") /\ UNCHANGED <<clock, copy>>
  BY DEF RecordSuccess
<1>2. /\ at' \in [Calls -> Steps]
      /\ answer' \in [Calls -> {"none", "ok", "error", "refused", "lost"}]
      /\ at'[c] = "end" /\ \A d \in Calls \ {c} : at'[d] = at[d]
  BY <1>1 DEF End, Steps
<1>3. \A d \in Calls :
         /\ at[d] \in {"marking", "recording", "counting"} => Shared /\ Guarded(d)
         /\ at[d] # "idle" => Tool(d) \in Tools
  BY DEF BreakerInv, Asking
<1>4. CASE ~Effect(o)
  <2>1. UNCHANGED <<circuit, streak, stale>>
    BY <1>4 DEF RecordSuccess
  <2>. QED BY <1>1, <1>2, <1>3, <2>1, QuietStep
<1>5. CASE Effect(o)
  <2>1. /\ Set(c, Closed) /\ Succeeds(c)
        /\ stale' = (stale \/ \E d \in Calls \ {c} : Tool(d) = Tool(c)
                                                     /\ at[d] \in {"marking", "counting"})
    BY <1>5 DEF RecordSuccess
  <2>2. Closed \in Circuit /\ Earned(Closed, 0) /\ Place(c) \in Places
    BY TableAfter, CircuitAfter
  <2>3. /\ streak' \in [Places -> [Tools -> Nat]] /\ streak'[Place(c)][Tool(c)] = 0
        /\ \A x \in Places, t \in Tools :
              x # Place(c) \/ t # Tool(c) => streak'[x][t] = streak[x][t]
    BY <2>1, <2>2, TableAfter
  <2>4. stale' \in BOOLEAN /\ (stale => stale')
    BY <2>1
  <2>5. stale' \/ \A d \in Calls \ {c} : Tool(d) = Tool(c) => at[d] \notin {"marking", "counting"}
    BY <2>1
  <2>. QED BY <1>1, <1>2, <2>1, <2>2, <2>3, <2>4, <2>5, WriteStep
<1>. QED BY <1>4, <1>5

LEMMA LoadKeeps ==
    ASSUME BreakerInv, Fixed, NEW c \in Calls, Tool(c) \in Tools, NEW o \in Outcomes,
           LoadFailure(c, o)
    PROVE  BreakerInv'
<1>. /\ at \in [Calls -> Steps] /\ clock \in 1 .. MaxClock /\ copy \in [Calls -> Circuit]
     /\ answer \in [Calls -> {"none", "ok", "error", "refused", "lost"}] /\ stale \in BOOLEAN
     /\ streak \in [Places -> [Tools -> Nat]]
  BY DEF BreakerInv, ToolTypeOK
<1> DEFINE s == IF o = "ok" THEN State(c) ELSE Closed
           k == streak[Place(c)][Tool(c)]
<1>1. /\ at[c] = "recording" /\ at' = [at EXCEPT ![c] = "counting"]
      /\ copy' = [copy EXCEPT ![c] = Counted(s)]
      /\ UNCHANGED <<answer, clock, circuit, streak, stale>>
  BY DEF LoadFailure
<1>2. \A d \in Calls :
         /\ at[d] \in {"marking", "recording", "counting"} => Shared /\ Guarded(d)
         /\ at[d] # "idle" => Tool(d) \in Tools
  BY DEF BreakerInv, Asking
<1>3. Place(c) = "redis" /\ Place(c) \in Places /\ State(c) \in Circuit /\ k \in Nat
  BY <1>1, <1>2, TableAfter DEF Place
<1>4. s \in Circuit /\ Counted(s) \in Circuit
  BY <1>3, CircuitAfter
<1>5. ~stale => Earned(Counted(s), k + 1)
  <2>1. ~stale => Earned(State(c), k)
    BY <1>3 DEF BreakerInv, CircuitsEarned, State
  <2>2. \A q \in Circuit : Earned(Closed, k) /\ (Earned(q, k) => Earned(Counted(q), k + 1))
    <3>. HIDE DEF k
    <3>. QED BY <1>3, CircuitAfter
  <2>. HIDE DEF k
  <2>. QED BY <1>4, <2>1, <2>2
<1>. HIDE DEF s
<1>6. /\ at' \in [Calls -> Steps] /\ copy' \in [Calls -> Circuit]
      /\ at'[c] = "counting" /\ copy'[c] = Counted(s)
      /\ \A d \in Calls \ {c} : at'[d] = at[d] /\ copy'[d] = copy[d]
  BY <1>1, <1>4 DEF Steps
<1>. QED BY <1>1, <1>2, <1>3, <1>5, <1>6, QuietStep

LEMMA SaveKeeps ==
    ASSUME BreakerInv, Fixed, NEW c \in Calls, Tool(c) \in Tools, NEW o \in Outcomes,
           SaveFailure(c, o)
    PROVE  BreakerInv'
<1>. /\ at \in [Calls -> Steps] /\ clock \in 1 .. MaxClock /\ copy \in [Calls -> Circuit]
     /\ answer \in [Calls -> {"none", "ok", "error", "refused", "lost"}] /\ stale \in BOOLEAN
     /\ streak \in [Places -> [Tools -> Nat]]
  BY DEF BreakerInv, ToolTypeOK
<1>1. /\ at[c] = "counting" /\ End(c, "error") /\ copy' = [copy EXCEPT ![c] = Closed]
      /\ UNCHANGED <<clock, stale>>
      /\ IF Effect(o) THEN Set(c, copy[c]) /\ Fails(c) ELSE UNCHANGED <<circuit, streak>>
  BY DEF SaveFailure
<1>2. Closed \in Circuit
  BY CircuitAfter, TableAfter
<1>3. /\ at' \in [Calls -> Steps] /\ copy' \in [Calls -> Circuit] /\ at'[c] = "end"
      /\ answer' \in [Calls -> {"none", "ok", "error", "refused", "lost"}]
      /\ \A d \in Calls \ {c} : at'[d] = at[d] /\ copy'[d] = copy[d]
  BY <1>1, <1>2 DEF End, Steps
<1>4. \A d \in Calls :
         /\ at[d] \in {"marking", "recording", "counting"} => Shared /\ Guarded(d)
         /\ at[d] # "idle" => Tool(d) \in Tools
  BY DEF BreakerInv, Asking
<1>5. CASE ~Effect(o)
  BY <1>1, <1>3, <1>4, <1>5, QuietStep
<1>6. CASE Effect(o)
  <2> DEFINE k == streak[Place(c)][Tool(c)]
             kk == streak'[Place(c)][Tool(c)]
  <2>1. Set(c, copy[c]) /\ Fails(c) /\ copy[c] \in Circuit
    BY <1>1, <1>6
  <2>2. Place(c) = "redis" /\ Place(c) \in Places /\ k \in Nat
    BY <1>1, <1>4, TableAfter DEF Place
  <2>3. /\ streak' \in [Places -> [Tools -> Nat]] /\ kk = k + 1
        /\ \A x \in Places, t \in Tools :
              x # Place(c) \/ t # Tool(c) => streak'[x][t] = streak[x][t]
    BY <2>1, <2>2, TableAfter
  <2>4. ~stale => Earned(copy[c], kk)
    BY <1>1, <2>2, <2>3 DEF BreakerInv, CopiesEarned
  <2>5. kk >= k
    BY <2>2, <2>3
  <2>. QED BY <1>1, <1>3, <2>1, <2>2, <2>3, <2>4, <2>5, WriteStep
<1>. QED BY <1>5, <1>6

\* A process that starts anew forgets its own table and its own failures together.
LEMMA CrashKeeps ==
    ASSUME BreakerInv, Fixed, NEW p \in Processes, Crash(p)
    PROVE  BreakerInv'
<1>. /\ at \in [Calls -> Steps] /\ clock \in 1 .. MaxClock /\ copy \in [Calls -> Circuit]
     /\ answer \in [Calls -> {"none", "ok", "error", "refused", "lost"}] /\ stale \in BOOLEAN
     /\ streak \in [Places -> [Tools -> Nat]]
  BY DEF BreakerInv, ToolTypeOK
<1> DEFINE open == {d \in Calls : Process(d) = p /\ at[d] \notin {"idle", "end"}}
<1>1. /\ at' = [d \in Calls |-> IF d \in open THEN "end" ELSE at[d]]
      /\ answer' = [d \in Calls |-> IF d \in open THEN "lost" ELSE answer[d]]
      /\ circuit' = [circuit EXCEPT ![p] = [t \in Tools |-> Closed]]
      /\ streak' = [streak EXCEPT ![p] = [t \in Tools |-> 0]]
      /\ UNCHANGED <<clock, copy, stale>>
  BY DEF Crash
<1>2. \A d \in open : at[d] # "idle"
  OBVIOUS
<1>. HIDE DEF open
<1>3. p \in Places /\ "redis" \in Places /\ p # "redis"
  BY PlacesAssumption DEF Places
<1>4. Closed \in Circuit /\ Earned(Closed, 0)
  BY BreakerAssumption DEF Closed, Circuit, Earned
<1>5. ToolTypeOK'
  <2>1. circuit' \in [Places -> [Tools -> Circuit]] /\ streak' \in [Places -> [Tools -> Nat]]
    BY <1>1, <1>3, <1>4 DEF BreakerInv, ToolTypeOK
  <2>. QED BY <1>1, <2>1 DEF ToolTypeOK, Steps
<1>6. Asking'
  BY <1>1, <1>2, FixedMeans DEF BreakerInv, Asking
<1>7. CircuitsEarned => CircuitsEarned'
  BY <1>1, <1>3, <1>4 DEF BreakerInv, ToolTypeOK, CircuitsEarned
<1>8. CopiesEarned => CopiesEarned'
  BY <1>1, <1>3, FixedMeans DEF CopiesEarned
<1>. QED BY <1>1, <1>5, <1>6, <1>7, <1>8 DEF BreakerInv

LEMMA BreakerStep == BreakerInv /\ [Next]_vars => BreakerInv'
<1>. SUFFICES ASSUME BreakerInv, [Next]_vars PROVE BreakerInv'
  OBVIOUS
<1>. /\ at \in [Calls -> Steps] /\ clock \in 1 .. MaxClock /\ copy \in [Calls -> Circuit]
     /\ answer \in [Calls -> {"none", "ok", "error", "refused", "lost"}] /\ stale \in BOOLEAN
     /\ streak \in [Places -> [Tools -> Nat]]
  BY DEF BreakerInv, ToolTypeOK
<1>1. CASE UNCHANGED vars
  BY <1>1
  DEF BreakerInv, ToolTypeOK, Asking, CircuitsEarned, CopiesEarned, vars, toolVars, Shared,
      Process, Tool, Guarded
<1>2. CASE Next
  <2>1. Fixed
    BY <1>2 DEF Next, Fixed
  <2>2. ASSUME NEW c \in Calls, Tool(c) \in Tools, Body(c)
        PROVE  BreakerInv'
    BY <2>1, <2>2, BodyLeaves, OnwardKeeps, LeaveKeeps
  <2>3. ASSUME NEW c \in Calls, Tool(c) \in Tools, Middleware(c)
        PROVE  BreakerInv'
    <3>1. CASE Enter(c)
      <4>1. /\ at[c] = "idle" /\ at' = [at EXCEPT ![c] = "running"]
            /\ UNCHANGED <<answer, clock, circuit, copy, streak, stale>>
        BY <3>1 DEF Enter
      <4>2. at' \in [Calls -> Steps]
        BY <4>1 DEF Steps
      <4>3. \A d \in Calls :
               /\ at[d] \in {"marking", "recording", "counting"} => Shared /\ Guarded(d)
               /\ at[d] # "idle" => Tool(d) \in Tools
        BY DEF BreakerInv, Asking
      <4>. QED BY <2>1, <2>3, <4>1, <4>2, <4>3, QuietStep
    <3>. QED
      BY <2>1, <2>3, <3>1, AdmitKeeps, MarkKeeps, RecordKeeps, LoadKeeps, SaveKeeps
      DEF Middleware
  <2>4. CASE Tick
    <3>1. /\ clock' = clock + 1 /\ clock < MaxClock
          /\ UNCHANGED <<at, answer, circuit, copy, streak, stale>>
      BY <2>4 DEF Tick
    <3>2. clock' \in 1 .. MaxClock
      BY <3>1, BreakerAssumption
    <3>3. \A d \in Calls :
             /\ at[d] \in {"marking", "recording", "counting"} => Shared /\ Guarded(d)
             /\ at[d] # "idle" => Tool(d) \in Tools
      BY DEF BreakerInv, Asking
    <3>. QED BY <2>1, <3>1, <3>2, <3>3, QuietStep
  <2>. QED BY <1>2, <2>1, <2>2, <2>3, <2>4, CrashKeeps DEF Next
<1>. QED BY <1>1, <1>2

LEMMA BreakerSafe == Spec => []BreakerInv
<1>1. Init => BreakerInv
  <2>. SUFFICES ASSUME Init PROVE BreakerInv
    OBVIOUS
  <2>1. Closed \in Circuit /\ Earned(Closed, 0)
    BY BreakerAssumption DEF Closed, Circuit, Earned
  <2>2. 1 \in 1 .. MaxClock
    BY BreakerAssumption
  <2>3. ToolTypeOK
    BY <2>1, <2>2 DEF Init, ToolInit, ToolTypeOK, Steps
  <2>4. Asking
    BY CasesAssumption DEF Init, ToolInit, Asking, Process
  <2>5. CircuitsEarned /\ CopiesEarned
    BY <2>1 DEF Init, ToolInit, CircuitsEarned, CopiesEarned
  <2>. QED BY <2>3, <2>4, <2>5 DEF BreakerInv
<1>. QED BY <1>1, BreakerStep, PTL DEF Spec

(* A circuit opens only after Threshold failures with no success between,  *)
(* in a process's own table and in the one shared through Redis, for any   *)
(* number of processes whose loads and saves interleave, unless a copy     *)
(* loaded before a success was saved after it (shared_breaker.py).         *)
THEOREM CircuitsSafe == Spec => []OpensOnlyAfterFailures
<1>1. BreakerInv => OpensOnlyAfterFailures
  BY DEF BreakerInv, CircuitsEarned, Earned, OpensOnlyAfterFailures
<1>. QED BY <1>1, BreakerSafe, PTL
-----------------------------------------------------------------------------
(* Orders.  Where a call is in its own work.                               *)
Early(c) == at[c] \in {"idle", "marking", "running", "numbering"}
Half(c) == at[c] \in {"saving", "writing"}
Done(c) == at[c] \in {"recording", "counting", "end"}

OrderShape ==
    /\ rows \in [Stores -> [Numbers -> Order \cup {Nothing}]]
    /\ counter \in [Processes -> 0 .. NumberBound]
    /\ number \in [Calls -> {0} \cup Numbers]
    /\ order \in [Calls -> Order \cup {Nothing}] /\ seen \in [Calls -> Order \cup {Nothing}]
    /\ \A c \in Calls : /\ Process(c) \in Processes /\ Items(c) \in Asked
                        /\ ask[c].target \in Numbers

\* What a call has done by where it stands, and what its answer says of it.
Stages ==
    \A c \in Calls :
        /\ at[c] \in {"numbering", "saving", "writing"} => Sql
        /\ at[c] = "numbering" => Tool(c) = "create"
        /\ Half(c) => order[c] # Nothing
        /\ Early(c) => order[c] = Nothing
        /\ order[c] # Nothing => \/ Tool(c) = "create" /\ number[c] # 0 /\ order[c] = Placed(c)
                                 \/ Tool(c) = "cancel" /\ order[c].status = "CANCELLED"
        /\ answer[c] # "none" => Done(c)
        /\ at[c] = "counting" => answer[c] = "error"
        /\ answer[c] = "lost" => at[c] = "end"
        /\ InDoubt(c) => answer[c] \in {"error", "lost"}
        /\ answer[c] = "ok" /\ Tool(c) \in {"create", "cancel"} => order[c] # Nothing

\* The table is numbered without a gap.  A create holds the next number: a row of that
\* number means that another create held it too.
NoGap(x) == \E k \in 0 .. NumberBound : \A n \in Numbers : rows[x][n] # Nothing <=> n <= k

NumbersHeld ==
    /\ NoGap("db")
    /\ \A c \in Calls : Tool(c) = "create" /\ Half(c) =>
          /\ rows["db"][number[c]] # Nothing => Collided(number[c])
          /\ \A n \in Numbers : n < number[c] => rows["db"][n] # Nothing
          /\ \A d \in Calls : d # c /\ Holds(d, number[c]) => Collided(number[c])
    /\ \A c \in Calls : at[c] = "writing" /\ seen[c] # Nothing => rows["db"][NumberOf(c)] # Nothing

\* A cancellation holds a copy of the row, and the row is cancelled once it has been
\* saved; a cancelled row stays so.
IsCancelled(x, n) == rows[x][n] # Nothing /\ rows[x][n].status = "CANCELLED"

CancelsKept ==
    \A c \in Calls : Sql /\ Tool(c) = "cancel" /\ order[c] # Nothing =>
        LET n == ask[c].target
            row == rows["db"][n] IN
        /\ row # Nothing
        /\ Collided(n) \/ (order[c].by = row.by /\ order[c].lines = row.lines)
        /\ at[c] = "writing" => /\ seen[c] # Nothing
                                /\ seen[c].status = "CANCELLED" => IsCancelled("db", n) \/ Collided(n)
        /\ ~Half(c) => IsCancelled("db", n) \/ Collided(n) \/ InDoubt(c) \/ answer[c] = "lost"

CreatesKept ==
    \A c \in Calls : Tool(c) = "create" /\ answer[c] = "ok" =>
        Kept(c) \/ (Sql /\ Collided(number[c])) \/ (~Sql /\ Restarted(Process(c)))

\* In memory numbers are never given twice between two starts of the process.
MemoryKept ==
    ~Sql => /\ \A p \in Processes, n \in Numbers : rows[p][n] # Nothing => n <= counter[p]
            /\ \A c \in Calls : Tool(c) = "cancel" /\ order[c] # Nothing =>
                  IsCancelled(Process(c), ask[c].target) \/ Restarted(Process(c))

\* A row, and what a cancellation copied from one, is by a create that may have stored it.
Stored(c) == answer[c] \in {"ok", "lost"} \/ <<"doubt", c>> \in excuse
Authors ==
    \A c \in Calls : Tool(c) = "create" /\ ~Stored(c) =>
        /\ \A x \in Stores, n \in Numbers : rows[x][n] # Nothing => rows[x][n].by # c
        /\ \A d \in Calls : Tool(d) = "cancel" /\ order[d] # Nothing => order[d].by # c

OrderInv ==
    /\ OrderShape /\ Stages /\ NumbersHeld /\ CancelsKept
    /\ CreatesKept /\ MemoryKept /\ Authors /\ ReturnedOnce

LEMMA OrderOfIsOrder ==
    ASSUME NEW b \in Calls \cup {Before}, NEW st \in {"CONFIRMED", "CANCELLED"}, NEW l \in Asked
    PROVE  /\ OrderOf(b, st, l) \in Order /\ OrderOf(b, st, l) # Nothing
           /\ OrderOf(b, st, l).by = b /\ OrderOf(b, st, l).status = st
           /\ OrderOf(b, st, l).lines = l
BY NothingAssumption DEF OrderOf, Order

LEMMA OrderFields ==
    ASSUME NEW r \in Order
    PROVE  /\ r.by \in Calls \cup {Before} /\ r.status \in {"CONFIRMED", "CANCELLED"}
           /\ r.lines \in Asked /\ r # Nothing
BY NothingAssumption DEF Order

LEMMA DoubtMeans ==
    \A c : InDoubt(c) <=> <<"unsaved", c>> \in excuse \/ <<"doubt", c>> \in excuse
BY DEF InDoubt

LEMMA DoubtMeansNext ==
    \A c : InDoubt(c)' <=> <<"unsaved", c>> \in excuse' \/ <<"doubt", c>> \in excuse'
BY DEF InDoubt

LEMMA StoreMeans ==
    ASSUME Fixed
    PROVE  /\ Sql' = Sql
           /\ \A c : Store(c)' = Store(c) /\ Items(c)' = Items(c) /\ Placed(c)' = Placed(c)
           /\ \A c : Process(c)' = Process(c) /\ Tool(c)' = Tool(c)
           /\ \A c : ask'[c].target = ask[c].target
BY DEF Fixed, Sql, Store, Items, Placed, Process, Tool

\* What has been told after the step.
CollidedNext(n) == <<"collision", n>> \in excuse'
RestartedNext(p) == <<"restarted", p>> \in excuse'

\* What a step may do to a call that it does not let save or number anything.
Moves(d) ==
    /\ Half(d)' => at'[d] = at[d]
    /\ Early(d)' => Early(d)
    /\ at'[d] = "numbering" => Sql /\ Tool(d) = "create"
    /\ answer'[d] # "none" => Done(d)'
    /\ at'[d] = "counting" => answer'[d] = "error"
    /\ answer'[d] = "lost" => at'[d] = "end"
    /\ InDoubt(d)' => answer'[d] \in {"error", "lost"}
    /\ Half(d) => Half(d)' \/ InDoubt(d)' \/ answer'[d] = "lost"
    /\ answer'[d] = "ok" => answer[d] = "ok" \/ Tool(d) \notin {"create", "cancel"}
    /\ answer[d] \in {"ok", "lost"} => answer'[d] \in {answer[d], "lost"}

\* Such a step keeps the invariant, also when a process loses what it had in memory.
LEMMA CallsMove ==
    ASSUME OrderInv, Fixed, UNCHANGED <<number, order, seen>>, excuse \subseteq excuse',
           rows' \in [Stores -> [Numbers -> Order \cup {Nothing}]], rows'["db"] = rows["db"],
           counter' \in [Processes -> 0 .. NumberBound],
           \A p \in Processes :
              \/ rows'[p] = rows[p] /\ counter'[p] >= counter[p]
              \/ Restarted(p)' /\ \A n \in Numbers : rows'[p][n] = Nothing,
           \A d \in Calls : Moves(d)
    PROVE  OrderInv'
<1>. /\ \A c : InDoubt(c) => InDoubt(c)'
     /\ \A n : Collided(n) => Collided(n)'
     /\ \A p : Restarted(p) => Restarted(p)'
  BY DoubtMeans, DoubtMeansNext DEF Collided, Restarted
<1>1. OrderShape'
  BY StoreMeans DEF OrderInv, OrderShape
<1>2. Stages'
  <2>. SUFFICES ASSUME NEW c \in Calls
                PROVE  /\ at'[c] \in {"numbering", "saving", "writing"} => Sql
                       /\ at'[c] = "numbering" => Tool(c) = "create"
                       /\ Half(c)' => order[c] # Nothing
                       /\ Early(c)' => order[c] = Nothing
                       /\ answer'[c] # "none" => Done(c)'
                       /\ at'[c] = "counting" => answer'[c] = "error"
                       /\ answer'[c] = "lost" => at'[c] = "end"
                       /\ InDoubt(c)' => answer'[c] \in {"error", "lost"}
                       /\ answer'[c] = "ok" /\ Tool(c) \in {"create", "cancel"}
                            => order[c] # Nothing
    BY StoreMeans DEF OrderInv, Stages
  <2>1. Moves(c)
    OBVIOUS
  <2>2. /\ at[c] \in {"numbering", "saving", "writing"} => Sql
        /\ Half(c) => order[c] # Nothing
        /\ Early(c) => order[c] = Nothing
        /\ answer[c] = "ok" /\ Tool(c) \in {"create", "cancel"} => order[c] # Nothing
    BY DEF OrderInv, Stages
  <2>3. (Half(c)' <=> at'[c] \in {"saving", "writing"}) /\ (Half(c) <=> at[c] \in {"saving", "writing"})
    BY DEF Half
  <2>. QED BY <2>1, <2>2, <2>3 DEF Moves
<1>3. NumbersHeld'
  <2>1. NoGap("db")'
    BY DEF OrderInv, NumbersHeld, NoGap
  <2>2. \A c \in Calls : /\ Half(c)' => Half(c) /\ at'[c] = at[c]
                         /\ NumberOf(c)' = NumberOf(c)
                         /\ at'[c] = "writing" => at[c] = "writing"
    BY StoreMeans DEF Moves, Half, NumberOf
  <2>3. \A d \in Calls : \A n : Holds(d, n)' => Holds(d, n)
    BY <2>2, StoreMeans DEF Holds, Half
  <2>. QED BY <2>1, <2>2, <2>3, StoreMeans DEF OrderInv, NumbersHeld
<1>4. CancelsKept'
  <2>. SUFFICES ASSUME NEW c \in Calls, Sql, Tool(c) = "cancel", order[c] # Nothing
                PROVE  LET n == ask[c].target
                           row == rows["db"][n] IN
                       /\ row # Nothing
                       /\ Collided(n)' \/ (order[c].by = row.by /\ order[c].lines = row.lines)
                       /\ at'[c] = "writing" => /\ seen[c] # Nothing
                                                /\ seen[c].status = "CANCELLED"
                                                     => IsCancelled("db", n)' \/ Collided(n)'
                       /\ ~Half(c)' => \/ IsCancelled("db", n)' \/ Collided(n)' \/ InDoubt(c)'
                                       \/ answer'[c] = "lost"
    BY StoreMeans DEF CancelsKept
  <2>1. Moves(c)
    OBVIOUS
  <2>2. \A n : IsCancelled("db", n)' <=> IsCancelled("db", n)
    BY DEF IsCancelled
  <2>3. at'[c] = "writing" => at[c] = "writing"
    BY <2>1 DEF Moves, Half
  <2>4. ~Half(c)' => ~Half(c) \/ InDoubt(c)' \/ answer'[c] = "lost"
    BY <2>1 DEF Moves
  <2>5. answer[c] = "lost" => answer'[c] = "lost"
    BY <2>1 DEF Moves
  <2>6. LET n == ask[c].target
            row == rows["db"][n] IN
        /\ row # Nothing
        /\ Collided(n) \/ (order[c].by = row.by /\ order[c].lines = row.lines)
        /\ at[c] = "writing" => /\ seen[c] # Nothing
                                /\ seen[c].status = "CANCELLED"
                                     => IsCancelled("db", n) \/ Collided(n)
        /\ ~Half(c) => IsCancelled("db", n) \/ Collided(n) \/ InDoubt(c) \/ answer[c] = "lost"
    BY DEF OrderInv, CancelsKept
  <2>. PICK n \in Numbers : n = ask[c].target
    BY DEF OrderInv, OrderShape
  <2>7. ask'[c].target = n
    BY StoreMeans
  <2>. QED BY <2>2, <2>3, <2>4, <2>5, <2>6, <2>7
<1>5. CreatesKept'
  <2>. SUFFICES ASSUME NEW c \in Calls, Tool(c) = "create", answer'[c] = "ok"
                PROVE  Kept(c)' \/ (Sql /\ Collided(number[c])') \/ (~Sql /\ Restarted(Process(c))')
    BY StoreMeans DEF CreatesKept
  <2>1. answer[c] = "ok"
    BY DEF Moves
  <2>2. Kept(c) \/ (Sql /\ Collided(number[c])) \/ (~Sql /\ Restarted(Process(c)))
    BY <2>1 DEF OrderInv, CreatesKept
  <2>3. Process(c) \in Processes
    BY DEF OrderInv, OrderShape
  <2>4. \A n : Restocks(n)' = Restocks(n)
    BY StoreMeans DEF Restocks
  <2>5. CASE Kept(c) /\ rows'[Store(c)] = rows[Store(c)]
    BY <2>4, <2>5, StoreMeans DEF Kept, NumberOf
  <2>6. CASE rows'[Store(c)] # rows[Store(c)]
    <3>. PICK p \in Processes : p = Process(c)
      BY <2>3
    <3>1. ~Sql /\ Restarted(p)'
      BY <2>6 DEF Store
    <3>2. Restarted(Process(c))' <=> Restarted(p)'
      BY StoreMeans DEF Restarted
    <3>. QED BY <3>1, <3>2
  <2>7. /\ Collided(number[c]) => Collided(number[c])'
        /\ Restarted(Process(c)) => Restarted(Process(c))'
    BY StoreMeans DEF Collided, Restarted
  <2>. QED BY <2>2, <2>5, <2>6, <2>7
<1>6. MemoryKept'
  <2>. SUFFICES ASSUME ~Sql
                PROVE  /\ \A p \in Processes, n \in Numbers :
                             rows'[p][n] # Nothing => n <= counter'[p]
                       /\ \A c \in Calls : Tool(c) = "cancel" /\ order[c] # Nothing =>
                             IsCancelled(Process(c), ask[c].target)' \/ Restarted(Process(c))'
    BY StoreMeans DEF MemoryKept, IsCancelled
  <2>1. \A p \in Processes, n \in Numbers : rows[p][n] # Nothing => n <= counter[p]
    BY DEF OrderInv, MemoryKept
  <2>8. \A p \in Processes : counter[p] \in Nat /\ counter'[p] \in Nat
    BY OrdersAssumption DEF OrderInv, OrderShape
  <2>9. Numbers \subseteq Nat
    BY OrdersAssumption DEF Numbers
  <2>2. \A c \in Calls : Tool(c) = "cancel" /\ order[c] # Nothing =>
           IsCancelled(Process(c), ask[c].target) \/ Restarted(Process(c))
    BY DEF OrderInv, MemoryKept
  <2>3. \A c \in Calls : Process(c) \in Processes
    BY DEF OrderInv, OrderShape
  <2>4. \A c \in Calls : IsCancelled(Process(c), ask[c].target) =>
           IsCancelled(Process(c), ask[c].target)' \/ Restarted(Process(c))'
    BY <2>3, StoreMeans DEF IsCancelled, Restarted
  <2>5. \A c \in Calls : Restarted(Process(c)) => Restarted(Process(c))'
    BY StoreMeans DEF Restarted
  <2>. QED BY <2>1, <2>2, <2>4, <2>5, <2>8, <2>9
<1>7. Authors'
  <2>1. \A c \in Calls : Stored(c) => Stored(c)'
    BY DEF Moves, Stored
  <2>2. \A x \in Stores, n \in Numbers : rows'[x][n] # Nothing => rows'[x][n] = rows[x][n]
    BY DEF Stores
  <2>. QED BY <2>1, <2>2, StoreMeans DEF OrderInv, Authors
<1>8. ReturnedOnce'
  <2>1. \A n : Restocks(n)' = Restocks(n)
    BY StoreMeans DEF Restocks
  <2>2. \A c \in Calls : answer[c] = "lost" => answer'[c] = "lost"
    BY DEF Moves
  <2>. QED BY <2>1, <2>2, StoreMeans DEF OrderInv, ReturnedOnce
<1>. QED BY <1>1, <1>2, <1>3, <1>4, <1>5, <1>6, <1>7, <1>8 DEF OrderInv

(* The parts of the invariant after a step, one order number at a time.    *)
LEMMA CancelsNext ==
    ASSUME OrderInv, Fixed,
           \A d \in Calls, m \in Numbers :
              Sql /\ Tool(d) = "cancel" /\ order'[d] # Nothing /\ m = ask[d].target =>
                 /\ rows'["db"][m] # Nothing
                 /\ CollidedNext(m) \/ (/\ order'[d].by = rows'["db"][m].by
                                        /\ order'[d].lines = rows'["db"][m].lines)
                 /\ at'[d] = "writing" => /\ seen'[d] # Nothing
                                          /\ seen'[d].status = "CANCELLED" =>
                                                \/ rows'["db"][m].status = "CANCELLED"
                                                \/ CollidedNext(m)
                 /\ ~Half(d)' => \/ rows'["db"][m].status = "CANCELLED" \/ CollidedNext(m)
                                 \/ InDoubt(d)' \/ answer'[d] = "lost"
    PROVE  CancelsKept'
<1>. SUFFICES ASSUME NEW d \in Calls, Sql, Tool(d) = "cancel", order'[d] # Nothing
              PROVE  LET m == ask'[d].target
                         row == rows'["db"][m] IN
                     /\ row # Nothing
                     /\ <<"collision", m>> \in excuse'
                        \/ (order'[d].by = row.by /\ order'[d].lines = row.lines)
                     /\ at'[d] = "writing" =>
                           /\ seen'[d] # Nothing
                           /\ seen'[d].status = "CANCELLED" =>
                                 \/ row # Nothing /\ row.status = "CANCELLED"
                                 \/ <<"collision", m>> \in excuse'
                     /\ ~Half(d)' => \/ row # Nothing /\ row.status = "CANCELLED"
                                     \/ <<"collision", m>> \in excuse' \/ InDoubt(d)'
                                     \/ answer'[d] = "lost"
  BY StoreMeans DEF CancelsKept, Collided, IsCancelled
<1>. PICK m \in Numbers : m = ask[d].target
  BY DEF OrderInv, OrderShape
<1>1. ask'[d].target = m
  BY StoreMeans
<1>. QED BY <1>1 DEF CollidedNext

LEMMA CancelsNow ==
    ASSUME OrderInv, Sql, NEW d \in Calls, Tool(d) = "cancel", order[d] # Nothing,
           NEW m, m = ask[d].target
    PROVE  /\ rows["db"][m] # Nothing
           /\ Collided(m) \/ (/\ order[d].by = rows["db"][m].by
                              /\ order[d].lines = rows["db"][m].lines)
           /\ at[d] = "writing" => /\ seen[d] # Nothing
                                   /\ seen[d].status = "CANCELLED" =>
                                         rows["db"][m].status = "CANCELLED" \/ Collided(m)
           /\ ~Half(d) => \/ rows["db"][m].status = "CANCELLED" \/ Collided(m)
                          \/ InDoubt(d) \/ answer[d] = "lost"
BY DEF OrderInv, CancelsKept, IsCancelled

LEMMA NumbersNext ==
    ASSUME OrderInv, Fixed, NoGap("db")',
           \A d \in Calls : Tool(d) = "create" /\ Half(d)' => number'[d] \in Numbers,
           \A d \in Calls, m \in Numbers :
              Tool(d) = "create" /\ Half(d)' /\ number'[d] = m =>
                 /\ rows'["db"][m] # Nothing => CollidedNext(m)
                 /\ \A i \in Numbers : i < m => rows'["db"][i] # Nothing
                 /\ \A e \in Calls : e # d /\ Tool(e) = "create" /\ Half(e)' /\ number'[e] = m
                       => CollidedNext(m),
           \A d \in Calls : at'[d] = "writing" /\ seen'[d] # Nothing =>
              rows'["db"][NumberOf(d)'] # Nothing
    PROVE  NumbersHeld'
<1>1. NumbersHeld' <=>
         /\ NoGap("db")'
         /\ \A d \in Calls : Tool(d) = "create" /\ Half(d)' =>
               /\ rows'["db"][number'[d]] # Nothing => <<"collision", number'[d]>> \in excuse'
               /\ \A i \in Numbers : i < number'[d] => rows'["db"][i] # Nothing
               /\ \A e \in Calls : e # d /\ Holds(e, number[d])'
                      => <<"collision", number'[d]>> \in excuse'
         /\ \A d \in Calls : at'[d] = "writing" /\ seen'[d] # Nothing
                              => rows'["db"][NumberOf(d)'] # Nothing
  BY StoreMeans DEF NumbersHeld, Collided
<1>2. \A d \in Calls, m \in Numbers : m = number'[d] =>
         \A e \in Calls : Holds(e, number[d])' =>
                             Tool(e) = "create" /\ Half(e)' /\ number'[e] = m
  BY StoreMeans DEF Holds, Half
<1>. QED BY <1>1, <1>2 DEF CollidedNext

\* A create half way holds a number of the table.
LEMMA NumbersNow ==
    ASSUME OrderInv, NEW d \in Calls, Tool(d) = "create", Half(d), NEW m, number[d] = m
    PROVE  /\ m \in Numbers
           /\ rows["db"][m] # Nothing => Collided(m)
           /\ \A i \in Numbers : i < m => rows["db"][i] # Nothing
           /\ \A e \in Calls : e # d /\ Tool(e) = "create" /\ Half(e) /\ number[e] = m => Collided(m)
<1>1. m \in Numbers
  BY DEF OrderInv, OrderShape, Stages
<1>. QED BY <1>1 DEF OrderInv, NumbersHeld, Holds, Half

LEMMA ReturnedNext ==
    ASSUME OrderInv, Fixed,
           \A c, d \in Calls, n \in Numbers :
              /\ c # d /\ Store(c) = Store(d) /\ Tool(c) = "cancel" /\ Tool(d) = "cancel"
              /\ ask[c].target = n /\ ask[d].target = n /\ order'[c] # Nothing /\ order'[d] # Nothing
              => \/ <<"twice", n>> \in excuse' \/ CollidedNext(n) \/ InDoubt(c)' \/ InDoubt(d)'
                 \/ answer'[c] = "lost" \/ answer'[d] = "lost"
                 \/ (~Sql /\ RestartedNext(Process(c)))
    PROVE  ReturnedOnce'
<1>. SUFFICES ASSUME NEW c \in Calls, NEW d \in Calls, c # d, Store(c) = Store(d),
                     c \in Restocks(ask[c].target)', d \in Restocks(ask[c].target)'
              PROVE  \/ <<"twice", ask'[c].target>> \in excuse'
                     \/ <<"collision", ask'[c].target>> \in excuse'
                     \/ InDoubt(c)' \/ InDoubt(d)'
                     \/ answer'[c] = "lost" \/ answer'[d] = "lost"
                     \/ (~Sql /\ <<"restarted", Process(c)>> \in excuse')
  BY StoreMeans DEF ReturnedOnce, Collided, Restarted
<1>. PICK n \in Numbers : n = ask[c].target
  BY DEF OrderInv, OrderShape
<1>1. ask'[c].target = n
  BY StoreMeans
<1>2. /\ Tool(c) = "cancel" /\ Tool(d) = "cancel" /\ ask[d].target = n
      /\ order'[c] # Nothing /\ order'[d] # Nothing
  BY <1>1, StoreMeans DEF Restocks
<1>. QED BY <1>1, <1>2 DEF CollidedNext, RestartedNext

\* Only call c is touched, and it gets an order or leaves with one.
OthersRest(c) ==
    \A d \in Calls : d # c => /\ at'[d] = at[d] /\ answer'[d] = answer[d]
                              /\ number'[d] = number[d] /\ order'[d] = order[d]
                              /\ (InDoubt(d)' <=> InDoubt(d))

LEMMA StagesKept ==
    ASSUME OrderInv, Fixed, NEW c \in Calls, OthersRest(c),
           \/ at'[c] \in {"saving", "writing"} /\ Sql /\ answer'[c] = "none" /\ ~InDoubt(c)'
           \/ /\ at'[c] \in {"recording", "end"} /\ answer'[c] \in {"ok", "error"}
              /\ InDoubt(c)' => answer'[c] = "error",
           order'[c] # Nothing,
           \/ Tool(c) = "create" /\ number'[c] # 0 /\ order'[c] = Placed(c)
           \/ Tool(c) = "cancel" /\ order'[c].status = "CANCELLED"
    PROVE  Stages'
<1>. SUFFICES ASSUME NEW d \in Calls
              PROVE  /\ at'[d] \in {"numbering", "saving", "writing"} => Sql
                     /\ at'[d] = "numbering" => Tool(d) = "create"
                     /\ Half(d)' => order'[d] # Nothing
                     /\ Early(d)' => order'[d] = Nothing
                     /\ order'[d] # Nothing =>
                           \/ Tool(d) = "create" /\ number'[d] # 0 /\ order'[d] = Placed(d)
                           \/ Tool(d) = "cancel" /\ order'[d].status = "CANCELLED"
                     /\ answer'[d] # "none" => Done(d)'
                     /\ at'[d] = "counting" => answer'[d] = "error"
                     /\ answer'[d] = "lost" => at'[d] = "end"
                     /\ InDoubt(d)' => answer'[d] \in {"error", "lost"}
                     /\ answer'[d] = "ok" /\ Tool(d) \in {"create", "cancel"}
                          => order'[d] # Nothing
  BY StoreMeans DEF Stages
<1>1. CASE d = c
  BY <1>1 DEF Half, Early, Done
<1>2. CASE d # c
  <2>1. /\ at'[d] = at[d] /\ answer'[d] = answer[d]
        /\ number'[d] = number[d] /\ order'[d] = order[d] /\ (InDoubt(d)' <=> InDoubt(d))
    BY <1>2 DEF OthersRest
  <2>2. (Half(d)' <=> Half(d)) /\ (Early(d)' <=> Early(d)) /\ (Done(d)' <=> Done(d))
    BY <2>1 DEF Half, Early, Done
  <2>. QED BY <2>1, <2>2 DEF OrderInv, Stages
<1>. QED BY <1>1, <1>2

\* What an excuse of one call leaves untouched.
LEMMA ExcuseAfter ==
    ASSUME NEW c,
           \/ excuse' = excuse \/ Excuse(<<"inflated", c>>)
           \/ Excuse(<<"unsaved", c>>) \/ Excuse(<<"doubt", c>>)
    PROVE  /\ excuse \subseteq excuse'
           /\ \A d : d # c => (InDoubt(d)' <=> InDoubt(d))
           /\ Excuse(<<"unsaved", c>>) \/ Excuse(<<"doubt", c>>) => InDoubt(c)'
           /\ excuse' = excuse \/ Excuse(<<"inflated", c>>) => (InDoubt(c)' <=> InDoubt(c))
BY DoubtMeans, DoubtMeansNext DEF Excuse

LEMMA LeaveAfter ==
    ASSUME BreakerInv, NEW c \in Calls, NEW v, Leave(c, v)
    PROVE  /\ at'[c] \in {"recording", "end"} /\ answer'[c] = v
           /\ \A d \in Calls : d # c => at'[d] = at[d] /\ answer'[d] = answer[d]
BY DEF BreakerInv, ToolTypeOK, Leave, End

\* A call that a step does not touch.
LEMMA OthersMove ==
    ASSUME OrderInv, NEW d \in Calls, at'[d] = at[d], answer'[d] = answer[d],
           InDoubt(d)' <=> InDoubt(d)
    PROVE  Moves(d)
BY DEF OrderInv, Stages, Moves, Half, Early, Done

\* A call leaves its tool with an error, or with a success that stored nothing.
LEMMA LeaveMoves ==
    ASSUME OrderInv, BreakerInv, Fixed, NEW c \in Calls, at[c] \in Inside,
           NEW v \in {"ok", "error"}, Leave(c, v),
           v = "ok" => Tool(c) \notin {"create", "cancel"} /\ excuse' = excuse,
           \/ excuse' = excuse \/ Excuse(<<"inflated", c>>)
           \/ Excuse(<<"unsaved", c>>) \/ Excuse(<<"doubt", c>>),
           Half(c) => Excuse(<<"unsaved", c>>) \/ Excuse(<<"doubt", c>>)
    PROVE  excuse \subseteq excuse' /\ \A d \in Calls : Moves(d)
<1>1. ASSUME NEW d \in Calls, d # c
      PROVE  Moves(d)
  BY <1>1, LeaveAfter, ExcuseAfter, OthersMove
<1>2. Moves(c)
  <2>1. at'[c] \in {"recording", "end"} /\ answer'[c] = v
    BY LeaveAfter
  <2>2. answer[c] = "none" /\ ~InDoubt(c)
    BY DEF OrderInv, Stages, Inside, Done
  <2>3. /\ Half(c) => InDoubt(c)'
        /\ v = "ok" => ~InDoubt(c)'
    BY <2>2, ExcuseAfter
  <2>. QED BY <2>1, <2>2, <2>3 DEF Moves, Half, Early, Done
<1>. QED BY <1>1, <1>2, ExcuseAfter

LEMMA LeaveKept ==
    ASSUME OrderInv, BreakerInv, Fixed, NEW c \in Calls, at[c] \in Inside,
           UNCHANGED <<number, order, seen, rows>>,
           counter' \in [Processes -> 0 .. NumberBound],
           \A p \in Processes : counter'[p] >= counter[p],
           NEW v \in {"ok", "error"}, Leave(c, v),
           v = "ok" => Tool(c) \notin {"create", "cancel"} /\ excuse' = excuse,
           \/ excuse' = excuse \/ Excuse(<<"inflated", c>>)
           \/ Excuse(<<"unsaved", c>>) \/ Excuse(<<"doubt", c>>),
           Half(c) => Excuse(<<"unsaved", c>>) \/ Excuse(<<"doubt", c>>)
    PROVE  OrderInv'
<1>1. rows' \in [Stores -> [Numbers -> Order \cup {Nothing}]]
  BY DEF OrderInv, OrderShape
<1>2. excuse \subseteq excuse' /\ \A d \in Calls : Moves(d)
  BY LeaveMoves
<1>. QED BY <1>1, <1>2, CallsMove

\* The middleware and the clock look after no order.
LEMMA MiddlewareKept ==
    ASSUME OrderInv, BreakerInv, Fixed, NEW c \in Calls, Middleware(c)
    PROVE  OrderInv'
<1>. at \in [Calls -> Steps] /\ answer \in [Calls -> {"none", "ok", "error", "refused", "lost"}]
  BY DEF BreakerInv, ToolTypeOK
<1>1. UNCHANGED <<rows, counter, number, order, seen, excuse>>
  BY DEF Middleware, dataVars
<1>2. /\ rows \in [Stores -> [Numbers -> Order \cup {Nothing}]]
      /\ counter \in [Processes -> 0 .. NumberBound]
  BY DEF OrderInv, OrderShape
<1>3. \A p \in Processes : counter[p] >= counter[p]
  BY <1>2, OrdersAssumption
<1>4. \A d \in Calls : InDoubt(d)' <=> InDoubt(d)
  BY <1>1 DEF InDoubt
<1>5. /\ \A d \in Calls : d # c => at'[d] = at[d] /\ answer'[d] = answer[d]
      /\ \/ at[c] = "idle" /\ at'[c] \in {"marking", "running"} /\ answer'[c] = answer[c]
         \/ at[c] = "idle" /\ at'[c] = "end" /\ answer'[c] = "refused"
         \/ at[c] = "marking" /\ at'[c] = "running" /\ answer'[c] = answer[c]
         \/ at[c] = "recording" /\ answer[c] = "ok" /\ at'[c] = "end" /\ answer'[c] = "ok"
         \/ at[c] = "recording" /\ answer[c] = "error" /\ at'[c] = "counting" /\ answer'[c] = "error"
         \/ at[c] = "counting" /\ at'[c] = "end" /\ answer'[c] = "error"
  BY DEF Middleware, Enter, Admit, Mark, RecordSuccess, LoadFailure, SaveFailure, End
<1>6. Moves(c)
  <2>1. /\ answer[c] # "none" => Done(c)
        /\ at[c] = "counting" => answer[c] = "error"
        /\ InDoubt(c) => answer[c] \in {"error", "lost"}
    BY DEF OrderInv, Stages
  <2>. QED BY <1>4, <1>5, <2>1 DEF Moves, Half, Early, Done
<1>7. \A d \in Calls : Moves(d)
  BY <1>4, <1>5, <1>6, OthersMove
<1>. QED BY <1>1, <1>2, <1>3, <1>7, CallsMove

LEMMA CrashKept ==
    ASSUME OrderInv, BreakerInv, Fixed, NEW p \in Processes, Crash(p)
    PROVE  OrderInv'
<1> DEFINE open == {d \in Calls : Process(d) = p /\ at[d] \notin {"idle", "end"}}
<1>1. /\ at' = [d \in Calls |-> IF d \in open THEN "end" ELSE at[d]]
      /\ answer' = [d \in Calls |-> IF d \in open THEN "lost" ELSE answer[d]]
      /\ counter' = [counter EXCEPT ![p] = 0]
      /\ rows' = [rows EXCEPT ![p] = [n \in Numbers |-> Nothing]]
      /\ excuse' = excuse \cup {<<"restarted", p>>} /\ UNCHANGED <<number, order, seen>>
  BY DEF Crash, Excuse
<1>2. /\ rows \in [Stores -> [Numbers -> Order \cup {Nothing}]]
      /\ counter \in [Processes -> 0 .. NumberBound]
      /\ p \in Stores /\ p # "db" /\ "db" \in Stores /\ NumberBound \in Nat
  BY StoresAssumption, OrdersAssumption DEF OrderInv, OrderShape, Stores
<1>3. rows' \in [Stores -> [Numbers -> Order \cup {Nothing}]] /\ rows'["db"] = rows["db"]
  BY <1>1, <1>2
<1>4. counter' \in [Processes -> 0 .. NumberBound]
  BY <1>1, <1>2
<1>5. Restarted(p)' /\ \A n \in Numbers : rows'[p][n] = Nothing
  BY <1>1, <1>2 DEF Restarted
<1>6. \A q \in Processes : q # p => rows'[q] = rows[q] /\ counter'[q] >= counter[q]
  BY <1>1, <1>2 DEF Stores
<1>7. \A d \in Calls : InDoubt(d)' <=> InDoubt(d)
  BY <1>1, DoubtMeans, DoubtMeansNext
<1>8. ASSUME NEW d \in Calls
      PROVE  Moves(d)
  <2>1. CASE d \notin open
    <3>1. at'[d] = at[d] /\ answer'[d] = answer[d]
      BY <1>1, <2>1
    <3>. QED BY <1>7, <3>1, OthersMove
  <2>2. CASE d \in open
    <3>1. at'[d] = "end" /\ answer'[d] = "lost"
      BY <1>1, <2>2
    <3>. QED BY <3>1 DEF Moves, Half, Early, Done
  <2>. QED BY <2>1, <2>2
<1>. HIDE DEF open
<1>. QED BY <1>1, <1>3, <1>4, <1>5, <1>6, <1>8, CallsMove

\* The rows of the table are counted by their last number.
LEMMA RowsCounted ==
    ASSUME NoGap("db")
    PROVE  /\ CountRows \in 0 .. NumberBound
           /\ \A n \in Numbers : rows["db"][n] # Nothing <=> n <= CountRows
<1>. PICK k \in 0 .. NumberBound : \A n \in Numbers : rows["db"][n] # Nothing <=> n <= k
  BY DEF NoGap
<1>. NumberBound \in Nat
  BY OrdersAssumption
<1>1. {n \in Numbers : rows["db"][n] # Nothing} = 1 .. k
  BY DEF Numbers
<1>2. Cardinality(1 .. k) = k
  BY FS_Interval
<1>. QED BY <1>1, <1>2 DEF CountRows

LEMMA NumberedKept ==
    ASSUME OrderInv, BreakerInv, Fixed, NEW c \in Calls, NEW n \in Numbers,
           at[c] = "numbering", n = CountRows + 1,
           number' = [number EXCEPT ![c] = n], order' = [order EXCEPT ![c] = Placed(c)],
           at' = [at EXCEPT ![c] = "saving"], UNCHANGED <<answer, rows, counter, seen>>,
           IF \E d \in Calls \ {c} : Holds(d, n) THEN Excuse(<<"collision", n>>)
                                                 ELSE excuse' = excuse
    PROVE  OrderInv'
<1>1. /\ at \in [Calls -> Steps] /\ number \in [Calls -> {0} \cup Numbers]
      /\ order \in [Calls -> Order \cup {Nothing}]
  BY DEF BreakerInv, ToolTypeOK, OrderInv, OrderShape
<1>2. Sql /\ Tool(c) = "create" /\ order[c] = Nothing /\ answer[c] = "none"
  BY DEF OrderInv, Stages, Early, Done
<1>3. Placed(c) \in Order /\ Placed(c) # Nothing /\ n # 0
  BY OrderOfIsOrder, OrdersAssumption DEF OrderInv, OrderShape, Placed, Numbers
<1>4. /\ at'[c] = "saving" /\ number'[c] = n /\ order'[c] = Placed(c)
      /\ \A d \in Calls : d # c =>
            at'[d] = at[d] /\ number'[d] = number[d] /\ order'[d] = order[d]
  BY <1>1
<1>5. /\ excuse \subseteq excuse' /\ \A d : InDoubt(d)' <=> InDoubt(d)
      /\ \A m : Collided(m) => CollidedNext(m)
      /\ \A d \in Calls : d # c /\ Holds(d, n) => CollidedNext(n)
      /\ \A d : Stored(d) <=> Stored(d)'
  <2>1. /\ excuse \subseteq excuse' /\ excuse' \subseteq excuse \cup {<<"collision", n>>}
        /\ \A d \in Calls : d # c /\ Holds(d, n) => <<"collision", n>> \in excuse'
    BY DEF Excuse
  <2>2. \A d : InDoubt(d)' <=> InDoubt(d)
    BY <2>1, DoubtMeans, DoubtMeansNext
  <2>3. \A d : Stored(d) <=> Stored(d)'
    BY <2>1 DEF Stored
  <2>. QED BY <2>1, <2>2, <2>3 DEF Collided, CollidedNext
<1>6. \A d \in Calls : d # c => (Half(d)' <=> Half(d)) /\ (Early(d)' <=> Early(d))
                                /\ (Done(d)' <=> Done(d))
  BY <1>4 DEF Half, Early, Done
<1>7. Half(c)' /\ ~Early(c)' /\ ~Done(c)'
  BY <1>4 DEF Half, Early, Done
<1>8. OrderShape'
  BY <1>1, <1>3, StoreMeans DEF OrderInv, OrderShape
<1>9. Stages'
  <2>. SUFFICES ASSUME NEW d \in Calls
                PROVE  /\ at'[d] \in {"numbering", "saving", "writing"} => Sql
                       /\ at'[d] = "numbering" => Tool(d) = "create"
                       /\ Half(d)' => order'[d] # Nothing
                       /\ Early(d)' => order'[d] = Nothing
                       /\ order'[d] # Nothing =>
                             \/ Tool(d) = "create" /\ number'[d] # 0 /\ order'[d] = Placed(d)
                             \/ Tool(d) = "cancel" /\ order'[d].status = "CANCELLED"
                       /\ answer[d] # "none" => Done(d)'
                       /\ at'[d] = "counting" => answer[d] = "error"
                       /\ answer[d] = "lost" => at'[d] = "end"
                       /\ InDoubt(d)' => answer[d] \in {"error", "lost"}
                       /\ answer[d] = "ok" /\ Tool(d) \in {"create", "cancel"}
                            => order'[d] # Nothing
    BY StoreMeans DEF Stages
  <2>1. CASE d = c
    BY <1>2, <1>3, <1>4, <1>5, <1>7, <2>1 DEF OrderInv, Stages
  <2>2. CASE d # c
    BY <1>4, <1>5, <1>6, <2>2 DEF OrderInv, Stages
  <2>. QED BY <2>1, <2>2
<1>10. NumbersHeld'
  <2>1. NoGap("db") /\ NoGap("db")'
    BY DEF OrderInv, NumbersHeld, NoGap
  <2>2. rows["db"][n] = Nothing /\ \A m \in Numbers : m < n => rows["db"][m] # Nothing
    BY <2>1, RowsCounted, OrdersAssumption DEF Numbers
  <2>3. \A d \in Calls : d # c => (\A m : Holds(d, m)' <=> Holds(d, m))
                                  /\ NumberOf(d)' = NumberOf(d)
    BY <1>4, StoreMeans DEF Holds, NumberOf
  <2>4. \A m : Holds(c, m)' <=> m = n
    BY <1>2, <1>4, StoreMeans DEF Holds
  <2>5. \A d \in Calls : Tool(d) = "create" /\ Half(d) => Holds(d, number[d])
    BY DEF Holds, Half
  <2>6. ASSUME NEW d \in Calls, Tool(d) = "create", Half(d)', NEW m \in Numbers,
               m = number'[d]
        PROVE  /\ rows["db"][m] # Nothing => CollidedNext(m)
               /\ \A i \in Numbers : i < m => rows["db"][i] # Nothing
               /\ \A e \in Calls : e # d /\ Holds(e, m)' => CollidedNext(m)
    <3>1. CASE d = c
      BY <1>4, <1>5, <2>2, <2>3, <2>6, <3>1
    <3>2. CASE d # c
      <4>1. m = number[d] /\ Half(d)
        BY <1>4, <1>6, <2>6, <3>2
      <4>2. /\ rows["db"][m] # Nothing => Collided(m)
            /\ \A i \in Numbers : i < m => rows["db"][i] # Nothing
            /\ \A e \in Calls : e # d /\ Holds(e, m) => Collided(m)
        BY <2>6, <4>1 DEF OrderInv, NumbersHeld
      <4>3. m = n => CollidedNext(n)
        BY <1>5, <2>5, <2>6, <3>2, <4>1
      <4>. QED BY <1>4, <1>5, <2>3, <2>4, <4>2, <4>3
    <3>. QED BY <3>1, <3>2
  <2>8. \A d \in Calls : Tool(d) = "create" /\ Half(d)' => number'[d] \in Numbers
    BY <1>3, <1>4, <1>9, StoreMeans, <1>8 DEF Stages, OrderShape
  <2>7. \A d \in Calls : at'[d] = "writing" /\ seen[d] # Nothing => rows["db"][NumberOf(d)'] # Nothing
    BY <1>4, <2>3 DEF OrderInv, NumbersHeld
  <2>9. \A e \in Calls, m \in Numbers :
           Tool(e) = "create" /\ Half(e)' /\ number'[e] = m => Holds(e, m)'
    BY StoreMeans DEF Holds, Half
  <2>. QED BY <2>1, <2>6, <2>7, <2>8, <2>9, NumbersNext
<1>11. \A m : Restocks(m)' = Restocks(m)
  BY <1>2, <1>4, StoreMeans DEF Restocks
<1>12. CancelsKept'
  <2>1. ASSUME NEW d \in Calls, NEW m \in Numbers, Tool(d) = "cancel", order'[d] # Nothing,
               m = ask[d].target
        PROVE  /\ rows["db"][m] # Nothing
               /\ CollidedNext(m) \/ (/\ order'[d].by = rows["db"][m].by
                                      /\ order'[d].lines = rows["db"][m].lines)
               /\ at'[d] = "writing" => /\ seen[d] # Nothing
                                        /\ seen[d].status = "CANCELLED" =>
                                              rows["db"][m].status = "CANCELLED" \/ CollidedNext(m)
               /\ ~Half(d)' => \/ rows["db"][m].status = "CANCELLED" \/ CollidedNext(m)
                               \/ InDoubt(d)' \/ answer[d] = "lost"
    <3>1. d # c
      BY <1>2, <2>1
    <3>2. order[d] = order'[d] /\ at'[d] = at[d] /\ (InDoubt(d)' <=> InDoubt(d))
          /\ (Half(d)' <=> Half(d))
      BY <1>4, <1>5, <1>6, <3>1
    <3>3. Collided(m) => CollidedNext(m)
      BY <1>5
    <3>. QED BY <1>2, <2>1, <3>2, <3>3, CancelsNow
  <2>. QED BY <2>1, CancelsNext
<1>13. CreatesKept'
  <2>. SUFFICES ASSUME NEW d \in Calls, Tool(d) = "create", answer[d] = "ok"
                PROVE  Kept(d)' \/ CollidedNext(number'[d])
    BY <1>2, StoreMeans DEF CreatesKept, Collided, CollidedNext
  <2>1. d # c /\ number'[d] = number[d]
    BY <1>2, <1>4
  <2>2. Kept(d) \/ Collided(number[d])
    BY <1>2 DEF OrderInv, CreatesKept
  <2>3. Kept(d) => Kept(d)'
    BY <1>11, <2>1, StoreMeans DEF Kept, NumberOf
  <2>. QED BY <1>5, <2>1, <2>2, <2>3
<1>14. MemoryKept'
  BY <1>2, StoreMeans DEF MemoryKept
<1>15. Authors'
  BY <1>2, <1>4, <1>5, StoreMeans DEF OrderInv, Authors
<1>16. ReturnedOnce'
  BY <1>5, <1>11, StoreMeans DEF OrderInv, ReturnedOnce, Restarted, Collided
<1>. QED
  BY <1>8, <1>9, <1>10, <1>12, <1>13, <1>14, <1>15, <1>16 DEF OrderInv
\* The rows, and what calls have stored, seen from a call that a step leaves alone.
LEMMA OthersStay ==
    ASSUME NEW c \in Calls, \A d \in Calls : d # c => at'[d] = at[d] /\ answer'[d] = answer[d]
    PROVE  \A d \in Calls : d # c => /\ (Half(d)' <=> Half(d)) /\ (Early(d)' <=> Early(d))
                                     /\ (Done(d)' <=> Done(d))
BY DEF Half, Early, Done

\* merge() looks the row up: what the call has seen is what the table holds.
LEMMA MergedKept ==
    ASSUME OrderInv, BreakerInv, Fixed, NEW c \in Calls, at[c] = "saving",
           at' = [at EXCEPT ![c] = "writing"],
           seen' = [seen EXCEPT ![c] = rows["db"][NumberOf(c)]],
           UNCHANGED <<answer, rows, counter, number, order, excuse>>
    PROVE  OrderInv'
<1>1. /\ at \in [Calls -> Steps] /\ seen \in [Calls -> Order \cup {Nothing}]
      /\ rows \in [Stores -> [Numbers -> Order \cup {Nothing}]] /\ "db" \in Stores
  BY DEF BreakerInv, ToolTypeOK, OrderInv, OrderShape, Stores
<1>2. /\ at'[c] = "writing" /\ seen'[c] = rows["db"][NumberOf(c)] /\ Half(c) /\ Half(c)'
      /\ \A d \in Calls : d # c => at'[d] = at[d] /\ seen'[d] = seen[d]
  BY <1>1 DEF Half
<1>3. /\ \A d : InDoubt(d)' <=> InDoubt(d)
      /\ \A m : CollidedNext(m) <=> Collided(m)
      /\ \A p : RestartedNext(p) <=> Restarted(p)
      /\ \A d : Stored(d) <=> Stored(d)'
  BY DEF InDoubt, CollidedNext, Collided, RestartedNext, Restarted, Stored
<1>4. \A d \in Calls : (Half(d)' <=> Half(d)) /\ NumberOf(d)' = NumberOf(d)
  BY <1>2, OthersStay, StoreMeans DEF NumberOf
<1>5. /\ Sql /\ order[c] # Nothing /\ answer[c] = "none" /\ ~InDoubt(c)
      /\ \/ Tool(c) = "create" /\ number[c] # 0 /\ order[c] = Placed(c)
         \/ Tool(c) = "cancel" /\ order[c].status = "CANCELLED"
  BY <1>2 DEF OrderInv, Stages, Half, Done
<1>6. NumberOf(c) \in Numbers
  BY <1>5 DEF NumberOf, OrderInv, OrderShape
<1>7. OrderShape'
  BY <1>1, <1>6, StoreMeans DEF OrderInv, OrderShape
<1>8. Stages'
  <2>1. OthersRest(c)
    BY <1>2, <1>3 DEF OthersRest
  <2>2. at'[c] \in {"saving", "writing"} /\ Sql /\ answer'[c] = "none" /\ ~InDoubt(c)'
    BY <1>2, <1>3, <1>5
  <2>3. /\ order'[c] # Nothing
        /\ \/ Tool(c) = "create" /\ number'[c] # 0 /\ order'[c] = Placed(c)
           \/ Tool(c) = "cancel" /\ order'[c].status = "CANCELLED"
    BY <1>5
  <2>. QED BY <2>1, <2>2, <2>3, StagesKept
<1>9. NumbersHeld'
  <2>1. NoGap("db")'
    BY DEF OrderInv, NumbersHeld, NoGap
  <2>2. \A d \in Calls : at'[d] = "writing" /\ seen'[d] # Nothing =>
           rows["db"][NumberOf(d)'] # Nothing
    BY <1>2, <1>4 DEF OrderInv, NumbersHeld
  <2>. QED BY <1>3, <1>4, <2>1, <2>2, NumbersNow, NumbersNext
<1>10. CancelsKept'
  <2>1. ASSUME NEW d \in Calls, NEW m \in Numbers, Tool(d) = "cancel", order[d] # Nothing,
               m = ask[d].target
        PROVE  /\ rows["db"][m] # Nothing
               /\ CollidedNext(m) \/ (/\ order[d].by = rows["db"][m].by
                                      /\ order[d].lines = rows["db"][m].lines)
               /\ at'[d] = "writing" => /\ seen'[d] # Nothing
                                        /\ seen'[d].status = "CANCELLED" =>
                                              rows["db"][m].status = "CANCELLED" \/ CollidedNext(m)
               /\ ~Half(d)' => \/ rows["db"][m].status = "CANCELLED" \/ CollidedNext(m)
                               \/ InDoubt(d)' \/ answer[d] = "lost"
    <3>1. d = c => seen'[d] = rows["db"][m]
      BY <1>2, <2>1 DEF NumberOf
    <3>. QED BY <1>2, <1>3, <1>4, <1>5, <2>1, <3>1, CancelsNow
  <2>. QED BY <2>1, CancelsNext
<1>11. CreatesKept'
  <2>1. \A d : Kept(d)' <=> Kept(d)
    BY StoreMeans DEF Kept, NumberOf, Restocks
  <2>2. \A d : /\ Collided(number[d])' <=> Collided(number[d])
               /\ Restarted(Process(d))' <=> Restarted(Process(d))
    BY StoreMeans DEF Collided, Restarted
  <2>. QED BY <2>1, <2>2, StoreMeans DEF OrderInv, CreatesKept
<1>12. MemoryKept'
  BY <1>5, StoreMeans DEF MemoryKept
<1>13. Authors'
  BY <1>3, StoreMeans DEF OrderInv, Authors
<1>14. ReturnedOnce'
  BY <1>3, ReturnedNext DEF OrderInv, ReturnedOnce, Restocks
<1>. QED
  BY <1>7, <1>8, <1>9, <1>10, <1>11, <1>12, <1>13, <1>14 DEF OrderInv

\* What a save makes of the row it writes.  Its author and its lines stay, and so does
\* a cancellation; a create writes a new row, a cancellation a cancelled one.
LEMMA SavedRow ==
    ASSUME OrderInv, NEW c \in Calls, at[c] = "writing", ~Clash(c),
           NEW n, n = NumberOf(c), NEW w, w = Written(rows["db"][n], seen[c], order[c])
    PROVE  /\ n \in Numbers /\ w \in Order
           /\ rows["db"][n] = Nothing \/ Collided(n) \/
                 /\ w.by = rows["db"][n].by /\ w.lines = rows["db"][n].lines
                 /\ rows["db"][n].status = "CANCELLED" => w.status = "CANCELLED"
           /\ Tool(c) = "create" => /\ number[c] = n
                                    /\ Collided(n) \/ (rows["db"][n] = Nothing /\ w = Placed(c))
           /\ Tool(c) = "cancel" => ask[c].target = n /\ rows["db"][n] # Nothing
                                    /\ (Collided(n) \/ w.status = "CANCELLED")
           /\ w.by = order[c].by \/ (rows["db"][n] # Nothing /\ w.by = rows["db"][n].by)
<1> DEFINE now == rows["db"][n]
<1>1. /\ Sql /\ order[c] # Nothing /\ Half(c)
      /\ \/ Tool(c) = "create" /\ number[c] # 0 /\ order[c] = Placed(c)
         \/ Tool(c) = "cancel" /\ order[c].status = "CANCELLED"
  BY DEF OrderInv, Stages, Half
<1>2. n \in Numbers
  BY <1>1 DEF NumberOf, OrderInv, OrderShape
<1>3. order[c] \in Order /\ seen[c] \in Order \cup {Nothing} /\ now \in Order \cup {Nothing}
  BY <1>1, <1>2 DEF OrderInv, OrderShape, Stores
<1>4. seen[c] = Nothing <=> now = Nothing
  BY DEF OrderInv, NumbersHeld, Clash
<1>5. CASE now = Nothing
  <2>1. w = order[c]
    BY <1>4, <1>5 DEF Written
  <2>2. Tool(c) = "create"
    BY <1>1, <1>5, CancelsNow DEF NumberOf
  <2>. QED BY <1>1, <1>2, <1>3, <1>5, <2>1, <2>2 DEF NumberOf
<1>6. CASE now # Nothing
  <2>1. w = [by |-> IF order[c].by = seen[c].by THEN now.by ELSE order[c].by,
             status |-> IF order[c].status = seen[c].status THEN now.status ELSE order[c].status,
             lines |-> order[c].lines]
    BY <1>4, <1>6 DEF Written
  <2>2. w \in Order
    BY <1>3, <1>6, <2>1, OrderFields DEF Order
  <2>3. CASE Tool(c) = "create"
    <3>1. Collided(n) /\ number[c] = n
      BY <1>1, <1>6, <2>3, NumbersNow DEF NumberOf
    <3>. QED BY <1>2, <1>6, <2>1, <2>2, <2>3, <3>1
  <2>4. CASE Tool(c) = "cancel"
    <3>1. n = ask[c].target
      BY <2>4 DEF NumberOf
    <3>2. /\ Collided(n) \/ (order[c].by = now.by /\ order[c].lines = now.lines)
          /\ seen[c].status = "CANCELLED" => now.status = "CANCELLED" \/ Collided(n)
      BY <1>1, <2>4, <3>1, CancelsNow
    <3>3. order[c].status = "CANCELLED"
      BY <1>1, <2>4
    <3>. QED BY <1>2, <1>6, <2>1, <2>2, <2>4, <3>1, <3>2, <3>3
  <2>. QED BY <1>1, <2>3, <2>4
<1>. QED BY <1>5, <1>6
\* A save puts its row in the table, whether or not its answer comes back.
LEMMA StoredKept ==
    ASSUME OrderInv, BreakerInv, Fixed, NEW c \in Calls, at[c] = "writing", ~Clash(c),
           rows' = Saved(c), UNCHANGED <<counter, number, order, seen>>,
           NEW v \in {"ok", "error"}, Leave(c, v),
           \/ v = "ok" /\ excuse' = excuse
           \/ v = "error" /\ Excuse(<<"doubt", c>>)
    PROVE  OrderInv'
<1>. PICK n : n = NumberOf(c)
  OBVIOUS
<1>. PICK w : w = Written(rows["db"][n], seen[c], order[c])
  OBVIOUS
<1>1. /\ n \in Numbers /\ w \in Order
      /\ rows["db"][n] = Nothing \/ Collided(n) \/
            /\ w.by = rows["db"][n].by /\ w.lines = rows["db"][n].lines
            /\ rows["db"][n].status = "CANCELLED" => w.status = "CANCELLED"
      /\ Tool(c) = "create" => /\ number[c] = n
                               /\ Collided(n) \/ (rows["db"][n] = Nothing /\ w = Placed(c))
      /\ Tool(c) = "cancel" => ask[c].target = n /\ rows["db"][n] # Nothing
                               /\ (Collided(n) \/ w.status = "CANCELLED")
      /\ w.by = order[c].by \/ (rows["db"][n] # Nothing /\ w.by = rows["db"][n].by)
  BY SavedRow
<1>2. /\ rows \in [Stores -> [Numbers -> Order \cup {Nothing}]] /\ "db" \in Stores
      /\ NumberBound \in Nat
  BY OrdersAssumption DEF OrderInv, OrderShape, Stores
<1>3. /\ rows' \in [Stores -> [Numbers -> Order \cup {Nothing}]]
      /\ rows'["db"][n] = w /\ w # Nothing
      /\ \A x \in Stores, m \in Numbers : x # "db" \/ m # n => rows'[x][m] = rows[x][m]
  BY <1>1, <1>2, OrderFields DEF Saved
<1>4. /\ at'[c] \in {"recording", "end"} /\ answer'[c] = v
      /\ \A d \in Calls : d # c => at'[d] = at[d] /\ answer'[d] = answer[d]
  BY LeaveAfter
<1>5. /\ Sql /\ Half(c) /\ ~Half(c)' /\ order[c] # Nothing /\ answer[c] = "none" /\ ~InDoubt(c)
      /\ \/ Tool(c) = "create" /\ number[c] # 0 /\ order[c] = Placed(c)
         \/ Tool(c) = "cancel" /\ order[c].status = "CANCELLED"
  BY <1>4 DEF OrderInv, Stages, Half, Done
<1>6. /\ excuse \subseteq excuse' /\ \A d \in Calls : d # c => (InDoubt(d)' <=> InDoubt(d))
      /\ v = "ok" => (InDoubt(c)' <=> InDoubt(c))
      /\ v = "error" => <<"doubt", c>> \in excuse'
      /\ \A m : Collided(m) => CollidedNext(m)
      /\ \A p : Restarted(p) => RestartedNext(p)
      /\ \A d : InDoubt(d) => InDoubt(d)'
  <2>1. /\ excuse \subseteq excuse' /\ \A d \in Calls : d # c => (InDoubt(d)' <=> InDoubt(d))
        /\ v = "ok" => (InDoubt(c)' <=> InDoubt(c))
        /\ v = "error" => <<"doubt", c>> \in excuse'
    BY ExcuseAfter DEF Excuse
  <2>2. \A d : InDoubt(d) => InDoubt(d)'
    BY <2>1, DoubtMeans, DoubtMeansNext
  <2>. QED BY <2>1, <2>2 DEF Collided, CollidedNext, Restarted, RestartedNext
<1>7. \A d \in Calls : d # c => (Half(d)' <=> Half(d))
  BY <1>4, OthersStay
<1>8. OrderShape'
  BY <1>3, StoreMeans DEF OrderInv, OrderShape
<1>9. Stages'
  <2>1. OthersRest(c)
    BY <1>4, <1>6 DEF OthersRest
  <2>2. at'[c] \in {"recording", "end"} /\ answer'[c] \in {"ok", "error"}
        /\ (InDoubt(c)' => answer'[c] = "error")
    BY <1>4, <1>5, <1>6
  <2>. QED BY <1>5, <2>1, <2>2, StagesKept
<1>10. NumbersHeld'
  <2>1. NoGap("db")'
    <3>1. NoGap("db")
      BY DEF OrderInv, NumbersHeld
    <3>2. PICK k \in 0 .. NumberBound : \A m \in Numbers : rows["db"][m] # Nothing <=> m <= k
      BY <3>1 DEF NoGap
    <3>3. CASE rows["db"][n] # Nothing
      <4>1. \A m \in Numbers : rows'["db"][m] # Nothing <=> rows["db"][m] # Nothing
        BY <1>2, <1>3, <3>3
      <4>. QED BY <3>2, <4>1 DEF NoGap
    <3>4. CASE rows["db"][n] = Nothing
      <4>1. \A m \in Numbers : m < n => rows["db"][m] # Nothing
        BY <1>1, <1>5, <3>4, NumbersNow
      <4>2. k = n - 1
        <5>1. n \in Nat \ {0} /\ n <= NumberBound /\ k \in Nat
          BY <1>1, <1>2 DEF Numbers
        <5>2. ~(n <= k)
          BY <1>1, <3>2, <3>4
        <5>3. CASE n = 1
          BY <5>1, <5>2, <5>3
        <5>4. CASE n # 1
          <6>1. n - 1 \in Numbers /\ n - 1 < n
            BY <1>2, <5>1, <5>4 DEF Numbers
          <6>2. n - 1 <= k
            BY <3>2, <4>1, <6>1
          <6>. QED BY <5>1, <5>2, <6>2
        <5>. QED BY <5>3, <5>4
      <4>3. \A m \in Numbers : m <= n <=> m <= k \/ m = n
        BY <1>1, <1>2, <4>2 DEF Numbers
      <4>4. \A m \in Numbers : rows'["db"][m] # Nothing <=> m <= n
        BY <1>2, <1>3, <3>2, <4>3
      <4>5. n \in 0 .. NumberBound
        BY <1>1, <1>2 DEF Numbers
      <4>. QED BY <4>4, <4>5 DEF NoGap
    <3>. QED BY <3>3, <3>4
  <2>2. \A d \in Calls : Half(d)' => d # c /\ Half(d)
    BY <1>5, <1>7
  <2>3. ASSUME NEW d \in Calls, NEW m \in Numbers,
               Tool(d) = "create", Half(d)', number[d] = m
        PROVE  /\ rows'["db"][m] # Nothing => CollidedNext(m)
               /\ \A i \in Numbers : i < m => rows'["db"][i] # Nothing
               /\ \A e \in Calls : e # d /\ Tool(e) = "create" /\ Half(e)' /\ number[e] = m
                     => CollidedNext(m)
    <3>1. /\ rows["db"][m] # Nothing => Collided(m)
          /\ \A i \in Numbers : i < m => rows["db"][i] # Nothing
          /\ \A e \in Calls : e # d /\ Tool(e) = "create" /\ Half(e) /\ number[e] = m => Collided(m)
      BY <2>2, <2>3, NumbersNow
    <3>2. m = n => \/ rows["db"][n] # Nothing
                   \/ Tool(c) = "create" /\ number[c] = m
      BY <1>1, <1>5
    <3>. QED BY <1>2, <1>3, <1>5, <1>6, <2>2, <2>3, <3>1, <3>2
  <2>4. ASSUME NEW d \in Calls, at'[d] = "writing", seen[d] # Nothing
        PROVE  rows'["db"][NumberOf(d)'] # Nothing
    <3>1. NumberOf(d)' = NumberOf(d)
      BY StoreMeans DEF NumberOf
    <3>2. at[d] = "writing" /\ d # c
      BY <1>4, <2>4
    <3>3. rows["db"][NumberOf(d)] # Nothing
      BY <2>4, <3>2 DEF OrderInv, NumbersHeld
    <3>4. NumberOf(d) \in Numbers
      BY <3>2 DEF NumberOf, OrderInv, OrderShape, Stages, Half
    <3>. QED BY <1>2, <1>3, <3>1, <3>3, <3>4
  <2>5. \A d \in Calls : Tool(d) = "create" /\ Half(d)' => number[d] \in Numbers
    BY <2>2, NumbersNow
  <2>. QED BY <2>1, <2>3, <2>4, <2>5, NumbersNext
<1>11. CancelsKept'
  <2>1. ASSUME NEW d \in Calls, NEW m \in Numbers, Tool(d) = "cancel", order[d] # Nothing,
               m = ask[d].target
        PROVE  /\ rows'["db"][m] # Nothing
               /\ CollidedNext(m) \/ (/\ order[d].by = rows'["db"][m].by
                                      /\ order[d].lines = rows'["db"][m].lines)
               /\ at'[d] = "writing" => /\ seen[d] # Nothing
                                        /\ seen[d].status = "CANCELLED" =>
                                              rows'["db"][m].status = "CANCELLED" \/ CollidedNext(m)
               /\ ~Half(d)' => \/ rows'["db"][m].status = "CANCELLED" \/ CollidedNext(m)
                               \/ InDoubt(d)' \/ answer'[d] = "lost"
    <3>1. /\ rows["db"][m] # Nothing
          /\ Collided(m) \/ (/\ order[d].by = rows["db"][m].by
                             /\ order[d].lines = rows["db"][m].lines)
          /\ at[d] = "writing" => /\ seen[d] # Nothing
                                  /\ seen[d].status = "CANCELLED" =>
                                        rows["db"][m].status = "CANCELLED" \/ Collided(m)
          /\ ~Half(d) => \/ rows["db"][m].status = "CANCELLED" \/ Collided(m)
                         \/ InDoubt(d) \/ answer[d] = "lost"
      BY <1>5, <2>1, CancelsNow
    <3>2. \/ Collided(m) /\ rows'["db"][m] # Nothing
          \/ /\ rows'["db"][m] # Nothing
             /\ rows'["db"][m].by = rows["db"][m].by /\ rows'["db"][m].lines = rows["db"][m].lines
             /\ rows["db"][m].status = "CANCELLED" => rows'["db"][m].status = "CANCELLED"
      BY <1>1, <1>2, <1>3, <3>1
    <3>3. CASE d = c
      BY <1>1, <1>3, <1>4, <1>6, <2>1, <3>1, <3>2, <3>3
    <3>4. CASE d # c
      <4>1. at'[d] = at[d] /\ answer'[d] = answer[d] /\ (InDoubt(d)' <=> InDoubt(d))
            /\ (Half(d)' <=> Half(d)) /\ (Collided(m) => CollidedNext(m))
        BY <1>4, <1>6, <1>7, <3>4
      <4>. QED BY <3>1, <3>2, <4>1
    <3>. QED BY <3>3, <3>4
  <2>. QED BY <2>1, CancelsNext
<1>12. CreatesKept'
  <2>. SUFFICES ASSUME NEW d \in Calls, Tool(d) = "create", answer'[d] = "ok"
                PROVE  Kept(d)' \/ CollidedNext(number[d])
    BY <1>5, StoreMeans DEF CreatesKept, Collided, CollidedNext
  <2> DEFINE m == number[d]
  <2>0. Kept(d)' <=> /\ rows'["db"][m] # Nothing /\ rows'["db"][m].by = d
                     /\ rows'["db"][m].lines = Items(d)
                     /\ rows'["db"][m].status = "CANCELLED" => Restocks(m) # {}
    <3>1. Store(d)' = "db" /\ NumberOf(d)' = m /\ Restocks(number[d])' = Restocks(m)
      BY <1>5, StoreMeans DEF Store, NumberOf, Restocks
    <3>. QED BY <3>1, StoreMeans DEF Kept
  <2>1. CASE d = c
    <3>1. Collided(n) \/ w = Placed(c)
      BY <1>1, <2>1
    <3>2. m = n
      BY <1>1, <2>1
    <3>3. Placed(c).by = c /\ Placed(c).lines = Items(c) /\ Placed(c).status = "CONFIRMED"
      BY DEF Placed, OrderOf
    <3>. QED BY <1>3, <1>6, <2>0, <2>1, <3>1, <3>2, <3>3
  <2>2. CASE d # c
    <3>1. answer[d] = "ok"
      BY <1>4, <2>2
    <3>2. Collided(m) \/ Kept(d)
      BY <1>5, <3>1 DEF OrderInv, CreatesKept
    <3>3. Kept(d) <=> /\ rows["db"][m] # Nothing /\ rows["db"][m].by = d
                      /\ rows["db"][m].lines = Items(d)
                      /\ rows["db"][m].status = "CANCELLED" => Restocks(m) # {}
      BY <1>5 DEF Kept, Store, NumberOf
    <3>4. m \in Numbers
      BY <3>1 DEF OrderInv, OrderShape, Stages
    <3>5. CASE m # n
      BY <1>2, <1>3, <1>6, <2>0, <3>2, <3>3, <3>4, <3>5
    <3>6. CASE m = n
      <4>1. Tool(c) = "cancel" => c \in Restocks(n)
        BY <1>1, <1>5 DEF Restocks
      <4>2. w.status = "CANCELLED" /\ rows["db"][n] # Nothing => Collided(n) \/ Tool(c) = "cancel"
        BY <1>1, <1>5
      <4>3. Collided(n) => CollidedNext(m)
        BY <1>6, <3>6
      <4>. HIDE DEF m
      <4>4. rows'["db"][m] = w /\ rows["db"][m] = rows["db"][n] /\ Restocks(m) = Restocks(n)
        BY <1>3, <3>6
      <4>. QED BY <1>1, <1>3, <2>0, <3>2, <3>3, <3>6, <4>1, <4>2, <4>3, <4>4 DEF m
    <3>. QED BY <3>5, <3>6
  <2>. QED BY <2>1, <2>2
<1>13. MemoryKept'
  BY <1>5, StoreMeans DEF MemoryKept
<1>14. Authors'
  <2>. SUFFICES ASSUME NEW d \in Calls, Tool(d) = "create", ~Stored(d)'
                PROVE  /\ \A x \in Stores, m \in Numbers :
                             rows'[x][m] # Nothing => rows'[x][m].by # d
                       /\ \A e \in Calls : Tool(e) = "cancel" /\ order[e] # Nothing => order[e].by # d
    BY StoreMeans DEF Authors
  <2>1. d # c /\ ~Stored(d)
    BY <1>4, <1>6 DEF Stored
  <2>2. /\ \A x \in Stores, m \in Numbers : rows[x][m] # Nothing => rows[x][m].by # d
        /\ \A e \in Calls : Tool(e) = "cancel" /\ order[e] # Nothing => order[e].by # d
    BY <2>1 DEF OrderInv, Authors
  <2>3. order[c].by # d
    BY <1>5, <2>1, <2>2 DEF Placed, OrderOf
  <2>4. w.by # d
    BY <1>1, <1>2, <2>2, <2>3
  <2>. QED BY <1>3, <2>2, <2>4
<1>15. ReturnedOnce'
  <2>1. \A m : Restocks(m)' = Restocks(m)
    BY StoreMeans DEF Restocks
  <2>2. \A d \in Calls : answer[d] = "lost" => answer'[d] = "lost"
    BY <1>4, <1>5
  <2>. QED BY <1>6, <2>1, <2>2, StoreMeans DEF OrderInv, ReturnedOnce, Restarted, Collided
<1>. QED
  BY <1>8, <1>9, <1>10, <1>11, <1>12, <1>13, <1>14, <1>15 DEF OrderInv
\* Any excuse but a doubt about a call.
LEMMA ExcuseOther ==
    ASSUME NEW e, excuse' = excuse \/ Excuse(<<"twice", e>>)
    PROVE  /\ \A d : InDoubt(d)' <=> InDoubt(d)
           /\ \A m : Collided(m) <=> CollidedNext(m)
           /\ \A p : Restarted(p) <=> RestartedNext(p)
           /\ \A d : <<"doubt", d>> \in excuse <=> <<"doubt", d>> \in excuse'
           /\ excuse \subseteq excuse'
<1>1. \A d : /\ <<"unsaved", d>> \in excuse' <=> <<"unsaved", d>> \in excuse
             /\ <<"doubt", d>> \in excuse' <=> <<"doubt", d>> \in excuse
  BY DEF Excuse
<1>2. \A d : InDoubt(d)' <=> InDoubt(d)
  BY <1>1, DoubtMeans, DoubtMeansNext
<1>. QED BY <1>1, <1>2 DEF Excuse, Collided, CollidedNext, Restarted, RestartedNext

\* With a database a cancellation takes its copy of a confirmed row.
LEMMA CopiedKept ==
    ASSUME OrderInv, BreakerInv, Fixed, NEW c \in Calls, at[c] = "running", Tool(c) = "cancel",
           Sql, NEW n, n = ask[c].target, NEW row, row = rows["db"][n],
           row # Nothing, row.status = "CONFIRMED",
           order' = [order EXCEPT ![c] = Cancelled(row)], at' = [at EXCEPT ![c] = "saving"],
           UNCHANGED <<answer, rows, counter, number, seen>>,
           IF \E d \in Restocks(n) : at[d] \in {"saving", "writing"}
           THEN Excuse(<<"twice", n>>) ELSE excuse' = excuse
    PROVE  OrderInv'
<1>1. /\ at \in [Calls -> Steps] /\ order \in [Calls -> Order \cup {Nothing}]
      /\ rows \in [Stores -> [Numbers -> Order \cup {Nothing}]] /\ "db" \in Stores
      /\ n \in Numbers /\ row \in Order
  BY DEF BreakerInv, ToolTypeOK, OrderInv, OrderShape, Stores
<1>2. /\ Cancelled(row) \in Order /\ Cancelled(row) # Nothing
      /\ Cancelled(row).by = row.by /\ Cancelled(row).lines = row.lines
      /\ Cancelled(row).status = "CANCELLED"
  <2>1. row.by \in Calls \cup {Before} /\ row.lines \in Asked
    BY <1>1, OrderFields
  <2>. QED BY <2>1, OrderOfIsOrder DEF Cancelled
<1>3. /\ at'[c] = "saving" /\ order'[c] = Cancelled(row) /\ Half(c)' /\ ~Half(c)
      /\ \A d \in Calls : d # c => at'[d] = at[d] /\ order'[d] = order[d]
  BY <1>1 DEF Half
<1>4. /\ \A d : InDoubt(d)' <=> InDoubt(d)
      /\ \A m : Collided(m) <=> CollidedNext(m)
      /\ \A p : Restarted(p) <=> RestartedNext(p)
      /\ \A d : <<"doubt", d>> \in excuse <=> <<"doubt", d>> \in excuse'
      /\ excuse \subseteq excuse'
  BY ExcuseOther
<1>5. order[c] = Nothing /\ answer[c] = "none" /\ ~InDoubt(c)
  BY DEF OrderInv, Stages, Early, Done
<1>6. \A d \in Calls : d # c => (Half(d)' <=> Half(d))
  BY <1>3, OthersStay
<1>7. OrderShape'
  BY <1>1, <1>2, StoreMeans DEF OrderInv, OrderShape
<1>8. Stages'
  <2>1. OthersRest(c)
    BY <1>3, <1>4 DEF OthersRest
  <2>2. at'[c] \in {"saving", "writing"} /\ Sql /\ answer'[c] = "none" /\ ~InDoubt(c)'
    BY <1>3, <1>4, <1>5
  <2>. QED BY <1>2, <1>3, <2>1, <2>2, StagesKept
<1>9. NumbersHeld'
  <2>1. NoGap("db")'
    BY DEF OrderInv, NumbersHeld, NoGap
  <2>2. \A d \in Calls : at'[d] = "writing" /\ seen[d] # Nothing =>
           rows["db"][NumberOf(d)'] # Nothing
    BY <1>3, StoreMeans DEF OrderInv, NumbersHeld, NumberOf
  <2>. QED BY <1>4, <1>6, <2>1, <2>2, NumbersNow, NumbersNext
<1>10. CancelsKept'
  <2>1. ASSUME NEW d \in Calls, NEW m \in Numbers, Tool(d) = "cancel", order'[d] # Nothing,
               m = ask[d].target
        PROVE  /\ rows["db"][m] # Nothing
               /\ CollidedNext(m) \/ (/\ order'[d].by = rows["db"][m].by
                                      /\ order'[d].lines = rows["db"][m].lines)
               /\ at'[d] = "writing" => /\ seen[d] # Nothing
                                        /\ seen[d].status = "CANCELLED" =>
                                              rows["db"][m].status = "CANCELLED" \/ CollidedNext(m)
               /\ ~Half(d)' => \/ rows["db"][m].status = "CANCELLED" \/ CollidedNext(m)
                               \/ InDoubt(d)' \/ answer[d] = "lost"
    <3>1. CASE d = c
      BY <1>2, <1>3, <2>1, <3>1
    <3>2. CASE d # c
      <4>1. at'[d] = at[d] /\ order'[d] = order[d] /\ (InDoubt(d)' <=> InDoubt(d))
            /\ (Half(d)' <=> Half(d)) /\ (Collided(m) => CollidedNext(m))
        BY <1>3, <1>4, <1>6, <3>2
      <4>. QED BY <2>1, <4>1, CancelsNow
    <3>. QED BY <3>1, <3>2
  <2>. QED BY <2>1, CancelsNext
<1>11. CreatesKept'
  <2>. SUFFICES ASSUME NEW d \in Calls, Tool(d) = "create", answer[d] = "ok"
                PROVE  Kept(d)' \/ CollidedNext(number[d])
    BY StoreMeans DEF CreatesKept, Collided, CollidedNext
  <2>1. Kept(d) \/ Collided(number[d])
    BY DEF OrderInv, CreatesKept
  <2>2. Kept(d) => Kept(d)'
    <3>1. Restocks(number[d]) \subseteq Restocks(number[d])'
      BY <1>3, <1>5, StoreMeans DEF Restocks
    <3>. QED BY <3>1, StoreMeans DEF Kept, NumberOf
  <2>. QED BY <1>4, <2>1, <2>2
<1>12. MemoryKept'
  BY StoreMeans DEF MemoryKept
<1>13. Authors'
  BY <1>1, <1>2, <1>3, <1>4, StoreMeans DEF OrderInv, Authors, Stored
<1>14. ReturnedOnce'
  <2>1. ASSUME NEW d \in Calls, d # c, Tool(d) = "cancel", ask[d].target = n, order'[d] # Nothing
        PROVE  \/ <<"twice", n>> \in excuse' \/ CollidedNext(n) \/ InDoubt(d)' \/ answer[d] = "lost"
    <3>1. d \in Restocks(n) /\ order[d] # Nothing
      BY <1>3, <2>1 DEF Restocks
    <3>2. Half(d) => <<"twice", n>> \in excuse'
      BY <3>1 DEF Half, Excuse
    <3>3. ~Half(d) => Collided(n) \/ InDoubt(d) \/ answer[d] = "lost"
      BY <2>1, <3>1, CancelsNow
    <3>. QED BY <1>4, <3>2, <3>3
  <2>2. ASSUME NEW b \in Calls, NEW d \in Calls, NEW m \in Numbers, b # d, Store(b) = Store(d),
               Tool(b) = "cancel", Tool(d) = "cancel", ask[b].target = m, ask[d].target = m,
               order'[b] # Nothing, order'[d] # Nothing
        PROVE  \/ <<"twice", m>> \in excuse' \/ CollidedNext(m) \/ InDoubt(b)' \/ InDoubt(d)'
               \/ answer'[b] = "lost" \/ answer'[d] = "lost"
    <3>1. CASE b = c
      BY <2>1, <2>2, <3>1
    <3>2. CASE d = c
      BY <2>1, <2>2, <3>2
    <3>3. CASE b # c /\ d # c
      <4>1. b \in Restocks(m) /\ d \in Restocks(m)
        BY <1>3, <2>2, <3>3 DEF Restocks
      <4>2. \/ <<"twice", m>> \in excuse \/ Collided(m) \/ InDoubt(b) \/ InDoubt(d)
            \/ answer[b] = "lost" \/ answer[d] = "lost"
        BY <2>2, <4>1 DEF OrderInv, ReturnedOnce
      <4>. QED BY <1>4, <4>2
    <3>. QED BY <3>1, <3>2, <3>3
  <2>. QED BY <2>2, ReturnedNext
<1>. QED
  BY <1>7, <1>8, <1>9, <1>10, <1>11, <1>12, <1>13, <1>14 DEF OrderInv
\* In memory a cancellation is stored at once.
LEMMA CancelledKept ==
    ASSUME OrderInv, BreakerInv, Fixed, NEW c \in Calls, at[c] = "running", Tool(c) = "cancel",
           ~Sql, NEW p, p = Process(c), NEW n, n = ask[c].target, NEW row, row = rows[p][n],
           row # Nothing, row.status = "CONFIRMED",
           order' = [order EXCEPT ![c] = Cancelled(row)],
           rows' = [rows EXCEPT ![p][n] = Cancelled(row)], Leave(c, "ok"),
           UNCHANGED <<counter, number, seen>>,
           excuse' = excuse \/ Excuse(<<"twice", n>>)
    PROVE  OrderInv'
<1>1. /\ order \in [Calls -> Order \cup {Nothing}]
      /\ rows \in [Stores -> [Numbers -> Order \cup {Nothing}]] /\ "db" \in Stores
      /\ n \in Numbers /\ p \in Processes /\ p \in Stores /\ p # "db" /\ row \in Order
  BY StoresAssumption DEF OrderInv, OrderShape, Stores
<1>2. /\ Cancelled(row) \in Order /\ Cancelled(row) # Nothing
      /\ Cancelled(row).by = row.by /\ Cancelled(row).lines = row.lines
      /\ Cancelled(row).status = "CANCELLED"
  <2>1. row.by \in Calls \cup {Before} /\ row.lines \in Asked
    BY <1>1, OrderFields
  <2>. QED BY <2>1, OrderOfIsOrder DEF Cancelled
<1>3. /\ rows' \in [Stores -> [Numbers -> Order \cup {Nothing}]]
      /\ rows'[p][n] = Cancelled(row)
      /\ \A x \in Stores, m \in Numbers : x # p \/ m # n => rows'[x][m] = rows[x][m]
      /\ order'[c] = Cancelled(row) /\ \A d \in Calls : d # c => order'[d] = order[d]
  BY <1>1, <1>2
<1>4. /\ \A d : InDoubt(d)' <=> InDoubt(d)
      /\ \A m : Collided(m) <=> CollidedNext(m)
      /\ \A q : Restarted(q) <=> RestartedNext(q)
      /\ \A d : <<"doubt", d>> \in excuse <=> <<"doubt", d>> \in excuse'
      /\ excuse \subseteq excuse'
  BY ExcuseOther
<1>5. /\ at'[c] \in {"recording", "end"} /\ answer'[c] = "ok"
      /\ \A d \in Calls : d # c => at'[d] = at[d] /\ answer'[d] = answer[d]
  BY LeaveAfter
<1>6. order[c] = Nothing /\ answer[c] = "none" /\ ~InDoubt(c)
  BY DEF OrderInv, Stages, Early, Done
<1>7. OrderShape'
  BY <1>1, <1>2, <1>3, StoreMeans DEF OrderInv, OrderShape
<1>8. Stages'
  <2>1. OthersRest(c)
    BY <1>3, <1>4, <1>5 DEF OthersRest
  <2>2. /\ at'[c] \in {"recording", "end"} /\ answer'[c] \in {"ok", "error"}
        /\ InDoubt(c)' => answer'[c] = "error"
    BY <1>4, <1>5, <1>6
  <2>. QED BY <1>2, <1>3, <2>1, <2>2, StagesKept
<1>9. \A d \in Calls : ~Half(d)'
  BY <1>8, StoreMeans DEF Stages, Half
<1>10. NumbersHeld'
  <2>1. NoGap("db")'
    BY <1>1, <1>3 DEF OrderInv, NumbersHeld, NoGap
  <2>. QED BY <1>9, <2>1, NumbersNext DEF Half
<1>11. CancelsKept'
  BY StoreMeans DEF CancelsKept
<1>12. CreatesKept'
  <2>. SUFFICES ASSUME NEW d \in Calls, Tool(d) = "create", answer'[d] = "ok"
                PROVE  Kept(d)' \/ RestartedNext(Process(d))
    BY StoreMeans DEF CreatesKept, Restarted, RestartedNext
  <2> DEFINE m == number[d]
             q == Process(d)
  <2>1. answer[d] = "ok" /\ d # c
    BY <1>5
  <2>2. Kept(d) \/ Restarted(q)
    BY <2>1 DEF OrderInv, CreatesKept
  <2>3. m \in Numbers /\ q \in Processes
    BY <2>1 DEF OrderInv, OrderShape, Stages
  <2>4. Kept(d) <=> /\ rows[q][m] # Nothing /\ rows[q][m].by = d
                    /\ rows[q][m].lines = Items(d)
                    /\ rows[q][m].status = "CANCELLED" => Restocks(m) # {}
    BY DEF Kept, Store, NumberOf
  <2>5. Kept(d)' <=> /\ rows'[q][m] # Nothing /\ rows'[q][m].by = d
                     /\ rows'[q][m].lines = Items(d)
                     /\ rows'[q][m].status = "CANCELLED" => Restocks(m)' # {}
    <3>1. Store(d)' = q /\ NumberOf(d)' = m /\ Restocks(number[d])' = Restocks(m)'
      BY StoreMeans DEF Store, NumberOf, Restocks
    <3>. QED BY <3>1, StoreMeans DEF Kept
  <2>6. Restocks(m) \subseteq Restocks(m)' /\ (m = n => c \in Restocks(m)')
    BY <1>2, <1>3, <1>6, StoreMeans DEF Restocks
  <2>. HIDE DEF m, q
  <2>7. CASE q = p /\ m = n
    BY <1>2, <1>3, <1>4, <2>2, <2>4, <2>5, <2>6, <2>7 DEF q
  <2>8. CASE q # p \/ m # n
    <3>1. rows'[q][m] = rows[q][m]
      BY <1>3, <2>3, <2>8 DEF Stores
    <3>. QED BY <1>4, <2>2, <2>4, <2>5, <2>6, <3>1 DEF q
  <2>. QED BY <2>7, <2>8
<1>13. MemoryKept'
  <2>1. \A q \in Processes, m \in Numbers : rows'[q][m] # Nothing => rows[q][m] # Nothing
    BY <1>3 DEF Stores
  <2>2. ASSUME NEW d \in Calls, Tool(d) = "cancel", order'[d] # Nothing,
               NEW q \in Processes, q = Process(d), NEW m \in Numbers, m = ask[d].target
        PROVE  (rows'[q][m] # Nothing /\ rows'[q][m].status = "CANCELLED") \/ RestartedNext(q)
    <3>1. CASE q = p /\ m = n
      BY <1>2, <1>3, <3>1
    <3>2. CASE q # p \/ m # n
      <4>1. d # c /\ order[d] # Nothing /\ rows'[q][m] = rows[q][m]
        BY <1>3, <2>2, <3>2 DEF Stores
      <4>2. IsCancelled(q, m) \/ Restarted(q)
        BY <2>2, <4>1 DEF OrderInv, MemoryKept
      <4>. QED BY <1>4, <4>1, <4>2 DEF IsCancelled
    <3>. QED BY <3>1, <3>2
  <2>3. \A q \in Processes, m \in Numbers : rows'[q][m] # Nothing => m <= counter[q]
    BY <2>1 DEF OrderInv, MemoryKept
  <2>4. \A d \in Calls : Tool(d) = "cancel" /\ order'[d] # Nothing =>
           \/ /\ rows'[Process(d)][ask[d].target] # Nothing
              /\ rows'[Process(d)][ask[d].target].status = "CANCELLED"
           \/ RestartedNext(Process(d))
    BY <2>2 DEF OrderInv, OrderShape
  <2>5. MemoryKept' <=>
           /\ \A q \in Processes, m \in Numbers : rows'[q][m] # Nothing => m <= counter[q]
           /\ \A d \in Calls : Tool(d) = "cancel" /\ order'[d] # Nothing =>
                 \/ /\ rows'[Process(d)][ask[d].target] # Nothing
                    /\ rows'[Process(d)][ask[d].target].status = "CANCELLED"
                 \/ <<"restarted", Process(d)>> \in excuse'
    BY StoreMeans DEF MemoryKept, IsCancelled, Restarted
  <2>. QED BY <2>3, <2>4, <2>5 DEF RestartedNext
<1>14. Authors'
  <2>. SUFFICES ASSUME NEW d \in Calls, Tool(d) = "create", ~Stored(d)'
                PROVE  /\ \A x \in Stores, m \in Numbers :
                             rows'[x][m] # Nothing => rows'[x][m].by # d
                       /\ \A e \in Calls : Tool(e) = "cancel" /\ order'[e] # Nothing
                             => order'[e].by # d
    BY StoreMeans DEF Authors
  <2>1. d # c /\ ~Stored(d)
    BY <1>4, <1>5 DEF Stored
  <2>2. /\ \A x \in Stores, m \in Numbers : rows[x][m] # Nothing => rows[x][m].by # d
        /\ \A e \in Calls : Tool(e) = "cancel" /\ order[e] # Nothing => order[e].by # d
    BY <2>1 DEF OrderInv, Authors
  <2>3. Cancelled(row).by # d
    BY <1>1, <1>2, <2>2
  <2>4. \A x \in Stores, m \in Numbers : rows'[x][m] # Nothing => rows'[x][m].by # d
    BY <1>3, <2>2, <2>3
  <2>5. \A e \in Calls : Tool(e) = "cancel" /\ order'[e] # Nothing => order'[e].by # d
    BY <1>3, <2>2, <2>3
  <2>. QED BY <2>4, <2>5
<1>15. ReturnedOnce'
  <2>1. ASSUME NEW d \in Calls, d # c, Tool(d) = "cancel", ask[d].target = n,
               order'[d] # Nothing, Process(d) = p
        PROVE  RestartedNext(p)
    <3>1. order[d] # Nothing
      BY <1>3, <2>1
    <3>2. IsCancelled(p, n) \/ Restarted(p)
      BY <2>1, <3>1 DEF OrderInv, MemoryKept
    <3>. QED BY <1>4, <3>2 DEF IsCancelled
  <2>2. ASSUME NEW b \in Calls, NEW d \in Calls, NEW m \in Numbers, b # d, Store(b) = Store(d),
               Tool(b) = "cancel", Tool(d) = "cancel", ask[b].target = m, ask[d].target = m,
               order'[b] # Nothing, order'[d] # Nothing
        PROVE  \/ <<"twice", m>> \in excuse' \/ CollidedNext(m) \/ InDoubt(b)' \/ InDoubt(d)'
               \/ answer'[b] = "lost" \/ answer'[d] = "lost"
               \/ (~Sql /\ RestartedNext(Process(b)))
    <3>0. Process(b) = Process(d)
      BY <2>2 DEF Store
    <3>1. CASE b = c
      BY <2>1, <2>2, <3>0, <3>1
    <3>2. CASE d = c
      BY <2>1, <2>2, <3>0, <3>2
    <3>3. CASE b # c /\ d # c
      <4>1. b \in Restocks(m) /\ d \in Restocks(m)
        BY <1>3, <2>2, <3>3 DEF Restocks
      <4>2. \/ <<"twice", m>> \in excuse \/ Collided(m) \/ InDoubt(b) \/ InDoubt(d)
            \/ answer[b] = "lost" \/ answer[d] = "lost" \/ Restarted(Process(b))
        BY <2>2, <4>1 DEF OrderInv, ReturnedOnce
      <4>. QED BY <1>4, <1>5, <3>3, <4>2
    <3>. QED BY <3>1, <3>2, <3>3
  <2>. QED BY <2>2, ReturnedNext
<1>. QED
  BY <1>7, <1>8, <1>10, <1>11, <1>12, <1>13, <1>14, <1>15 DEF OrderInv
\* In memory a create takes the next number of its process and is stored at once.
LEMMA CreatedKept ==
    ASSUME OrderInv, BreakerInv, Fixed, NEW c \in Calls, at[c] = "running", Tool(c) = "create",
           ~Sql, NEW p, p = Process(c), NEW n, n = counter[p] + 1, counter[p] < NumberBound,
           counter' = [counter EXCEPT ![p] = @ + 1], number' = [number EXCEPT ![c] = n],
           order' = [order EXCEPT ![c] = Placed(c)],
           rows' = [rows EXCEPT ![p][n] = Placed(c)], Leave(c, "ok"),
           UNCHANGED <<seen, excuse>>
    PROVE  OrderInv'
<1>1. /\ order \in [Calls -> Order \cup {Nothing}] /\ number \in [Calls -> {0} \cup Numbers]
      /\ rows \in [Stores -> [Numbers -> Order \cup {Nothing}]] /\ "db" \in Stores
      /\ p \in Processes /\ p \in Stores /\ p # "db" /\ NumberBound \in Nat
      /\ counter \in [Processes -> 0 .. NumberBound]
  BY StoresAssumption, OrdersAssumption DEF OrderInv, OrderShape, Stores
<1>2. /\ Placed(c) \in Order /\ Placed(c) # Nothing
      /\ Placed(c).by = c /\ Placed(c).lines = Items(c) /\ Placed(c).status = "CONFIRMED"
  <2>1. Items(c) \in Asked
    BY DEF OrderInv, OrderShape
  <2>. QED BY <2>1, OrderOfIsOrder DEF Placed
<1>3. n \in Numbers /\ n \in Nat /\ n # 0 /\ n > counter[p]
  BY <1>1 DEF Numbers
<1>4. /\ rows' \in [Stores -> [Numbers -> Order \cup {Nothing}]]
      /\ counter' \in [Processes -> 0 .. NumberBound]
      /\ rows'[p][n] = Placed(c) /\ counter'[p] = n
      /\ \A x \in Stores, m \in Numbers : x # p \/ m # n => rows'[x][m] = rows[x][m]
      /\ \A q \in Processes : q # p => counter'[q] = counter[q]
      /\ order'[c] = Placed(c) /\ number'[c] = n
      /\ \A d \in Calls : d # c => order'[d] = order[d] /\ number'[d] = number[d]
  BY <1>1, <1>2, <1>3
<1>5. /\ at'[c] \in {"recording", "end"} /\ answer'[c] = "ok"
      /\ \A d \in Calls : d # c => at'[d] = at[d] /\ answer'[d] = answer[d]
  BY LeaveAfter
<1>6. /\ \A d : InDoubt(d)' <=> InDoubt(d)
      /\ \A m : Collided(m) <=> CollidedNext(m)
      /\ \A q : Restarted(q) <=> RestartedNext(q)
      /\ \A d : <<"doubt", d>> \in excuse <=> <<"doubt", d>> \in excuse'
  BY DEF InDoubt, Collided, CollidedNext, Restarted, RestartedNext
<1>7. /\ order[c] = Nothing /\ answer[c] = "none" /\ ~InDoubt(c)
      /\ rows[p][n] = Nothing
  <2>1. rows[p][n] # Nothing => n <= counter[p]
    BY <1>1, <1>3 DEF OrderInv, MemoryKept
  <2>2. rows[p][n] = Nothing
    BY <1>1, <1>3, <2>1
  <2>. QED BY <2>2 DEF OrderInv, Stages, Early, Done
<1>8. OrderShape'
  BY <1>1, <1>2, <1>3, <1>4, StoreMeans DEF OrderInv, OrderShape
<1>9. Stages'
  <2>1. OthersRest(c)
    BY <1>4, <1>5, <1>6 DEF OthersRest
  <2>2. /\ at'[c] \in {"recording", "end"} /\ answer'[c] \in {"ok", "error"}
        /\ InDoubt(c)' => answer'[c] = "error"
    BY <1>5, <1>6, <1>7
  <2>. QED BY <1>2, <1>3, <1>4, <2>1, <2>2, StagesKept
<1>10. \A d \in Calls : ~Half(d)'
  BY <1>9, StoreMeans DEF Stages, Half
<1>11. NumbersHeld'
  <2>1. NoGap("db")'
    BY <1>1, <1>4 DEF OrderInv, NumbersHeld, NoGap
  <2>. QED BY <1>10, <2>1, NumbersNext DEF Half
<1>12. CancelsKept'
  BY StoreMeans DEF CancelsKept
<1>13. \A m : Restocks(m)' = Restocks(m)
  BY <1>4, StoreMeans DEF Restocks
<1>14. CreatesKept'
  <2>. SUFFICES ASSUME NEW d \in Calls, Tool(d) = "create", answer'[d] = "ok"
                PROVE  Kept(d)' \/ RestartedNext(Process(d))
    BY StoreMeans DEF CreatesKept, Restarted, RestartedNext
  <2>0. PICK m, q : m = number'[d] /\ q = Process(d)
    OBVIOUS
  <2>1. q \in Processes /\ q \in Stores
    BY <2>0 DEF OrderInv, OrderShape, Stores
  <2>2. Kept(d)' <=> /\ rows'[q][m] # Nothing /\ rows'[q][m].by = d
                     /\ rows'[q][m].lines = Items(d)
                     /\ rows'[q][m].status = "CANCELLED" => Restocks(m) # {}
    <3>1. Store(d)' = q /\ NumberOf(d)' = m /\ Restocks(number[d])' = Restocks(m)'
      BY <2>0, StoreMeans DEF Store, NumberOf, Restocks
    <3>. QED BY <1>13, <3>1, StoreMeans DEF Kept
  <2>3. CASE d = c
    BY <1>2, <1>4, <2>0, <2>2, <2>3
  <2>4. CASE d # c
    <3>1. answer[d] = "ok" /\ m = number[d]
      BY <1>4, <1>5, <2>0, <2>4
    <3>2. Kept(d) \/ Restarted(q)
      BY <2>0, <3>1 DEF OrderInv, CreatesKept
    <3>3. m \in Numbers
      BY <3>1 DEF OrderInv, OrderShape, Stages
    <3>4. Kept(d) <=> /\ rows[q][m] # Nothing /\ rows[q][m].by = d
                      /\ rows[q][m].lines = Items(d)
                      /\ rows[q][m].status = "CANCELLED" => Restocks(m) # {}
      BY <2>0, <3>1 DEF Kept, Store, NumberOf
    <3>5. rows[q][m] # Nothing => rows'[q][m] = rows[q][m]
      BY <1>4, <1>7, <2>1, <3>3
    <3>. QED BY <1>6, <2>0, <2>2, <3>2, <3>4, <3>5
  <2>. QED BY <2>3, <2>4
<1>15. MemoryKept'
  <2>1. ASSUME NEW q \in Processes, NEW m \in Numbers, rows'[q][m] # Nothing
        PROVE  m <= counter'[q]
    <3>1. rows[q][m] # Nothing => m <= counter[q]
      BY DEF OrderInv, MemoryKept
    <3>2. m \in Nat /\ counter[q] \in Nat /\ q \in Stores
      BY <1>1 DEF Numbers, Stores
    <3>. QED BY <1>3, <1>4, <2>1, <3>1, <3>2
  <2>2. ASSUME NEW d \in Calls, Tool(d) = "cancel", order'[d] # Nothing,
               NEW q \in Processes, q = Process(d), NEW m \in Numbers, m = ask[d].target
        PROVE  (rows'[q][m] # Nothing /\ rows'[q][m].status = "CANCELLED") \/ RestartedNext(q)
    <3>1. order[d] # Nothing
      BY <1>4, <2>2
    <3>2. IsCancelled(q, m) \/ Restarted(q)
      BY <2>2, <3>1 DEF OrderInv, MemoryKept
    <3>3. rows[q][m] # Nothing => rows'[q][m] = rows[q][m]
      BY <1>4, <1>7 DEF Stores
    <3>. QED BY <1>6, <3>2, <3>3 DEF IsCancelled
  <2>3. \A d \in Calls : Tool(d) = "cancel" /\ order'[d] # Nothing =>
           \/ /\ rows'[Process(d)][ask[d].target] # Nothing
              /\ rows'[Process(d)][ask[d].target].status = "CANCELLED"
           \/ RestartedNext(Process(d))
    BY <2>2 DEF OrderInv, OrderShape
  <2>4. MemoryKept' <=>
           /\ \A q \in Processes, m \in Numbers : rows'[q][m] # Nothing => m <= counter'[q]
           /\ \A d \in Calls : Tool(d) = "cancel" /\ order'[d] # Nothing =>
                 \/ /\ rows'[Process(d)][ask[d].target] # Nothing
                    /\ rows'[Process(d)][ask[d].target].status = "CANCELLED"
                 \/ <<"restarted", Process(d)>> \in excuse'
    BY StoreMeans DEF MemoryKept, IsCancelled, Restarted
  <2>. QED BY <2>1, <2>3, <2>4 DEF RestartedNext
<1>16. Authors'
  <2>. SUFFICES ASSUME NEW d \in Calls, Tool(d) = "create", ~Stored(d)'
                PROVE  /\ \A x \in Stores, m \in Numbers :
                             rows'[x][m] # Nothing => rows'[x][m].by # d
                       /\ \A e \in Calls : Tool(e) = "cancel" /\ order'[e] # Nothing
                             => order'[e].by # d
    BY StoreMeans DEF Authors
  <2>1. d # c /\ ~Stored(d)
    BY <1>5, <1>6 DEF Stored
  <2>2. /\ \A x \in Stores, m \in Numbers : rows[x][m] # Nothing => rows[x][m].by # d
        /\ \A e \in Calls : Tool(e) = "cancel" /\ order[e] # Nothing => order[e].by # d
    BY <2>1 DEF OrderInv, Authors
  <2>3. \A x \in Stores, m \in Numbers : rows'[x][m] # Nothing => rows'[x][m].by # d
    BY <1>2, <1>4, <2>1, <2>2
  <2>4. \A e \in Calls : Tool(e) = "cancel" /\ order'[e] # Nothing => order'[e].by # d
    BY <1>4, <2>2
  <2>. QED BY <2>3, <2>4
<1>17. ReturnedOnce'
  <2>1. \A d \in Calls : answer[d] = "lost" => answer'[d] = "lost"
    BY <1>5, <1>7
  <2>. QED
    BY <1>6, <1>13, <2>1, StoreMeans DEF OrderInv, ReturnedOnce, Restarted, Collided
<1>. QED
  BY <1>8, <1>9, <1>11, <1>12, <1>14, <1>15, <1>16, <1>17 DEF OrderInv
\* One step of a tool.
LEMMA BodyKept ==
    ASSUME OrderInv, BreakerInv, Fixed, NEW c \in Calls, Body(c)
    PROVE  OrderInv'
<1>. counter \in [Processes -> 0 .. NumberBound] /\ NumberBound \in Nat
  BY OrdersAssumption DEF OrderInv, OrderShape
<1>. Process(c) \in Processes
  BY DEF OrderInv, OrderShape
<1>0. \A p \in Processes : counter[p] >= counter[p]
  OBVIOUS
<1>1. CASE Deduct(c)
  <2>1. at[c] \in Inside /\ ~Half(c) /\ UNCHANGED <<rows, counter, number, order, seen>>
    BY <1>1 DEF Deduct, Inside, Half
  <2>2. CASE Leave(c, "error") /\ (excuse' = excuse \/ Excuse(<<"inflated", c>>))
    BY <1>0, <2>1, <2>2, LeaveKept
  <2>3. CASE at' = [at EXCEPT ![c] = "numbering"] /\ UNCHANGED <<answer, excuse>>
    <3>1. /\ Sql /\ Tool(c) = "create" /\ at[c] = "running" /\ at'[c] = "numbering"
          /\ \A d \in Calls : d # c => at'[d] = at[d]
      BY <1>1, <2>3 DEF Deduct, BreakerInv, ToolTypeOK
    <3>2. \A d : InDoubt(d)' <=> InDoubt(d)
      BY <2>3 DEF InDoubt
    <3>3. answer[c] = "none" /\ ~InDoubt(c)
      BY <3>1 DEF OrderInv, Stages, Done
    <3>4. Moves(c)
      BY <2>3, <3>1, <3>2, <3>3 DEF Moves, Half, Early, Done
    <3>5. \A d \in Calls : Moves(d)
      BY <2>3, <3>1, <3>2, <3>4, OthersMove
    <3>6. rows \in [Stores -> [Numbers -> Order \cup {Nothing}]]
      BY DEF OrderInv, OrderShape
    <3>. QED BY <1>0, <2>1, <2>3, <3>5, <3>6, CallsMove
  <2>. QED BY <1>1, <2>2, <2>3 DEF Deduct, Refuse
<1>2. CASE CreateInMemory(c)
  <2>1. /\ at[c] = "running" /\ at[c] \in Inside /\ ~Half(c) /\ Tool(c) = "create" /\ ~Sql
        /\ counter[Process(c)] < NumberBound /\ seen' = seen
    BY <1>2 DEF CreateInMemory, Inside, Half
  <2>2. CASE /\ Leave(c, "error") /\ (excuse' = excuse \/ Excuse(<<"inflated", c>>))
             /\ UNCHANGED <<number, order, rows>>
             /\ \/ counter' = counter
                \/ counter' = [counter EXCEPT ![Process(c)] = @ + 1]
    <3>1. /\ counter' \in [Processes -> 0 .. NumberBound]
          /\ \A p \in Processes : counter'[p] >= counter[p]
      BY <2>1, <2>2
    <3>. QED BY <2>1, <2>2, <3>1, LeaveKept
  <2>3. CASE /\ Leave(c, "ok") /\ excuse' = excuse
             /\ counter' = [counter EXCEPT ![Process(c)] = @ + 1]
             /\ number' = [number EXCEPT ![c] = counter[Process(c)] + 1]
             /\ order' = [order EXCEPT ![c] = Placed(c)]
             /\ rows' = [rows EXCEPT ![Process(c)][counter[Process(c)] + 1] = Placed(c)]
    BY <2>1, <2>3, CreatedKept
  <2>. QED BY <1>2, <2>2, <2>3 DEF CreateInMemory, Refuse
<1>3. CASE Search(c)
  <2>1. /\ at[c] \in Inside /\ ~Half(c) /\ Tool(c) = "search"
        /\ UNCHANGED <<rows, counter, number, order, seen, excuse>>
        /\ Leave(c, "ok") \/ Leave(c, "error")
    BY <1>3 DEF Search, Inside, Half
  <2>. QED BY <1>0, <2>1, LeaveKept
<1>4. CASE TimeOut(c)
  <2>1. /\ at[c] \in Inside /\ Leave(c, "error") /\ UNCHANGED <<counter, number, order, seen>>
        /\ \/ rows' = rows /\ ((at[c] = "running" /\ excuse' = excuse) \/ Excuse(<<"unsaved", c>>))
           \/ at[c] = "writing" /\ ~Clash(c) /\ rows' = Saved(c) /\ Excuse(<<"doubt", c>>)
        /\ at[c] = "running" => ~Half(c)
    BY <1>4 DEF TimeOut, Suspended, Inside, Half
  <2>2. CASE rows' = rows /\ ((at[c] = "running" /\ excuse' = excuse) \/ Excuse(<<"unsaved", c>>))
    BY <1>0, <2>1, <2>2, LeaveKept
  <2>3. CASE at[c] = "writing" /\ ~Clash(c) /\ rows' = Saved(c) /\ Excuse(<<"doubt", c>>)
    BY <2>1, <2>3, StoredKept
  <2>. QED BY <2>1, <2>2, <2>3
<1>5. ASSUME NEW o \in Outcomes, NextOrderId(c, o)
      PROVE  OrderInv'
  <2>1. /\ at[c] = "numbering" /\ at[c] \in Inside /\ ~Half(c) /\ CountRows + 1 \in Numbers
        /\ UNCHANGED <<rows, counter, seen>>
    BY <1>5 DEF NextOrderId, Inside, Half
  <2>2. CASE /\ Leave(c, "error") /\ (excuse' = excuse \/ Excuse(<<"inflated", c>>))
             /\ UNCHANGED <<number, order>>
    BY <1>0, <2>1, <2>2, LeaveKept
  <2>3. CASE /\ number' = [number EXCEPT ![c] = CountRows + 1]
             /\ order' = [order EXCEPT ![c] = Placed(c)]
             /\ at' = [at EXCEPT ![c] = "saving"]
             /\ IF \E d \in Calls \ {c} : Holds(d, CountRows + 1)
                THEN Excuse(<<"collision", CountRows + 1>>) ELSE excuse' = excuse
             /\ answer' = answer
    BY <2>1, <2>3, NumberedKept
  <2>. QED BY <1>5, <2>2, <2>3 DEF NextOrderId, Refuse
<1>6. ASSUME NEW o \in Outcomes, Merge(c, o)
      PROVE  OrderInv'
  <2>1. at[c] = "saving" /\ at[c] \in Inside /\ UNCHANGED <<rows, counter, number, order>>
    BY <1>6 DEF Merge, Inside
  <2>2. CASE o = "ok"
    BY <1>6, <2>1, <2>2, MergedKept DEF Merge
  <2>3. CASE o # "ok"
    <3>1. Leave(c, "error") /\ Excuse(<<"unsaved", c>>) /\ seen' = seen
      BY <1>6, <2>3 DEF Merge
    <3>. QED BY <1>0, <2>1, <3>1, LeaveKept
  <2>. QED BY <2>2, <2>3
<1>7. ASSUME NEW o \in Outcomes, Commit(c, o)
      PROVE  OrderInv'
  <2>1. at[c] = "writing" /\ at[c] \in Inside /\ UNCHANGED <<counter, number, order, seen>>
    BY <1>7 DEF Commit, Inside
  <2>2. CASE Leave(c, "error") /\ Excuse(<<"unsaved", c>>) /\ rows' = rows
    BY <1>0, <2>1, <2>2, LeaveKept
  <2>3. CASE /\ ~Clash(c) /\ rows' = Saved(c)
             /\ \/ Leave(c, "ok") /\ excuse' = excuse
                \/ Leave(c, "error") /\ Excuse(<<"doubt", c>>)
    BY <2>1, <2>3, StoredKept
  <2>4. \/ Leave(c, "error") /\ Excuse(<<"unsaved", c>>) /\ rows' = rows
        \/ /\ ~Clash(c) /\ rows' = Saved(c)
           /\ \/ Leave(c, "ok") /\ excuse' = excuse
              \/ Leave(c, "error") /\ Excuse(<<"doubt", c>>)
    BY <1>7 DEF Commit, Outcomes, Effect, Ok
  <2>. QED BY <2>2, <2>3, <2>4
<1>8. ASSUME NEW o \in Outcomes, Cancel(c, o)
      PROVE  OrderInv'
  <2> DEFINE n == ask[c].target
             row == FindById(c)
  <2>1. /\ at[c] = "running" /\ at[c] \in Inside /\ ~Half(c) /\ Tool(c) = "cancel"
        /\ UNCHANGED <<counter, number, seen>>
    BY <1>8 DEF Cancel, Inside, Half
  <2>2. CASE Leave(c, "error") /\ UNCHANGED <<order, rows, excuse>>
    BY <1>0, <2>1, <2>2, LeaveKept
  <2>3. CASE ~(o = "refused" \/ ~Cancellable(c, row))
    <3>1. /\ row # Nothing /\ row.status = "CONFIRMED"
          /\ order' = [order EXCEPT ![c] = Cancelled(row)]
          /\ IF \E d \in Restocks(n) : at[d] \in {"saving", "writing"}
             THEN Excuse(<<"twice", n>>) ELSE excuse' = excuse
      BY <1>8, <2>3 DEF Cancel, Cancellable
    <3>2. CASE Sql
      <4>1. row = rows["db"][n] /\ at' = [at EXCEPT ![c] = "saving"] /\ UNCHANGED <<answer, rows>>
        BY <1>8, <2>3, <3>2 DEF Cancel, FindById, Store
      <4>. HIDE DEF row, n
      <4>2. n = ask[c].target
        BY DEF n
      <4>. QED BY <2>1, <3>1, <3>2, <4>1, <4>2, CopiedKept
    <3>3. CASE ~Sql
      <4>1. /\ row = rows[Process(c)][n] /\ Leave(c, "ok")
            /\ rows' = [rows EXCEPT ![Process(c)][n] = Cancelled(row)]
        BY <1>8, <2>3, <3>3 DEF Cancel, FindById, Store
      <4>2. excuse' = excuse \/ Excuse(<<"twice", n>>)
        BY <3>1
      <4>. HIDE DEF row, n
      <4>3. n = ask[c].target
        BY DEF n
      <4>. QED BY <2>1, <3>1, <3>3, <4>1, <4>2, <4>3, CancelledKept
    <3>. QED BY <3>2, <3>3
  <2>4. o = "refused" \/ ~Cancellable(c, row) => Leave(c, "error") /\ UNCHANGED <<order, rows, excuse>>
    BY <1>8 DEF Cancel
  <2>. QED BY <2>2, <2>3, <2>4
<1>9. ASSUME NEW o \in Outcomes, Query(c, o)
      PROVE  OrderInv'
  <2>1. /\ at[c] \in Inside /\ ~Half(c) /\ Tool(c) = "query"
        /\ UNCHANGED <<rows, counter, number, order, seen, excuse>>
        /\ Leave(c, "ok") \/ Leave(c, "error")
    BY <1>9 DEF Query, Inside, Half, dataVars
  <2>. QED BY <1>0, <2>1, LeaveKept
<1>. QED BY <1>1, <1>2, <1>3, <1>4, <1>5, <1>6, <1>7, <1>8, <1>9 DEF Body

LEMMA OrderStart == Init => OrderInv
<1>. SUFFICES ASSUME Init PROVE OrderInv
  OBVIOUS
<1>. PICK case \in Cases :
        /\ setup = case.setup /\ ask = case.ask
        /\ rows = [x \in Stores |-> IF x = "db" THEN case.rows ELSE [n \in Numbers |-> Nothing]]
  BY DEF Init
<1>1. /\ \A c \in Calls : /\ case.ask[c].process \in Processes /\ case.ask[c].items \in Asked
                          /\ case.ask[c].target \in Numbers
      /\ case.rows \in [Numbers -> {r \in Order : r.by = Before} \cup {Nothing}]
      /\ \E k \in 0 .. NumberBound : \A n \in Numbers : case.rows[n] # Nothing <=> n <= k
  BY CasesAssumption
<1>2. /\ at = [c \in Calls |-> "idle"] /\ answer = [c \in Calls |-> "none"]
      /\ counter = [p \in Processes |-> 0] /\ number = [c \in Calls |-> 0]
      /\ order = [c \in Calls |-> Nothing] /\ seen = [c \in Calls |-> Nothing]
      /\ excuse = {} /\ "db" \in Stores /\ NumberBound \in Nat
  BY OrdersAssumption DEF Init, ToolInit, Stores
<1>3. /\ rows["db"] = case.rows
      /\ \A x \in Stores : x # "db" => rows[x] = [n \in Numbers |-> Nothing]
  BY <1>2
<1>4. OrderShape
  <2>1. rows \in [Stores -> [Numbers -> Order \cup {Nothing}]]
    BY <1>1
  <2>. QED BY <1>1, <1>2, <2>1 DEF OrderShape, Process, Items
<1>5. \A c : ~InDoubt(c)
  BY <1>2, DoubtMeans
<1>6. Stages
  BY <1>2, <1>5 DEF Stages, Half, Early, Done
<1>7. NumbersHeld
  BY <1>1, <1>2, <1>3 DEF NumbersHeld, NoGap, Half
<1>8. CancelsKept /\ CreatesKept /\ ReturnedOnce
  BY <1>2 DEF CancelsKept, CreatesKept, ReturnedOnce, Restocks
<1>9. MemoryKept
  BY <1>2, <1>3, StoresAssumption DEF MemoryKept, Stores
<1>10. Authors
  <2>1. \A c \in Calls, x \in Stores, n \in Numbers : rows[x][n] # Nothing => rows[x][n].by # c
    BY <1>1, <1>3, StoresAssumption
  <2>. QED BY <1>2, <2>1 DEF Authors
<1>. QED BY <1>4, <1>6, <1>7, <1>8, <1>9, <1>10 DEF OrderInv

LEMMA OrderStep == OrderInv /\ BreakerInv /\ [Next]_vars => OrderInv'
<1>. SUFFICES ASSUME OrderInv, BreakerInv, [Next]_vars PROVE OrderInv'
  OBVIOUS
<1>1. CASE UNCHANGED <<setup, ask, at, answer, rows, counter, number, order, seen, excuse>>
  <2>1. Fixed /\ \A d : InDoubt(d)' <=> InDoubt(d)
    BY <1>1 DEF Fixed, InDoubt
  <2>2. \A d \in Calls : Moves(d)
    BY <1>1, <2>1, OthersMove
  <2>3. /\ rows \in [Stores -> [Numbers -> Order \cup {Nothing}]]
        /\ counter \in [Processes -> 0 .. NumberBound]
        /\ \A p \in Processes : counter[p] >= counter[p]
    BY OrdersAssumption DEF OrderInv, OrderShape
  <2>. QED BY <1>1, <2>1, <2>2, <2>3, CallsMove
<1>2. CASE Next
  <2>1. Fixed
    BY <1>2 DEF Next, Fixed
  <2>2. ASSUME NEW c \in Calls, Middleware(c)
        PROVE  OrderInv'
    BY <2>1, <2>2, MiddlewareKept
  <2>3. ASSUME NEW c \in Calls, Body(c)
        PROVE  OrderInv'
    BY <2>1, <2>3, BodyKept
  <2>4. ASSUME NEW p \in Processes, Crash(p)
        PROVE  OrderInv'
    BY <2>1, <2>4, CrashKept
  <2>5. CASE Tick /\ UNCHANGED dataVars
    BY <1>1, <2>1, <2>5 DEF Tick, dataVars, Fixed
  <2>. QED BY <1>2, <2>2, <2>3, <2>4, <2>5 DEF Next
<1>. QED BY <1>1, <1>2 DEF vars, toolVars, dataVars

LEMMA OrderSafe == Spec => []OrderInv
BY OrderStart, OrderStep, BreakerSafe, PTL DEF Spec

\* The stock of an order goes back once, whatever two cancellations read before either of
\* them saves (order_usecases.py:90 before :96), a crash or a timeout at any await of the
\* use case included: the exceptions ReturnedOnce names are all there are.
THEOREM ReturnsSafe == Spec => []ReturnedOnce
<1>1. OrderInv => ReturnedOnce
  BY DEF OrderInv
<1>. QED BY <1>1, OrderSafe, PTL

\* What a buyer is told agrees with the table, with merge(), the unique order number and
\* lost answers of the database in between (repositories.py:248): an order told is stored
\* as asked, a told cancellation too, and a refused order is nowhere.
THEOREM AnswersSafe == Spec => []AnswersMatchStore
<1>1. OrderInv => AnswersMatchStore
  <2>. SUFFICES ASSUME OrderInv, NEW c \in Calls
                PROVE  /\ Tool(c) \in {"create", "cancel"} /\ answer[c] = "ok" =>
                             Kept(c) \/ Collided(NumberOf(c)) \/ (~Sql /\ Restarted(Process(c)))
                       /\ Tool(c) = "create" /\ answer[c] = "error" /\ <<"doubt", c>> \notin excuse =>
                             \A x \in Stores, n \in Numbers : rows[x][n] # Nothing => rows[x][n].by # c
    BY DEF AnswersMatchStore
  <2>1. CASE Tool(c) = "create"
    BY <2>1 DEF OrderInv, CreatesKept, Authors, Stored, NumberOf
  <2>2. ASSUME Tool(c) = "cancel", answer[c] = "ok"
        PROVE  Kept(c) \/ Collided(NumberOf(c)) \/ (~Sql /\ Restarted(Process(c)))
    <3>1. NumberOf(c) = ask[c].target
      BY <2>2 DEF NumberOf
    <3>2. order[c] # Nothing /\ ~InDoubt(c) /\ ~Half(c)
      BY <2>2 DEF OrderInv, Stages, Half, Done
    <3>3. CASE Sql
      BY <2>2, <3>1, <3>2, <3>3, CancelsNow DEF Kept, Store
    <3>4. CASE ~Sql
      BY <2>2, <3>1, <3>2, <3>4 DEF OrderInv, MemoryKept, IsCancelled, Kept, Store
    <3>. QED BY <3>3, <3>4
  <2>. QED BY <2>1, <2>2
<1>. QED BY <1>1, OrderSafe, PTL
=============================================================================
