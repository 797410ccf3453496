----------------------------- MODULE TurnProofs -----------------------------
(***************************************************************************)
(* Proofs about Turns, for every set of sessions, buyers and workers, any  *)
(* finite set of turns, any scripts, limits and number of mishaps.         *)
(***************************************************************************)
EXTENDS TurnProps, DataLemmas, SequenceTheorems

-----------------------------------------------------------------------------
(* The types of the state, with what they need to be inductive: where a turn *)
(* is in its script, and that a turn under way has an agent.                 *)

Item == Said \cup ({"hint"} \X Seq(Preference))
ToolNames == {"remember", "forget", "dispatch"}
Traces == [by : Turns \cup {NoTurn}, rounds : Nat]
RowType == [by : Turns, role : {"buyer", "agent"}, no : Nat]
Excuses == ({"overlap", "misread", "changed", "unsaved", "unrecorded"} \X Turns)
           \cup ({"twin", "stale", "overtaken", "crossed", "torn"} \X Sessions)
           \cup ({"collided", "torn"} \X Buyers)

Asked == ask \in [Turns -> Intent] /\ storage \in {"sql", "file"}

CallTypes ==
    /\ luck \in Nat /\ at \in [Turns -> Steps]
    /\ free \in [Processes -> Nat] /\ attempt \in [Turns -> 0 .. MaxRetries]
    /\ upstream \in [Turns -> Nat] /\ sub \in [Turns -> BOOLEAN]
    /\ spent \in [Turns -> Nat] /\ dear \in [Turns -> Nat]

Bounded(r) == \E n \in Nat : \A x \in r : x.no <= n

StoreTypes ==
    /\ prefs \in [Buyers -> Seq(Preference)] /\ draft \in [Turns -> Seq(Preference)]
    /\ promised \in [Buyers -> SUBSET Preference]
    /\ \A k \in DOMAIN bucket : k \in Buyers \X Seq(Preference) /\ bucket[k] \in Seq(Entry)
    /\ saved \in [Sessions -> Seq(Item)] /\ kept \subseteq Sessions
    /\ dump \in [Turns -> [of : Turns \cup {NoTurn}, state : Seq(Item)]]
    /\ rows \in [Sessions -> SUBSET RowType] /\ \A s \in Sessions : Bounded(rows[s])

SharedTypes ==
    /\ agents \in [Processes -> [Sessions -> Turns \cup {NoTurn}]]
    /\ context \in [Turns -> Seq(Item)]
    /\ injected \in [Processes -> [Sessions -> Seq(Preference)]]
    /\ window \in [Processes -> [Sessions -> Seq(ToolNames)]]
    /\ trace \in [Processes -> [Sessions -> Traces]]

OwnTypes ==
    /\ agent \in [Turns -> Turns \cup {NoTurn}] /\ history \in [Turns -> BOOLEAN]
    /\ scope \in [Turns -> Seq(Preference)] /\ entries \in [Turns -> Seq(Entry)]
    /\ number \in [Turns -> Nat] /\ tried \in [Turns -> 0 .. TurnRetries] /\ used \in [Turns -> Nat]
    /\ answer \in [Turns -> {"none", "reply", "cached", "error"}]
    /\ source \in [Turns -> Turns \cup {NoTurn}]

GhostTypes ==
    /\ under \in [Turns -> Seq(Preference)] /\ hinted \in [Turns -> SUBSET Nat]
    /\ judged \in [Turns -> SUBSET Traces] /\ based \in [Turns -> Seq(Item)]
    /\ excuse \subseteq Excuses

Script(t) == ask[t].script
InTool == {"acting", "opening", "filling"}

ScriptFollowed ==
    \A t \in Turns : /\ used[t] <= Len(Script(t))
                     /\ at[t] = "checking" => used[t] < Len(Script(t))
                     /\ at[t] \in InTool => used[t] > 0

AgentThere(t) == agent[t] \in Turns /\ agents[Process(t)][Session(t)] \in Turns

AgentsThere == \A t \in Turns : Open(t) /\ at[t] # "restoring" => AgentThere(t)

TurnInv ==
    Asked /\ CallTypes /\ StoreTypes /\ SharedTypes /\ OwnTypes /\ GhostTypes /\ ScriptFollowed /\ AgentsThere

(* What is assumed of the limits. *)
LEMMA Limits ==
    /\ Slots \in Nat \ {0} /\ MaxRetries \in Nat /\ HasFallback \in BOOLEAN /\ CallCost \in Nat
    /\ TopK \in Nat /\ TurnRetries \in Nat /\ BucketLimit \in Nat \ {0} /\ CheckInterval \in Nat \ {0}
BY ModelAssumption, PreferenceAssumption, TurnAssumption

USE Limits DEF Outcomes, Ok, Effect

(* What nobody changes keeps its type. *)
LEMMA StoresKept == ASSUME StoreTypes, UNCHANGED stores PROVE StoreTypes'
BY DEF StoreTypes, stores, prefVars, Bounded

LEMMA SharedKept == ASSUME SharedTypes, UNCHANGED shared PROVE SharedTypes'
BY DEF SharedTypes, shared

LEMMA OwnKept == ASSUME OwnTypes, UNCHANGED own PROVE OwnTypes'
BY DEF OwnTypes, own

LEMMA GhostsKept == ASSUME GhostTypes, UNCHANGED ghosts PROVE GhostTypes'
BY DEF GhostTypes, ghosts

LEMMA AskedKept == ASSUME Asked, UNCHANGED <<ask, storage>> PROVE Asked'
BY DEF Asked

(* What an intent is, and what holds of the tool call a turn is at. *)
LEMMA IntentOf ==
    ASSUME Asked, NEW t \in Turns
    PROVE  /\ Session(t) \in Sessions /\ Buyer(t) \in Buyers /\ Process(t) \in Processes
           /\ ask[t].query \in Queries /\ Budget(t) \in Nat /\ ask[t].cacheable \in BOOLEAN
           /\ Script(t) \in Seq([tool : ToolNames, pref : Preference])
BY DEF Asked, Intent, Session, Buyer, Process, Budget, Script, ToolNames

LEMMA WantedType ==
    ASSUME Asked, OwnTypes, ScriptFollowed, NEW t \in Turns, at[t] \in InTool
    PROVE  Wanted(t).tool \in ToolNames /\ Wanted(t).pref \in Preference
<1>. DEFINE R == [tool : ToolNames, pref : Preference]
            i == used[t]
            s == Script(t)
<1>1. s \in Seq(R) /\ i \in Nat /\ i <= Len(s) /\ i > 0
  BY IntentOf DEF OwnTypes, ScriptFollowed
<1>2. s[i] \in R
  <2>. HIDE DEF R, s, i
  <2>. QED BY <1>1, ElementOfSeq
<1>. QED BY <1>2 DEF Wanted, Script

(* One turn goes one step: the types of the calls, its place in the script, its agent. *)
LEMMA CallMoves ==
    ASSUME CallTypes, NEW t \in Turns, NEW o \in Outcomes, NEW x \in Steps,
           Call(o), UNCHANGED modelVars, at' = [at EXCEPT ![t] = x]
    PROVE  CallTypes'
BY DEF CallTypes, Call, Mishap, modelVars, budgetVars

LEMMA QuietMoves ==
    ASSUME CallTypes, NEW t \in Turns, NEW x \in Steps,
           UNCHANGED <<luck, modelVars>>, at' = [at EXCEPT ![t] = x]
    PROVE  CallTypes'
BY DEF CallTypes, modelVars, budgetVars

LEMMA ScriptMoves ==
    ASSUME ScriptFollowed, CallTypes, NEW t \in Turns, NEW x \in Steps, at' = [at EXCEPT ![t] = x],
           UNCHANGED <<ask, used>>,
           x = "checking" => used[t] < Len(Script(t)), x \in InTool => used[t] > 0
    PROVE  ScriptFollowed'
BY DEF ScriptFollowed, CallTypes, Script

LEMMA AgentsMove ==
    ASSUME AgentsThere, CallTypes, NEW t \in Turns, NEW x \in Steps, at' = [at EXCEPT ![t] = x],
           UNCHANGED <<ask, agent, agents>>, (Open(t) /\ at[t] # "restoring") \/ x \in {"end", "restoring"}
    PROVE  AgentsThere'
BY DEF AgentsThere, AgentThere, CallTypes, Open, Process, Session

(* A turn goes from one of its steps to a later one, and its agent is what it was. *)
LEMMA TurnMoves ==
    ASSUME TurnInv, NEW t \in Turns, NEW x \in Steps, at' = [at EXCEPT ![t] = x],
           UNCHANGED <<ask, storage, agent, agents, used>>, at[t] \notin {"idle", "restoring", "end", "down"},
           x = "checking" => used[t] < Len(Script(t)), x \in InTool => used[t] > 0
    PROVE  Asked' /\ ScriptFollowed' /\ AgentsThere'
<1>1. ScriptFollowed'
  BY ScriptMoves DEF TurnInv
<1>2. Open(t) /\ at[t] # "restoring"
  BY DEF Open
<1>3. AgentsThere'
  BY <1>2, AgentsMove DEF TurnInv
<1>. QED BY <1>1, <1>3, AskedKept DEF TurnInv

-----------------------------------------------------------------------------
(* Selecting and changing preferences.                                       *)

LEMMA SelectedType ==
    ASSUME NEW list \in Seq(Preference)
    PROVE  Selected(list) \in Seq(Preference)
<1>1. Likes(list) \in Seq(Preference) /\ Dislikes(list) \in Seq(Preference)
  BY FilteredType DEF Likes, Dislikes
<1>2. Len(Likes(list)) > TopK => Latest(Likes(list)) \in Seq(Preference)
  <2>. DEFINE s == Likes(list)
  <2>1. s \in Seq(Preference) /\ Len(s) \in Nat /\ TopK \in Nat
    BY <1>1
  <2>2. Len(s) > TopK => \A i \in Len(s) - TopK + 1 .. Len(s) : s[i] \in Preference
    <3>. HIDE DEF s
    <3>. SUFFICES ASSUME Len(s) > TopK, NEW i \in Len(s) - TopK + 1 .. Len(s) PROVE s[i] \in Preference
      OBVIOUS
    <3>1. i \in 1 .. Len(s)
      BY <2>1
    <3>. QED BY <3>1, <2>1, ElementOfSeq
  <2>3. Len(s) > TopK => SubSeq(s, Len(s) - TopK + 1, Len(s)) \in Seq(Preference)
    <3>. HIDE DEF s
    <3>1. Len(s) - TopK + 1 \in Int /\ Len(s) \in Int
      BY <2>1
    <3>. QED BY <3>1, <2>2, SubSeqProperties
  <2>. QED BY <2>3 DEF Latest
<1>3. Len(Likes(list)) \in Nat /\ TopK \in Nat
  BY <1>1
<1>4. (IF Len(Likes(list)) <= TopK THEN Likes(list) ELSE Latest(Likes(list))) \in Seq(Preference)
  BY <1>1, <1>2, <1>3
<1>. QED BY <1>1, <1>4, ConcatProperties DEF Selected

LEMMA AppendedType ==
    ASSUME NEW list \in Seq(Preference), NEW p \in Preference
    PROVE  Appended(list, p) \in Seq(Preference)
BY AppendProperties DEF Appended

LEMMA ChangedType ==
    ASSUME TurnInv, NEW t \in Turns, at[t] \in InTool
    PROVE  Changed(t) \in Seq(Preference)
<1>1. Wanted(t).pref \in Preference /\ Buyer(t) \in Buyers
  BY WantedType, IntentOf DEF TurnInv
<1>2. prefs[Buyer(t)] \in Seq(Preference)
  BY <1>1 DEF TurnInv, StoreTypes
<1>3. Remembered(t) \in Seq(Preference)
  BY <1>1, <1>2, AppendedType DEF Remembered
<1>4. Forgotten(t) \in Seq(Preference)
  BY <1>2, FilteredType DEF Forgotten, Deleted
<1>. QED BY <1>3, <1>4 DEF Changed

LEMMA ListedType ==
    ASSUME TurnInv, NEW t \in Turns, NEW o
    PROVE  Listed(t, o) \in Seq(Preference)
BY IntentOf DEF TurnInv, StoreTypes, Listed

LEMMA MisreadType ==
    ASSUME TurnInv, NEW t \in Turns, NEW o, MisreadIf(t, o)
    PROVE  excuse' \subseteq Excuses
BY DEF TurnInv, GhostTypes, MisreadIf, Excused, Excuses

-----------------------------------------------------------------------------
(* The turn starts, reads and asks the cache.                                *)

LEMMA StartInv ==
    ASSUME TurnInv, NEW t \in Turns, Start(t), UNCHANGED <<ask, storage>>
    PROVE  TurnInv'
<1>. DEFINE a == agents[Process(t)][Session(t)]
            x == IF a = NoTurn THEN "restoring" ELSE "scoping"
<1>1. at[t] = "idle" /\ at' = [at EXCEPT ![t] = x] /\ x \in Steps
  BY DEF Start, Step, Steps
<1>2. a \in Turns \cup {NoTurn}
  BY IntentOf DEF TurnInv, SharedTypes
<1>3. CallTypes'
  BY <1>1, QuietMoves DEF TurnInv, Start
<1>4. StoreTypes'
  BY StoresKept DEF TurnInv, Start
<1>5. SharedTypes'
  <2>1. Trace(t) \in Traces
    BY IntentOf DEF TurnInv, SharedTypes, Trace
  <2>2. trace' \in [Processes -> [Sessions -> Traces]]
    BY <2>1, IntentOf DEF TurnInv, SharedTypes, Start, StartTrace, SetTrace, Traces
  <2>. QED BY <2>2 DEF TurnInv, SharedTypes, Start
<1>6. OwnTypes'
  BY <1>2 DEF TurnInv, OwnTypes, Start
<1>7. GhostTypes'
  <2>1. {"overlap"} \X ({t} \cup Here(t)) \subseteq Excuses
    BY DEF Here, Excuses
  <2>. HIDE DEF a
  <2>. QED BY <2>1 DEF TurnInv, GhostTypes, Start
<1>8. ScriptFollowed'
  <2>1. x # "checking" /\ x \notin InTool
    BY DEF InTool
  <2>. HIDE DEF x
  <2>. QED BY <1>1, <2>1, ScriptMoves DEF TurnInv, Start
<1>9. AgentsThere'
  <2>1. agent' = [agent EXCEPT ![t] = a] /\ agents' = agents
    BY DEF Start
  <2>. SUFFICES ASSUME NEW d \in Turns, Open(d)', at'[d] # "restoring" PROVE AgentThere(d)'
    BY DEF AgentsThere
  <2>2. CASE d = t
    <3>1. a \in Turns
      BY <1>1, <1>2, <2>2 DEF TurnInv, CallTypes
    <3>. QED BY <3>1, <2>1, <2>2 DEF AgentThere, Process, Session, TurnInv, OwnTypes
  <2>3. CASE d # t
    <3>. HIDE DEF a, x
    <3>1. at'[d] = at[d] /\ agent'[d] = agent[d]
      BY <1>1, <2>1, <2>3 DEF TurnInv, CallTypes, OwnTypes
    <3>. QED BY <3>1, <2>1 DEF TurnInv, AgentsThere, AgentThere, Open, Process, Session
  <2>. QED BY <2>2, <2>3
<1>. QED BY <1>3, <1>4, <1>5, <1>6, <1>7, <1>8, <1>9, AskedKept DEF TurnInv

LEMMA RestoreInv ==
    ASSUME TurnInv, NEW t \in Turns, NEW o \in Outcomes, Restore(t, o), UNCHANGED <<ask, storage>>
    PROVE  TurnInv'
<1>. DEFINE p == Process(t)
            s == Session(t)
<1>1. at[t] = "restoring" /\ at' = [at EXCEPT ![t] = "scoping"] /\ "scoping" \in Steps
  BY DEF Restore, Step, Steps
<1>2. Restored(t, o) \in Seq(Item) /\ saved[s] \in Seq(Item)
  BY IntentOf DEF TurnInv, StoreTypes, Restored
<1>3. CallTypes'
  BY <1>1, CallMoves DEF TurnInv, Restore
<1>4. StoreTypes'
  BY StoresKept DEF TurnInv, Restore
<1>5. SharedTypes'
  BY <1>2 DEF TurnInv, SharedTypes, Restore
<1>6. OwnTypes'
  BY DEF TurnInv, OwnTypes, Restore
<1>7. GhostTypes'
  <2>1. excuse' \subseteq Excuses
    BY IntentOf DEF TurnInv, GhostTypes, Restore, Excused, Excuses
  <2>2. based' \in [Turns -> Seq(Item)]
    BY <1>2 DEF TurnInv, GhostTypes, Restore
  <2>. QED BY <2>1, <2>2 DEF TurnInv, GhostTypes, Restore
<1>8. ScriptFollowed'
  BY <1>1, ScriptMoves DEF TurnInv, Restore, InTool
<1>9. AgentsThere'
  <2>1. agent' = [agent EXCEPT ![t] = t] /\ agents' = [agents EXCEPT ![p][s] = t]
    BY DEF Restore
  <2>. SUFFICES ASSUME NEW d \in Turns, Open(d)', at'[d] # "restoring" PROVE AgentThere(d)'
    BY DEF AgentsThere
  <2>2. p \in Processes /\ s \in Sessions /\ Process(d) \in Processes /\ Session(d) \in Sessions
    BY IntentOf DEF TurnInv
  <2>3. \A q \in Processes, r \in Sessions :
            agents'[q][r] = IF q = p /\ r = s THEN t ELSE agents[q][r]
    BY <2>1, <2>2 DEF TurnInv, SharedTypes
  <2>4. CASE d = t
    BY <2>1, <2>2, <2>3, <2>4 DEF AgentThere, Process, Session, TurnInv, OwnTypes
  <2>5. CASE d # t
    <3>1. at'[d] = at[d] /\ agent'[d] = agent[d]
      BY <1>1, <2>1, <2>5 DEF TurnInv, CallTypes, OwnTypes
    <3>2. AgentThere(d)
      BY <3>1 DEF TurnInv, AgentsThere, Open
    <3>3. agents'[Process(d)][Session(d)] \in Turns
      BY <3>2, <2>2, <2>3 DEF AgentThere
    <3>. QED BY <3>1, <3>2, <3>3 DEF AgentThere, Process, Session
  <2>. QED BY <2>4, <2>5
<1>. QED BY <1>3, <1>4, <1>5, <1>6, <1>7, <1>8, <1>9, AskedKept DEF TurnInv

LEMMA ReadScopeInv ==
    ASSUME TurnInv, NEW t \in Turns, NEW o \in Outcomes, ReadScope(t, o), UNCHANGED <<ask, storage>>
    PROVE  TurnInv'
<1>1. PICK x \in {"looking", "building", "loading", "persisting"} : at' = [at EXCEPT ![t] = x]
  BY DEF ReadScope, Step
<1>2. at[t] \in {"scoping", "rescoping"} /\ x \in Steps
  BY DEF ReadScope, Step, Steps
<1>3. CallTypes'
  BY <1>1, <1>2, CallMoves DEF TurnInv, ReadScope
<1>4. StoreTypes' /\ SharedTypes'
  BY StoresKept, SharedKept DEF TurnInv, ReadScope
<1>5. OwnTypes'
  <2>1. Scope(t, o) \in Seq(Preference)
    BY ListedType DEF Scope
  <2>. QED BY <2>1 DEF TurnInv, OwnTypes, ReadScope
<1>6. GhostTypes'
  BY MisreadType DEF TurnInv, GhostTypes, ReadScope
<1>7. Asked' /\ ScriptFollowed' /\ AgentsThere'
  BY <1>1, <1>2, TurnMoves DEF ReadScope, shared, InTool
<1>. QED BY <1>3, <1>4, <1>5, <1>6, <1>7 DEF TurnInv

LEMMA BuildInputsInv ==
    ASSUME TurnInv, NEW t \in Turns, NEW o \in Outcomes, BuildInputs(t, o), UNCHANGED <<ask, storage>>
    PROVE  TurnInv'
<1>1. at[t] = "building" /\ at' = [at EXCEPT ![t] = "asking"] /\ "asking" \in Steps
  BY DEF BuildInputs, Step, Steps
<1>2. Listed(t, o) \in Seq(Preference) /\ Selected(Listed(t, o)) \in Seq(Preference)
  BY ListedType, SelectedType
<1>3. CallTypes'
  BY <1>1, CallMoves DEF TurnInv, BuildInputs
<1>4. StoreTypes' /\ OwnTypes'
  BY StoresKept, OwnKept DEF TurnInv, BuildInputs
<1>5. SharedTypes'
  <2>. DEFINE chosen == Selected(Listed(t, o))
    <2>1. HintOf(chosen) \in Item /\ <<"asked", t>> \in Item
    BY <1>2 DEF HintOf, Item, Said
  <2>2. \A c \in Seq(Item) :
            c \o (IF chosen # << >> /\ ~AlreadyInjected(t, chosen) THEN <<HintOf(chosen)>> ELSE << >>)
              \o <<<<"asked", t>>>> \in Seq(Item)
    <3>1. <<HintOf(chosen)>> \in Seq(Item) /\ <<<<"asked", t>>>> \in Seq(Item) /\ << >> \in Seq(Item)
      BY <2>1
    <3>. QED BY <3>1, ConcatProperties
  <2>3. context' \in [Turns -> Seq(Item)]
    <3>1. agent[t] \in Turns
      BY <1>1 DEF TurnInv, AgentsThere, AgentThere, Open
    <3>. QED BY <3>1, <2>2 DEF TurnInv, SharedTypes, BuildInputs
  <2>4. injected' \in [Processes -> [Sessions -> Seq(Preference)]]
    BY <1>2, IntentOf DEF TurnInv, SharedTypes, BuildInputs
  <2>. QED BY <2>3, <2>4 DEF TurnInv, SharedTypes, BuildInputs
<1>6. GhostTypes'
  BY <1>2, MisreadType DEF TurnInv, GhostTypes, BuildInputs
<1>7. Asked' /\ ScriptFollowed' /\ AgentsThere'
  BY <1>1, TurnMoves DEF BuildInputs, own, InTool
<1>. QED BY <1>3, <1>4, <1>5, <1>6, <1>7 DEF TurnInv

LEMMA BucketType ==
    ASSUME TurnInv, NEW t \in Turns
    PROVE  Bucket(t) \in Buyers \X Seq(Preference) /\ Entries(Bucket(t)) \in Seq(Entry)
BY IntentOf DEF TurnInv, StoreTypes, OwnTypes, Bucket, Entries

LEMMA LookupInv ==
    ASSUME TurnInv, NEW t \in Turns, NEW o \in Outcomes, Lookup(t, o), UNCHANGED <<ask, storage>>
    PROVE  TurnInv'
<1>1. PICK x \in {"building", "persisting"} : at' = [at EXCEPT ![t] = x]
  BY DEF Lookup
<1>2. at[t] = "looking" /\ x \in Steps
  BY DEF Lookup, Steps
<1>3. CallTypes'
  BY <1>1, <1>2, CallMoves DEF TurnInv, Lookup
<1>4. StoreTypes' /\ SharedTypes' /\ GhostTypes'
  BY StoresKept, SharedKept, GhostsKept DEF TurnInv, Lookup
<1>5. OwnTypes'
  <2>1. \A e \in Range(Entries(Bucket(t))) : e.by \in Turns
    <3>. DEFINE list == Entries(Bucket(t))
    <3>1. list \in Seq(Entry)
      BY BucketType
    <3>2. \A i \in DOMAIN list : list[i] \in Entry
      <4>. HIDE DEF list
      <4>. QED BY <3>1, ElementOfSeq, LenProperties
    <3>. QED BY <3>2 DEF Range, Entry
  <2>. QED BY <2>1 DEF TurnInv, OwnTypes, Lookup
<1>6. Asked' /\ ScriptFollowed' /\ AgentsThere'
  BY <1>1, <1>2, TurnMoves DEF Lookup, shared, InTool
<1>. QED BY <1>3, <1>4, <1>5, <1>6 DEF TurnInv

LEMMA LoadEntriesInv ==
    ASSUME TurnInv, NEW t \in Turns, NEW o \in Outcomes, LoadEntries(t, o), UNCHANGED <<ask, storage>>
    PROVE  TurnInv'
<1>1. at[t] = "loading" /\ at' = [at EXCEPT ![t] = "storing"] /\ "storing" \in Steps
  BY DEF LoadEntries, Step, Steps
<1>2. CallTypes'
  BY <1>1, CallMoves DEF TurnInv, LoadEntries
<1>3. StoreTypes' /\ SharedTypes' /\ GhostTypes'
  BY StoresKept, SharedKept, GhostsKept DEF TurnInv, LoadEntries
<1>4. OwnTypes'
  BY BucketType DEF TurnInv, OwnTypes, LoadEntries
<1>5. Asked' /\ ScriptFollowed' /\ AgentsThere'
  BY <1>1, TurnMoves DEF LoadEntries, shared, InTool
<1>. QED BY <1>2, <1>3, <1>4, <1>5 DEF TurnInv

(* The last BucketLimit entries of a list that is not empty. *)
LEMMA LastEntriesType ==
    ASSUME NEW T, NEW list \in Seq(T), list # << >>
    PROVE  /\ LastEntries(list) \in Seq(T) /\ Len(LastEntries(list)) <= BucketLimit
           /\ \A i \in DOMAIN LastEntries(list) : \E j \in DOMAIN list : LastEntries(list)[i] = list[j]
<1>. DEFINE n == Len(list)
            m == Max({1, n - BucketLimit + 1})
<1>1. n \in Nat /\ n > 0 /\ BucketLimit \in Nat /\ BucketLimit > 0
  BY EmptySeq, LenProperties
<1>2. m \in {1, n - BucketLimit + 1} /\ m >= 1 /\ m >= n - BucketLimit + 1
  <2>1. \E k \in {1, n - BucketLimit + 1} : \A y \in {1, n - BucketLimit + 1} : k >= y
    BY <1>1
  <2>. QED BY <2>1 DEF Max
<1>3. m \in Int /\ m <= n /\ n - m + 1 <= BucketLimit
  <2>. HIDE DEF m, n
  <2>. QED BY <1>1, <1>2
<1>4. \A i \in m .. n : i \in 1 .. n /\ list[i] \in T
  <2>. HIDE DEF m
  <2>. QED BY <1>1, <1>2, <1>3, ElementOfSeq
<1>5. /\ SubSeq(list, m, n) \in Seq(T) /\ Len(SubSeq(list, m, n)) = n - m + 1
      /\ \A i \in 1 .. n - m + 1 : SubSeq(list, m, n)[i] = list[m + i - 1]
  <2>. HIDE DEF m, n
  <2>. QED BY <1>1, <1>3, <1>4, SubSeqProperties
<1>6. LastEntries(list) = SubSeq(list, m, n)
  BY DEF LastEntries
<1>7. ASSUME NEW i \in DOMAIN SubSeq(list, m, n)
      PROVE  \E j \in DOMAIN list : SubSeq(list, m, n)[i] = list[j]
  <2>. DEFINE s == SubSeq(list, m, n)
  <2>1. i \in 1 .. n - m + 1
    <3>1. DOMAIN s = 1 .. Len(s)
      BY <1>5, LenProperties
    <3>. HIDE DEF m, n
    <3>. QED BY <3>1, <1>5
  <2>2. m + i - 1 \in 1 .. n
    <3>. HIDE DEF m, n
    <3>. QED BY <2>1, <1>1, <1>2, <1>3
  <2>. HIDE DEF m
  <2>. QED BY <2>1, <2>2, <1>5, LenProperties
<1>. HIDE DEF m, n
<1>. QED BY <1>3, <1>5, <1>6, <1>7

LEMMA StoreEntriesInv ==
    ASSUME TurnInv, NEW t \in Turns, NEW o \in Outcomes, StoreEntries(t, o), UNCHANGED <<ask, storage>>
    PROVE  TurnInv'
<1>. DEFINE list == LastEntries(Append(entries[t], [query |-> ask[t].query, by |-> t]))
<1>1. at[t] = "storing" /\ at' = [at EXCEPT ![t] = "persisting"] /\ "persisting" \in Steps
  BY DEF StoreEntries, Step, Steps
<1>2. list \in Seq(Entry)
  <2>1. [query |-> ask[t].query, by |-> t] \in Entry /\ entries[t] \in Seq(Entry)
    BY IntentOf DEF Entry, TurnInv, OwnTypes
  <2>2. Append(entries[t], [query |-> ask[t].query, by |-> t]) \in Seq(Entry) \ {<< >>}
    BY <2>1, AppendProperties
  <2>. QED BY <2>2, LastEntriesType
<1>3. CallTypes'
  BY <1>1, CallMoves DEF TurnInv, StoreEntries
<1>4. StoreTypes'
  <2>1. \A k \in DOMAIN bucket' : k \in Buyers \X Seq(Preference) /\ bucket'[k] \in Seq(Entry)
    <3>. HIDE DEF list
    <3>1. bucket' = bucket
          \/ bucket' = [k \in DOMAIN bucket \cup {Bucket(t)} |-> IF k = Bucket(t) THEN list ELSE bucket[k]]
      BY DEF StoreEntries, list
    <3>. QED BY <3>1, <1>2, BucketType DEF TurnInv, StoreTypes
  <2>. QED BY <2>1 DEF TurnInv, StoreTypes, StoreEntries, prefVars, Bounded
<1>5. SharedTypes' /\ GhostTypes'
  BY SharedKept, GhostsKept DEF TurnInv, StoreEntries
<1>6. OwnTypes'
  BY DEF TurnInv, OwnTypes, StoreEntries
<1>7. Asked' /\ ScriptFollowed' /\ AgentsThere'
  BY <1>1, TurnMoves DEF StoreEntries, shared, InTool
<1>. QED BY <1>3, <1>4, <1>5, <1>6, <1>7 DEF TurnInv

-----------------------------------------------------------------------------
(* The turn calls the model and its tools.                                   *)

(* Calls of the model keep their types; Slots is not needed for a slot that comes back. *)
LEMMA AskingInv ==
    ASSUME TurnInv, NEW t \in Turns, Asking(t), UNCHANGED <<ask, storage>>
    PROVE  TurnInv'
<1>1. PICK x \in {"calling", "falling"} : at' = [at EXCEPT ![t] = x]
  <2>1. at[t] = "calling" => at = [at EXCEPT ![t] = "calling"]
    BY DEF TurnInv, CallTypes
  <2>. QED BY <2>1 DEF Asking, Acquire, Retry
<1>2. at[t] \in {"asking", "calling"} /\ x \in Steps
  BY DEF Asking, Acquire, Retry, Steps
<1>3. CallTypes'
  <2>1. CASE Acquire(t)
    <3>1. Process(t) \in Processes /\ free[Process(t)] \in Nat /\ free[Process(t)] > 0
      BY <2>1, IntentOf DEF Acquire, TurnInv, CallTypes
    <3>2. free' \in [Processes -> Nat]
      BY <2>1, <3>1 DEF Acquire, TurnInv, CallTypes
    <3>. QED BY <2>1, <3>2, <1>1, <1>2 DEF Acquire, TurnInv, CallTypes, budgetVars
  <2>2. CASE Retry(t)
    <3>1. at' \in [Turns -> Steps]
      BY <1>1, <1>2 DEF TurnInv, CallTypes
    <3>2. attempt' \in [Turns -> 0 .. MaxRetries]
      BY <2>2 DEF Retry, TurnInv, CallTypes
    <3>. QED BY <2>2, <3>1, <3>2 DEF Retry, Sent, Mishap, TurnInv, CallTypes, budgetVars
  <2>. QED BY <2>1, <2>2 DEF Asking
<1>4. StoreTypes' /\ SharedTypes' /\ OwnTypes' /\ GhostTypes'
  BY StoresKept, SharedKept, OwnKept, GhostsKept DEF TurnInv, Asking
<1>5. Asked' /\ ScriptFollowed' /\ AgentsThere'
  BY <1>1, <1>2, TurnMoves DEF Asking, shared, own, InTool
<1>. QED BY <1>3, <1>4, <1>5 DEF TurnInv

LEMMA OverTypes ==
    ASSUME TurnInv, NEW t \in Turns, free' = [free EXCEPT ![Process(t)] = @ + 1],
           attempt' = [attempt EXCEPT ![t] = 0]
    PROVE  free' \in [Processes -> Nat] /\ attempt' \in [Turns -> 0 .. MaxRetries]
<1>1. Process(t) \in Processes
  BY IntentOf DEF TurnInv
<1>. QED BY <1>1 DEF TurnInv, CallTypes

LEMMA AnsweredTypes ==
    ASSUME TurnInv, NEW t \in Turns, Answered(t)
    PROVE  /\ free' \in [Processes -> Nat] /\ attempt' \in [Turns -> 0 .. MaxRetries]
           /\ upstream' \in [Turns -> Nat] /\ luck' \in Nat
           /\ spent' \in [Turns -> Nat] /\ dear' \in [Turns -> Nat] /\ at[t] \in Holding
<1>1. spent' \in [Turns -> Nat] /\ dear' \in [Turns -> Nat]
  BY DEF Answered, Charge, Charged, TurnInv, CallTypes, budgetVars
<1>2. free' \in [Processes -> Nat] /\ attempt' \in [Turns -> 0 .. MaxRetries]
  BY OverTypes DEF Answered, Over, GivesBack
<1>3. upstream' \in [Turns -> Nat] /\ luck' \in Nat /\ at[t] \in Holding
  BY DEF Answered, Sent, TurnInv, CallTypes
<1>. QED BY <1>1, <1>2, <1>3

LEMMA RaisesTypes ==
    ASSUME TurnInv, NEW t \in Turns, Raises(t)
    PROVE  /\ free' \in [Processes -> Nat] /\ attempt' \in [Turns -> 0 .. MaxRetries]
           /\ upstream' \in [Turns -> Nat] /\ luck' \in Nat
           /\ spent' \in [Turns -> Nat] /\ dear' \in [Turns -> Nat] /\ at[t] \in Holding
<1>1. free' \in [Processes -> Nat] /\ attempt' \in [Turns -> 0 .. MaxRetries]
  BY OverTypes DEF Raises, Over, GivesBack
<1>2. upstream' \in [Turns -> Nat] /\ luck' \in Nat /\ at[t] \in Holding
  BY DEF Raises, Sent, Mishap, TurnInv, CallTypes
<1>. QED BY <1>1, <1>2 DEF Raises, budgetVars, TurnInv, CallTypes

LEMMA RepliedInv ==
    ASSUME TurnInv, NEW t \in Turns, Replied(t), UNCHANGED <<ask, storage>>
    PROVE  TurnInv'
<1>1. PICK x \in {"checking", "rescoping"} :
          at' = [at EXCEPT ![t] = x] /\ (x = "checking" => used[t] < Len(Script(t)))
  BY DEF Replied, Script
<1>2. at[t] \in Holding /\ x \in Steps
  BY DEF Replied, Answered, Steps
<1>3. CallTypes'
  BY <1>1, <1>2, AnsweredTypes DEF Replied, TurnInv, CallTypes
<1>4. StoreTypes'
  BY StoresKept DEF TurnInv, Replied
<1>5. SharedTypes'
  <2>1. agent[t] \in Turns /\ <<"told", t>> \in Item
    BY <1>2 DEF TurnInv, AgentsThere, AgentThere, Open, Holding, Item, Said
  <2>2. context' = context \/ context' = [context EXCEPT ![agent[t]] = Append(@, <<"told", t>>)]
    BY DEF Replied
  <2>3. context' \in [Turns -> Seq(Item)]
    <3>1. \A c \in Seq(Item) : Append(c, <<"told", t>>) \in Seq(Item)
      BY <2>1, AppendProperties
    <3>2. context \in [Turns -> Seq(Item)]
      BY DEF TurnInv, SharedTypes
    <3>. QED BY <2>1, <2>2, <3>1, <3>2
  <2>. QED BY <2>3 DEF TurnInv, SharedTypes, Replied
<1>6. OwnTypes'
  BY DEF TurnInv, OwnTypes, Replied
<1>7. GhostTypes'
  <2>1. Trace(t) \in Traces
    BY IntentOf DEF TurnInv, SharedTypes, Trace
  <2>2. judged' = judged \/ judged' = [judged EXCEPT ![t] = @ \cup {Trace(t)}]
    BY DEF Replied
  <2>. QED BY <2>1, <2>2 DEF TurnInv, GhostTypes, Replied
<1>8. Asked' /\ ScriptFollowed' /\ AgentsThere'
  BY <1>1, <1>2, TurnMoves DEF Replied, Holding, InTool
<1>. QED BY <1>3, <1>4, <1>5, <1>6, <1>7, <1>8 DEF TurnInv

LEMMA ReplyRaisesInv ==
    ASSUME TurnInv, NEW t \in Turns, ReplyRaises(t), UNCHANGED <<ask, storage>>
    PROVE  TurnInv'
<1>1. PICK x \in {"asking", "persisting"} : at' = [at EXCEPT ![t] = x]
  BY DEF ReplyRaises
<1>2. at[t] \in Holding /\ x \in Steps
  BY DEF ReplyRaises, Raises, Steps
<1>3. CallTypes'
  BY <1>1, <1>2, RaisesTypes DEF ReplyRaises, TurnInv, CallTypes
<1>4. StoreTypes' /\ SharedTypes' /\ GhostTypes'
  BY StoresKept, SharedKept, GhostsKept DEF TurnInv, ReplyRaises
<1>5. OwnTypes'
  <2>1. tried' \in [Turns -> 0 .. TurnRetries]
    <3>1. tried' = tried \/ (tried[t] < TurnRetries /\ tried' = [tried EXCEPT ![t] = @ + 1])
      BY DEF ReplyRaises, MayRetry
    <3>2. tried \in [Turns -> 0 .. TurnRetries]
      BY DEF TurnInv, OwnTypes
    <3>. QED BY <3>1, <3>2
  <2>2. answer' = answer \/ answer' = [answer EXCEPT ![t] = "error"]
    BY DEF ReplyRaises
  <2>. QED BY <2>1, <2>2 DEF TurnInv, OwnTypes, ReplyRaises
<1>6. Asked' /\ ScriptFollowed' /\ AgentsThere'
  BY <1>1, <1>2, TurnMoves DEF ReplyRaises, Holding, shared, InTool
<1>. QED BY <1>3, <1>4, <1>5, <1>6 DEF TurnInv

LEMMA CheckInv ==
    ASSUME TurnInv, NEW t \in Turns, Check(t), UNCHANGED <<ask, storage>>
    PROVE  TurnInv'
<1>1. at[t] = "checking" /\ at' = [at EXCEPT ![t] = "acting"] /\ "acting" \in Steps
  BY DEF Check, Step, Steps
<1>2. used' = [used EXCEPT ![t] = @ + 1] /\ used[t] \in Nat /\ used[t] < Len(Script(t))
  BY <1>1 DEF Check, TurnInv, OwnTypes, ScriptFollowed
<1>3. CallTypes'
  BY <1>1, QuietMoves DEF TurnInv, Check
<1>4. StoreTypes'
  BY StoresKept DEF TurnInv, Check
<1>5. SharedTypes'
  <2>. DEFINE tool == ask[t].script[used[t] + 1].tool
              calls == Append(Tools(t), tool)
              recent == IF Len(calls) > Window THEN Tail(calls) ELSE calls
  <2>1. tool \in ToolNames
    <3>. DEFINE R == [tool : ToolNames, pref : Preference]
                i == used[t] + 1
                s == Script(t)
    <3>1. s \in Seq(R) /\ i \in 1 .. Len(s)
      <4>1. s \in Seq(R)
        BY IntentOf DEF TurnInv
      <4>2. Len(s) \in Nat
        BY <4>1, LenProperties
      <4>. HIDE DEF s, R
      <4>. QED BY <4>1, <4>2, <1>2 DEF s
    <3>2. s[i] \in R
      <4>. HIDE DEF R, s, i
      <4>. QED BY <3>1, ElementOfSeq
    <3>. QED BY <3>2 DEF Script
  <2>2. Tools(t) \in Seq(ToolNames)
    BY IntentOf DEF TurnInv, SharedTypes, Tools
  <2>3. recent \in Seq(ToolNames)
    <3>. HIDE DEF tool
    <3>1. calls \in Seq(ToolNames) /\ calls # << >>
      BY <2>1, <2>2, AppendProperties
    <3>. HIDE DEF calls
    <3>. QED BY <3>1, HeadTailProperties
  <2>4. window' = [window EXCEPT ![Process(t)][Session(t)] = recent]
    BY DEF Check
  <2>5. window' \in [Processes -> [Sessions -> Seq(ToolNames)]]
    <3>. HIDE DEF recent
    <3>. QED BY <2>3, <2>4, IntentOf DEF TurnInv, SharedTypes
  <2>. QED BY <2>5 DEF TurnInv, SharedTypes, Check
<1>6. OwnTypes'
  <2>1. used \in [Turns -> Nat]
    BY DEF TurnInv, OwnTypes
  <2>2. used' \in [Turns -> Nat]
    BY <1>2, <2>1
  <2>. QED BY <2>2 DEF TurnInv, OwnTypes, Check
<1>7. GhostTypes'
  <2>1. hinted' = hinted \/ hinted' = [hinted EXCEPT ![t] = @ \cup {used[t] + 1}]
    BY DEF Check
  <2>2. UNCHANGED <<under, judged, based, excuse>>
    BY DEF Check
  <2>3. hinted \in [Turns -> SUBSET Nat] /\ used[t] + 1 \in Nat
    BY <1>2 DEF TurnInv, GhostTypes
  <2>4. hinted' \in [Turns -> SUBSET Nat]
    BY <2>1, <2>3
  <2>. QED BY <2>2, <2>4 DEF TurnInv, GhostTypes
<1>8. ScriptFollowed'
  <2>1. \A d \in Turns : Script(d)' = Script(d)
    BY DEF Script
  <2>2. Len(Script(t)) \in Nat
    BY IntentOf DEF TurnInv
  <2>3. /\ used'[t] = used[t] + 1 /\ at'[t] = "acting"
        /\ \A d \in Turns \ {t} : used'[d] = used[d] /\ at'[d] = at[d]
    BY <1>1, <1>2 DEF TurnInv, CallTypes, OwnTypes
  <2>4. used[t] + 1 <= Len(Script(t)) /\ used[t] + 1 > 0
    BY <1>2, <2>2
  <2>. QED BY <2>1, <2>3, <2>4 DEF ScriptFollowed, TurnInv, InTool
<1>9. AgentsThere'
  BY <1>1, AgentsMove DEF TurnInv, Open, Check
<1>. QED BY <1>3, <1>4, <1>5, <1>6, <1>7, <1>8, <1>9, AskedKept DEF TurnInv

(* What the tools do to the preferences and to the trace. *)
LEMMA PromiseType ==
    ASSUME TurnInv, NEW t \in Turns, at[t] \in InTool, Promise(t)
    PROVE  promised' \in [Buyers -> SUBSET Preference]
<1>1. Wanted(t).pref \in Preference /\ Buyer(t) \in Buyers
  BY WantedType, IntentOf DEF TurnInv
<1>2. promised \in [Buyers -> SUBSET Preference]
  BY DEF TurnInv, StoreTypes
<1>. QED BY <1>1, <1>2 DEF Promise

LEMMA OverwriteType ==
    ASSUME TurnInv, NEW t \in Turns, NEW list \in Seq(Preference), Overwrite(t, list)
    PROVE  prefs' \in [Buyers -> Seq(Preference)] /\ excuse' \subseteq Excuses
<1>1. prefs' \in [Buyers -> Seq(Preference)]
  BY IntentOf DEF TurnInv, StoreTypes, Overwrite
<1>2. {<<"changed", d>> : d \in {d \in Turns : Open(d) /\ Buyer(d) = Buyer(t)}} \subseteq Excuses
  BY DEF Excuses
<1>. QED BY <1>1, <1>2 DEF Overwrite, TurnInv, GhostTypes

LEMMA ObserveType ==
    ASSUME TurnInv, NEW t \in Turns, Observe(t)
    PROVE  trace' \in [Processes -> [Sessions -> Traces]]
<1>1. Trace(t) \in Traces
  BY IntentOf DEF TurnInv, SharedTypes, Trace
<1>2. [Trace(t) EXCEPT !.rounds = @ + 1] \in Traces
  BY <1>1 DEF Traces
<1>. QED BY <1>2, IntentOf DEF TurnInv, SharedTypes, Observe, SetTrace

LEMMA RemembersInv ==
    ASSUME TurnInv, NEW t \in Turns, NEW o \in Outcomes, Remembers(t, o), UNCHANGED <<ask, storage>>
    PROVE  TurnInv'
<1>1. at[t] = "acting" /\ at' = [at EXCEPT ![t] = "asking"] /\ "asking" \in Steps /\ at[t] \in InTool
  BY DEF Remembers, Step, Steps, InTool
<1>2. CallTypes'
  BY <1>1, CallMoves DEF TurnInv, Remembers
<1>3. /\ prefs' \in [Buyers -> Seq(Preference)] /\ promised' \in [Buyers -> SUBSET Preference]
      /\ excuse' \subseteq Excuses
  <2>1. CASE o # "refused"
    BY <2>1, <1>1, ChangedType, OverwriteType, PromiseType DEF Remembers
  <2>2. CASE o = "refused"
    BY <2>2 DEF Remembers, TurnInv, StoreTypes, GhostTypes
  <2>. QED BY <2>1, <2>2
<1>4. StoreTypes' /\ GhostTypes'
  BY <1>3 DEF Remembers, TurnInv, StoreTypes, GhostTypes, Bounded
<1>5. SharedTypes'
  BY ObserveType DEF Remembers, TurnInv, SharedTypes
<1>6. OwnTypes'
  BY OwnKept DEF TurnInv, Remembers
<1>7. Asked' /\ ScriptFollowed' /\ AgentsThere'
  BY <1>1, TurnMoves DEF Remembers, own, InTool
<1>. QED BY <1>2, <1>4, <1>5, <1>6, <1>7 DEF TurnInv

LEMMA ReadFileInv ==
    ASSUME TurnInv, NEW t \in Turns, ReadFile(t), UNCHANGED <<ask, storage>>
    PROVE  TurnInv'
<1>1. PICK x \in {"asking", "opening"} : at' = [at EXCEPT ![t] = x]
  BY DEF ReadFile
<1>2. at[t] = "acting" /\ x \in Steps /\ at[t] \in InTool
  BY DEF ReadFile, Steps, InTool
<1>3. CallTypes'
  BY <1>1, <1>2, QuietMoves DEF TurnInv, ReadFile
<1>4. StoreTypes'
  <2>1. draft' \in [Turns -> Seq(Preference)]
    <3>1. draft' = draft \/ draft' = [draft EXCEPT ![t] = Changed(t)]
      BY DEF ReadFile
    <3>. QED BY <3>1, <1>2, ChangedType DEF TurnInv, StoreTypes
  <2>2. promised' \in [Buyers -> SUBSET Preference]
    <3>1. Promise(t) \/ promised' = promised
      BY DEF ReadFile
    <3>. QED BY <3>1, <1>2, PromiseType DEF TurnInv, StoreTypes
  <2>. QED BY <2>1, <2>2 DEF TurnInv, StoreTypes, ReadFile, Bounded
<1>5. SharedTypes'
  <2>1. Observe(t) \/ trace' = trace
    BY DEF ReadFile
  <2>2. trace' \in [Processes -> [Sessions -> Traces]]
    BY <2>1, ObserveType DEF TurnInv, SharedTypes
  <2>. QED BY <2>2 DEF ReadFile, TurnInv, SharedTypes
<1>6. OwnTypes'
  BY OwnKept DEF TurnInv, ReadFile
<1>7. GhostTypes'
  <2>1. <<"collided", Buyer(t)>> \in Excuses
    BY IntentOf DEF TurnInv, Excuses
  <2>2. excuse' = excuse \/ excuse' = excuse \cup {<<"collided", Buyer(t)>>}
    BY DEF ReadFile
  <2>. QED BY <2>1, <2>2 DEF ReadFile, TurnInv, GhostTypes
<1>8. Asked' /\ ScriptFollowed' /\ AgentsThere'
  <2>1. used[t] > 0
    BY <1>2 DEF TurnInv, ScriptFollowed
  <2>. QED BY <1>1, <1>2, <2>1, TurnMoves DEF ReadFile, own
<1>. QED BY <1>3, <1>4, <1>5, <1>6, <1>7, <1>8 DEF TurnInv

LEMMA OpenFileInv ==
    ASSUME TurnInv, NEW t \in Turns, OpenFile(t), UNCHANGED <<ask, storage>>
    PROVE  TurnInv'
<1>1. at[t] = "opening" /\ at' = [at EXCEPT ![t] = "filling"] /\ "filling" \in Steps
  BY DEF OpenFile, Step, Steps
<1>2. CallTypes'
  BY <1>1, QuietMoves DEF TurnInv, OpenFile
<1>3. prefs' \in [Buyers -> Seq(Preference)] /\ excuse' \subseteq Excuses
  <2>1. << >> \in Seq(Preference)
    OBVIOUS
  <2>. QED BY <2>1, OverwriteType DEF OpenFile
<1>4. StoreTypes' /\ GhostTypes'
  BY <1>3 DEF OpenFile, TurnInv, StoreTypes, GhostTypes, Bounded
<1>5. SharedTypes' /\ OwnTypes'
  BY SharedKept, OwnKept DEF TurnInv, OpenFile
<1>6. Asked' /\ ScriptFollowed' /\ AgentsThere'
  <2>1. used[t] > 0
    BY <1>1 DEF TurnInv, ScriptFollowed, InTool
  <2>. QED BY <1>1, <2>1, TurnMoves DEF OpenFile, own, shared
<1>. QED BY <1>2, <1>4, <1>5, <1>6 DEF TurnInv

LEMMA FillFileInv ==
    ASSUME TurnInv, NEW t \in Turns, FillFile(t), UNCHANGED <<ask, storage>>
    PROVE  TurnInv'
<1>1. at[t] = "filling" /\ at' = [at EXCEPT ![t] = "asking"] /\ "asking" \in Steps /\ at[t] \in InTool
  BY DEF FillFile, Step, Steps, InTool
<1>2. CallTypes'
  BY <1>1, QuietMoves DEF TurnInv, FillFile
<1>3. prefs' \in [Buyers -> Seq(Preference)] /\ excuse' \subseteq Excuses
  <2>1. draft[t] \in Seq(Preference)
    BY DEF TurnInv, StoreTypes
  <2>. QED BY <2>1, OverwriteType DEF FillFile
<1>4. promised' \in [Buyers -> SUBSET Preference]
  BY <1>1, PromiseType DEF FillFile
<1>5. StoreTypes' /\ GhostTypes'
  BY <1>3, <1>4 DEF FillFile, TurnInv, StoreTypes, GhostTypes, Bounded
<1>6. SharedTypes'
  BY ObserveType DEF FillFile, TurnInv, SharedTypes
<1>7. OwnTypes'
  BY OwnKept DEF TurnInv, FillFile
<1>8. Asked' /\ ScriptFollowed' /\ AgentsThere'
  BY <1>1, TurnMoves DEF FillFile, own, InTool
<1>. QED BY <1>2, <1>5, <1>6, <1>7, <1>8 DEF TurnInv

LEMMA DispatchInv ==
    ASSUME TurnInv, NEW t \in Turns, Dispatch(t), UNCHANGED <<ask, storage>>
    PROVE  TurnInv'
<1>1. at[t] = "acting" /\ at' = [at EXCEPT ![t] = "asking"] /\ "asking" \in Steps
  BY DEF Dispatch, Step, Steps
<1>2. CallTypes'
  BY <1>1 DEF TurnInv, CallTypes, Dispatch, budgetVars
<1>3. StoreTypes' /\ SharedTypes' /\ OwnTypes' /\ GhostTypes'
  BY StoresKept, SharedKept, OwnKept, GhostsKept DEF TurnInv, Dispatch
<1>4. Asked' /\ ScriptFollowed' /\ AgentsThere'
  BY <1>1, TurnMoves DEF Dispatch, shared, own, InTool
<1>. QED BY <1>2, <1>3, <1>4 DEF TurnInv

LEMMA DispatchedInv ==
    ASSUME TurnInv, NEW t \in Turns, Dispatched(t), UNCHANGED <<ask, storage>>
    PROVE  TurnInv'
<1>1. at' = [at EXCEPT ![t] = "asking"] /\ "asking" \in Steps /\ sub' = [sub EXCEPT ![t] = FALSE]
  BY DEF Dispatched, Steps
<1>2. at[t] \in Holding \cup {"asking"}
  BY DEF Dispatched, Answered, Raises
<1>3. /\ free' \in [Processes -> Nat] /\ attempt' \in [Turns -> 0 .. MaxRetries]
      /\ upstream' \in [Turns -> Nat] /\ luck' \in Nat
      /\ spent' \in [Turns -> Nat] /\ dear' \in [Turns -> Nat]
  <2>1. CASE Answered(t)
    BY <2>1, AnsweredTypes
  <2>2. CASE Raises(t)
    BY <2>2, RaisesTypes
  <2>3. CASE Mishap /\ Cancelled(t) /\ UNCHANGED <<upstream, budgetVars>>
    <3>1. free' \in [Processes -> Nat] /\ attempt' \in [Turns -> 0 .. MaxRetries]
      BY <2>3, OverTypes DEF Cancelled, Over, GivesBack, TurnInv, CallTypes
    <3>. QED BY <2>3, <3>1 DEF Mishap, budgetVars, TurnInv, CallTypes
  <2>. QED BY <2>1, <2>2, <2>3 DEF Dispatched
<1>4. CallTypes'
  BY <1>1, <1>3 DEF TurnInv, CallTypes
<1>5. StoreTypes' /\ OwnTypes' /\ GhostTypes'
  BY StoresKept, OwnKept, GhostsKept DEF TurnInv, Dispatched
<1>6. SharedTypes'
  BY ObserveType DEF Dispatched, TurnInv, SharedTypes
<1>7. Asked' /\ ScriptFollowed' /\ AgentsThere'
  BY <1>1, <1>2, TurnMoves DEF Dispatched, own, InTool, Holding
<1>. QED BY <1>4, <1>5, <1>6, <1>7 DEF TurnInv

-----------------------------------------------------------------------------
(* The turn ends: its snapshot and its rows.                                 *)

LEMMA AgentContext ==
    ASSUME TurnInv, NEW t \in Turns, Open(t), at[t] # "restoring"
    PROVE  /\ agents[Process(t)][Session(t)] \in Turns
           /\ context[agents[Process(t)][Session(t)]] \in Seq(Item)
BY DEF TurnInv, AgentsThere, AgentThere, SharedTypes

LEMMA DumpInv ==
    ASSUME TurnInv, NEW t \in Turns, Dump(t), UNCHANGED <<ask, storage>>
    PROVE  TurnInv'
<1>. DEFINE a == agents[Process(t)][Session(t)]
<1>1. at[t] = "persisting" /\ at' = [at EXCEPT ![t] = "merging"] /\ "merging" \in Steps
  BY DEF Dump, Step, Steps
<1>2. a \in Turns /\ context[a] \in Seq(Item)
  BY <1>1, AgentContext DEF TurnInv, Open
<1>3. CallTypes'
  BY <1>1, QuietMoves DEF TurnInv, Dump
<1>4. StoreTypes'
  <2>1. dump' = [dump EXCEPT ![t] = [of |-> a, state |-> context[a]]]
    BY DEF Dump
  <2>. HIDE DEF a
  <2>2. dump' \in [Turns -> [of : Turns \cup {NoTurn}, state : Seq(Item)]]
    BY <1>2, <2>1 DEF TurnInv, StoreTypes
  <2>. QED BY <2>2 DEF TurnInv, StoreTypes, Dump, prefVars, Bounded
<1>5. SharedTypes' /\ OwnTypes' /\ GhostTypes'
  BY SharedKept, OwnKept, GhostsKept DEF TurnInv, Dump
<1>6. Asked' /\ ScriptFollowed' /\ AgentsThere'
  BY <1>1, TurnMoves DEF Dump, own, shared, InTool
<1>. QED BY <1>3, <1>4, <1>5, <1>6 DEF TurnInv

\* What is dumped, and what the agent knows of when that is saved.
LEMMA DumpType ==
    ASSUME TurnInv, NEW t \in Turns
    PROVE  /\ dump[t].state \in Seq(Item)
           /\ [dump EXCEPT ![t] = NoDump] \in [Turns -> [of : Turns \cup {NoTurn}, state : Seq(Item)]]
           /\ [based EXCEPT ![dump[t].of] = dump[t].state] \in [Turns -> Seq(Item)]
<1>1. dump[t].state \in Seq(Item)
  BY DEF TurnInv, StoreTypes
<1>2. NoDump \in [of : Turns \cup {NoTurn}, state : Seq(Item)]
  BY DEF NoDump
<1>3. based \in [Turns -> Seq(Item)]
  BY DEF TurnInv, GhostTypes
<1>. QED BY <1>1, <1>2, <1>3 DEF TurnInv, StoreTypes

LEMMA MergeInv ==
    ASSUME TurnInv, NEW t \in Turns, NEW o \in Outcomes, Merge(t, o), UNCHANGED <<ask, storage>>
    PROVE  TurnInv'
<1>1. at[t] = "merging" /\ \E x \in {"question", "updating", "inserting"} : at' = [at EXCEPT ![t] = x]
  BY DEF Merge, Step
<1>2. PICK x \in {"question", "updating", "inserting"} : at' = [at EXCEPT ![t] = x]
  BY <1>1
<1>3. x \in Steps
  BY DEF Steps
<1>4. CallTypes'
  BY <1>2, <1>3, CallMoves DEF TurnInv, Merge
<1>5. StoreTypes'
  <2>1. dump' = dump \/ dump' = [dump EXCEPT ![t] = NoDump]
    BY DEF Merge, Finish
  <2>. DEFINE Dumps == [Turns -> [of : Turns \cup {NoTurn}, state : Seq(Item)]]
  <2>2. dump \in Dumps /\ [dump EXCEPT ![t] = NoDump] \in Dumps
    BY DumpType DEF TurnInv, StoreTypes
  <2>. HIDE DEF Dumps
  <2>3. dump' \in Dumps
    BY <2>1, <2>2
  <2>. USE DEF Dumps
  <2>4. UNCHANGED <<prefVars, bucket, saved, kept, rows>>
    BY DEF Merge
  <2>. QED BY <2>3, <2>4 DEF TurnInv, StoreTypes, prefVars, Bounded
<1>6. SharedTypes' /\ OwnTypes'
  BY SharedKept, OwnKept DEF TurnInv, Merge
<1>7. GhostTypes'
  <2>1. based' = based \/ based' = [based EXCEPT ![dump[t].of] = dump[t].state]
    BY DEF Merge, Known
  <2>2. based' \in [Turns -> Seq(Item)]
    BY <2>1, DumpType DEF TurnInv, GhostTypes
  <2>3. <<"unsaved", t>> \in Excuses /\ excuse' \subseteq excuse \cup {<<"unsaved", t>>}
    BY DEF Excuses, Merge, Excused
  <2>. QED BY <2>2, <2>3 DEF TurnInv, GhostTypes, Merge
<1>8. Asked' /\ ScriptFollowed' /\ AgentsThere'
  BY <1>1, <1>2, <1>3, TurnMoves DEF Merge, own, shared, InTool
<1>. QED BY <1>4, <1>5, <1>6, <1>7, <1>8 DEF TurnInv

LEMMA PersistInv ==
    ASSUME TurnInv, NEW t \in Turns, NEW o \in Outcomes, Persist(t, o), UNCHANGED <<ask, storage>>
    PROVE  TurnInv'
<1>. DEFINE s == Session(t)
<1>1. at[t] \in {"inserting", "updating"} /\ at' = [at EXCEPT ![t] = "question"] /\ "question" \in Steps
  BY DEF Persist, Steps
<1>2. s \in Sessions
  BY IntentOf DEF TurnInv
<1>3. CallTypes'
  BY <1>1, CallMoves DEF TurnInv, Persist
<1>4. StoreTypes'
  <2>1. saved' = saved \/ saved' = [saved EXCEPT ![s] = dump[t].state]
    BY DEF Persist, SaveSnapshot
  <2>2. kept' \subseteq kept \cup {s} /\ dump' = [dump EXCEPT ![t] = NoDump]
    BY DEF Persist, Finish
  <2>. HIDE DEF s
  <2>3. saved' \in [Sessions -> Seq(Item)]
    BY <1>2, <2>1, DumpType DEF TurnInv, StoreTypes
  <2>4. kept' \subseteq Sessions /\ dump' \in [Turns -> [of : Turns \cup {NoTurn}, state : Seq(Item)]]
    BY <1>2, <2>2, DumpType DEF TurnInv, StoreTypes
  <2>. QED BY <2>3, <2>4 DEF TurnInv, StoreTypes, Persist, prefVars, Bounded
<1>5. SharedTypes' /\ OwnTypes'
  BY SharedKept, OwnKept DEF TurnInv, Persist
<1>6. GhostTypes'
  <2>1. based' = based \/ based' = [based EXCEPT ![dump[t].of] = dump[t].state]
    BY DEF Persist, Known
  <2>2. based' \in [Turns -> Seq(Item)]
    BY <2>1, DumpType DEF TurnInv, GhostTypes
  <2>3. <<"unsaved", t>> \in Excuses /\ <<"stale", s>> \in Excuses /\ <<"overtaken", s>> \in Excuses
    BY <1>2 DEF Excuses
  <2>4. excuse' \subseteq excuse \cup {<<"unsaved", t>>, <<"stale", s>>, <<"overtaken", s>>}
    BY DEF Persist, Lost, Excused
  <2>. HIDE DEF s
  <2>. QED BY <2>2, <2>3, <2>4 DEF TurnInv, GhostTypes, Persist
<1>7. Asked' /\ ScriptFollowed' /\ AgentsThere'
  BY <1>1, TurnMoves DEF Persist, own, shared, InTool
<1>. QED BY <1>3, <1>4, <1>5, <1>6, <1>7 DEF TurnInv

LEMMA OpenSnapshotInv ==
    ASSUME TurnInv, NEW t \in Turns, OpenSnapshot(t), UNCHANGED <<ask, storage>>
    PROVE  TurnInv'
<1>. DEFINE s == Session(t)
<1>1. at[t] = "persisting" /\ at' = [at EXCEPT ![t] = "saving"] /\ "saving" \in Steps
  BY DEF OpenSnapshot, Step, Steps
<1>2. s \in Sessions
  BY IntentOf DEF TurnInv
<1>3. CallTypes'
  BY <1>1, QuietMoves DEF TurnInv, OpenSnapshot
<1>4. StoreTypes'
  <2>1. saved' = [saved EXCEPT ![s] = << >>]
    BY DEF OpenSnapshot, SaveSnapshot
  <2>2. saved' \in [Sessions -> Seq(Item)]
    <3>. HIDE DEF s
    <3>. QED BY <1>2, <2>1 DEF TurnInv, StoreTypes
  <2>. QED BY <2>2 DEF TurnInv, StoreTypes, OpenSnapshot, prefVars, Bounded
<1>5. SharedTypes' /\ OwnTypes'
  BY SharedKept, OwnKept DEF TurnInv, OpenSnapshot
<1>6. GhostTypes'
  <2>1. <<"stale", s>> \in Excuses
    BY <1>2 DEF Excuses
  <2>2. excuse' \subseteq excuse \cup {<<"stale", s>>}
    BY DEF OpenSnapshot
  <2>. QED BY <2>1, <2>2 DEF TurnInv, GhostTypes, OpenSnapshot
<1>7. Asked' /\ ScriptFollowed' /\ AgentsThere'
  BY <1>1, TurnMoves DEF OpenSnapshot, own, shared, InTool
<1>. QED BY <1>3, <1>4, <1>5, <1>6, <1>7 DEF TurnInv

LEMMA FillSnapshotInv ==
    ASSUME TurnInv, NEW t \in Turns, FillSnapshot(t), UNCHANGED <<ask, storage>>
    PROVE  TurnInv'
<1>. DEFINE a == agents[Process(t)][Session(t)]
            s == Session(t)
<1>1. at[t] = "saving" /\ at' = [at EXCEPT ![t] = "question"] /\ "question" \in Steps
  BY DEF FillSnapshot, Step, Steps
<1>2. a \in Turns /\ context[a] \in Seq(Item) /\ s \in Sessions
  BY <1>1, AgentContext, IntentOf DEF TurnInv, Open
<1>3. CallTypes'
  BY <1>1, QuietMoves DEF TurnInv, FillSnapshot
<1>4. StoreTypes'
  <2>1. saved' = [saved EXCEPT ![s] = context[a]]
    BY DEF FillSnapshot, SaveSnapshot
  <2>2. saved' \in [Sessions -> Seq(Item)]
    <3>. HIDE DEF a, s
    <3>. QED BY <1>2, <2>1 DEF TurnInv, StoreTypes
  <2>. QED BY <2>2 DEF TurnInv, StoreTypes, FillSnapshot, prefVars, Bounded
<1>5. SharedTypes' /\ OwnTypes'
  BY SharedKept, OwnKept DEF TurnInv, FillSnapshot
<1>6. GhostTypes'
  <2>1. based' = [based EXCEPT ![a] = context[a]]
    BY DEF FillSnapshot
  <2>2. <<"stale", s>> \in Excuses
    BY <1>2 DEF Excuses
  <2>3. excuse' \subseteq excuse \cup {<<"stale", s>>}
    BY DEF FillSnapshot
  <2>. HIDE DEF a, s
  <2>4. based' \in [Turns -> Seq(Item)]
    BY <1>2, <2>1 DEF TurnInv, GhostTypes
  <2>. QED BY <2>2, <2>3, <2>4 DEF TurnInv, GhostTypes, FillSnapshot
<1>7. Asked' /\ ScriptFollowed' /\ AgentsThere'
  BY <1>1, TurnMoves DEF FillSnapshot, own, shared, InTool
<1>. QED BY <1>3, <1>4, <1>5, <1>6, <1>7 DEF TurnInv

(* A set of natural numbers with a bound, and zero with it, has a greatest element. *)
LEMMA GreatestOf ==
    ASSUME NEW S, S \subseteq Nat, S # {}, NEW n \in Nat, \A x \in S : x <= n
    PROVE  Max(S) \in S /\ \A x \in S : x <= Max(S)
<1>. DEFINE U == {m \in Nat : \A x \in S : x <= m}
<1>1. PICK m \in U : \A k \in U : m <= k
  <2>1. U \subseteq Nat /\ n \in U
    OBVIOUS
  <2>. HIDE DEF U
  <2>. QED BY <2>1, NatMin
<1>2. m \in S
  <2>1. SUFFICES ASSUME m \notin S PROVE FALSE
    OBVIOUS
  <2>2. \A x \in S : x < m
    BY <1>1, <2>1
  <2>3. m - 1 \in U
    <3>1. m \in Nat /\ \E x \in S : x \in Nat /\ x < m
      BY <1>1, <2>2
    <3>2. m - 1 \in Nat
      BY <3>1
    <3>3. ASSUME NEW x \in S PROVE x <= m - 1
      <4>1. x \in Nat /\ x < m
        BY <2>2
      <4>. QED BY <4>1, <3>1
    <3>. QED BY <3>2, <3>3
  <2>. QED BY <1>1, <2>3
<1>3. \E x \in S : \A y \in S : x >= y
  BY <1>1, <1>2
<1>. QED BY <1>3 DEF Max

LEMMA LastNumberType ==
    ASSUME TurnInv, NEW s \in Sessions
    PROVE  LastNumber(s) \in Nat /\ \A r \in rows[s] : r.no <= LastNumber(s)
<1>. DEFINE S == {0} \cup {r.no : r \in rows[s]}
<1>1. rows[s] \subseteq RowType /\ Bounded(rows[s])
  BY DEF TurnInv, StoreTypes
<1>2. PICK n \in Nat : \A r \in rows[s] : r.no <= n
  BY <1>1 DEF Bounded
<1>3. S \subseteq Nat /\ S # {} /\ \A x \in S : x <= n
  BY <1>1, <1>2 DEF RowType
<1>4. Max(S) \in S /\ \A x \in S : x <= Max(S)
  <2>. HIDE DEF S
  <2>. QED BY <1>3, GreatestOf
<1>5. LastNumber(s) = Max(S)
  BY DEF LastNumber
<1>6. \A r \in rows[s] : r.no \in S
  OBVIOUS
<1>. HIDE DEF S
<1>. QED BY <1>3, <1>4, <1>5, <1>6

LEMMA EndTypes ==
    ASSUME TurnInv, NEW t \in Turns, EndTurn(t)
    PROVE  /\ window' \in [Processes -> [Sessions -> Seq(ToolNames)]]
           /\ trace' \in [Processes -> [Sessions -> Traces]]
<1>1. window' \in [Processes -> [Sessions -> Seq(ToolNames)]]
  BY IntentOf DEF TurnInv, SharedTypes, EndTurn, Reset
<1>2. NoTrace \in Traces
  BY DEF NoTrace, Traces
<1>3. trace' \in [Processes -> [Sessions -> Traces]]
  BY <1>2, IntentOf DEF TurnInv, SharedTypes, EndTurn, SetTrace
<1>. QED BY <1>1, <1>3

(* A row is added, with a number and the name of a turn. *)
LEMMA RowsGrow ==
    ASSUME TurnInv, NEW s \in Sessions, NEW r \in RowType, rows' = [rows EXCEPT ![s] = @ \cup {r}]
    PROVE  rows' \in [Sessions -> SUBSET RowType] /\ \A x \in Sessions : Bounded(rows'[x])
<1>1. rows \in [Sessions -> SUBSET RowType] /\ \A x \in Sessions : Bounded(rows[x])
  BY DEF TurnInv, StoreTypes
<1>2. rows' \in [Sessions -> SUBSET RowType]
  BY <1>1
<1>3. Bounded(rows[s] \cup {r})
  <2>1. PICK n \in Nat : \A x \in rows[s] : x.no <= n
    BY <1>1 DEF Bounded
  <2>2. r.no \in Nat /\ \A x \in rows[s] : x.no \in Nat
    BY <1>1 DEF RowType
  <2>3. n + r.no \in Nat /\ \A x \in rows[s] \cup {r} : x.no <= n + r.no
    BY <2>1, <2>2
  <2>. QED BY <2>3 DEF Bounded
<1>4. \A x \in Sessions : rows'[x] = rows[x] \/ rows'[x] = rows[s] \cup {r}
  BY <1>1
<1>. QED BY <1>1, <1>2, <1>3, <1>4

LEMMA RowOf ==
    ASSUME NEW t \in Turns, NEW n \in Nat
    PROVE  Row(t, n) \in RowType
BY DEF Row, RowType

LEMMA ReadNumberInv ==
    ASSUME TurnInv, NEW t \in Turns, NEW o \in Outcomes, ReadNumber(t, o), UNCHANGED <<ask, storage>>
    PROVE  TurnInv'
<1>1. at[t] \in {"question", "reply"}
  BY DEF ReadNumber
<1>2. PICK x \in {"question row", "reply row", "end"} : at' = [at EXCEPT ![t] = x]
  BY DEF ReadNumber, EndTurn
<1>3. x \in Steps
  BY DEF Steps
<1>4. CallTypes'
  BY <1>2, <1>3, CallMoves DEF TurnInv, ReadNumber
<1>5. StoreTypes'
  BY StoresKept DEF TurnInv, ReadNumber
<1>6. SharedTypes'
  <2>1. EndTurn(t) \/ UNCHANGED <<window, trace>>
    BY DEF ReadNumber
  <2>. QED BY <2>1, EndTypes DEF TurnInv, SharedTypes, ReadNumber
<1>7. OwnTypes'
  <2>1. LastNumber(Session(t)) \in Nat
    BY IntentOf, LastNumberType DEF TurnInv
  <2>2. number' = number \/ number' = [number EXCEPT ![t] = LastNumber(Session(t))]
    BY DEF ReadNumber
  <2>. QED BY <2>1, <2>2 DEF TurnInv, OwnTypes, ReadNumber
<1>8. GhostTypes'
  <2>1. <<"crossed", Session(t)>> \in Excuses /\ <<"unrecorded", t>> \in Excuses
    BY IntentOf DEF TurnInv, Excuses
  <2>2. excuse' \subseteq excuse \cup {<<"crossed", Session(t)>>, <<"unrecorded", t>>}
    BY DEF ReadNumber, Excused
  <2>. QED BY <2>1, <2>2 DEF TurnInv, GhostTypes, ReadNumber
<1>9. Asked' /\ ScriptFollowed' /\ AgentsThere'
  BY <1>1, <1>2, <1>3, TurnMoves DEF ReadNumber, InTool
<1>. QED BY <1>4, <1>5, <1>6, <1>7, <1>8, <1>9 DEF TurnInv

LEMMA InsertRowInv ==
    ASSUME TurnInv, NEW t \in Turns, NEW o \in Outcomes, InsertRow(t, o), UNCHANGED <<ask, storage>>
    PROVE  TurnInv'
<1>1. at[t] \in {"question row", "reply row"}
  BY DEF InsertRow
<1>2. PICK x \in {"reply", "end"} : at' = [at EXCEPT ![t] = x]
  BY DEF InsertRow, EndTurn
<1>3. x \in Steps
  BY DEF Steps
<1>4. CallTypes'
  BY <1>2, <1>3, CallMoves DEF TurnInv, InsertRow
<1>5. StoreTypes'
  <2>1. Session(t) \in Sessions /\ Row(t, number[t] + 1) \in RowType
    BY IntentOf, RowOf DEF TurnInv, OwnTypes
  <2>2. rows' = rows \/ rows' = [rows EXCEPT ![Session(t)] = @ \cup {Row(t, number[t] + 1)}]
    BY DEF InsertRow
  <2>3. rows' \in [Sessions -> SUBSET RowType] /\ \A x1 \in Sessions : Bounded(rows'[x1])
    BY <2>1, <2>2, RowsGrow DEF TurnInv, StoreTypes
  <2>. QED BY <2>3 DEF TurnInv, StoreTypes, InsertRow, prefVars, Bounded
<1>6. SharedTypes'
  <2>1. EndTurn(t) \/ UNCHANGED <<window, trace>>
    BY DEF InsertRow
  <2>. QED BY <2>1, EndTypes DEF TurnInv, SharedTypes, InsertRow
<1>7. OwnTypes'
  BY DEF TurnInv, OwnTypes, InsertRow
<1>8. GhostTypes'
  <2>1. <<"unrecorded", t>> \in Excuses
    BY DEF Excuses
  <2>2. excuse' \subseteq excuse \cup {<<"unrecorded", t>>}
    BY DEF InsertRow, Excused
  <2>. QED BY <2>1, <2>2 DEF TurnInv, GhostTypes, InsertRow
<1>9. Asked' /\ ScriptFollowed' /\ AgentsThere'
  BY <1>1, <1>2, <1>3, TurnMoves DEF InsertRow, InTool
<1>. QED BY <1>4, <1>5, <1>6, <1>7, <1>8, <1>9 DEF TurnInv

LEMMA AppendLineInv ==
    ASSUME TurnInv, NEW t \in Turns, AppendLine(t), UNCHANGED <<ask, storage>>
    PROVE  TurnInv'
<1>1. at[t] \in {"question", "reply"}
  BY DEF AppendLine
<1>2. PICK x \in {"reply", "end"} : at' = [at EXCEPT ![t] = x]
  BY DEF AppendLine, EndTurn
<1>3. x \in Steps
  BY DEF Steps
<1>4. CallTypes'
  BY <1>2, <1>3, QuietMoves DEF TurnInv, AppendLine
<1>5. StoreTypes'
  <2>1. Session(t) \in Sessions /\ Row(t, LastNumber(Session(t)) + 1) \in RowType
    BY IntentOf, RowOf, LastNumberType DEF TurnInv
  <2>2. rows' = [rows EXCEPT ![Session(t)] = @ \cup {Row(t, LastNumber(Session(t)) + 1)}]
    BY DEF AppendLine
  <2>3. rows' \in [Sessions -> SUBSET RowType] /\ \A x1 \in Sessions : Bounded(rows'[x1])
    BY <2>1, <2>2, RowsGrow
  <2>. QED BY <2>3 DEF TurnInv, StoreTypes, AppendLine, prefVars, Bounded
<1>6. SharedTypes'
  <2>1. EndTurn(t) \/ UNCHANGED <<window, trace>>
    BY DEF AppendLine
  <2>. QED BY <2>1, EndTypes DEF TurnInv, SharedTypes, AppendLine
<1>7. OwnTypes' /\ GhostTypes'
  BY OwnKept, GhostsKept DEF TurnInv, AppendLine
<1>8. Asked' /\ ScriptFollowed' /\ AgentsThere'
  BY <1>1, <1>2, <1>3, TurnMoves DEF AppendLine, own, InTool
<1>. QED BY <1>4, <1>5, <1>6, <1>7, <1>8 DEF TurnInv

-----------------------------------------------------------------------------
(* A worker dies; all steps; the first state.                                *)

LEMMA CrashInv ==
    ASSUME TurnInv, NEW p \in Processes, Crash(p), UNCHANGED <<ask, storage>>
    PROVE  TurnInv'
<1>. DEFINE dead == {t \in Turns : Process(t) = p /\ Open(t)}
<1>1. at' = [t \in Turns |-> IF t \in dead THEN "down" ELSE at[t]]
  BY DEF Crash
<1>2. CallTypes'
  <2>1. at' \in [Turns -> Steps]
    BY <1>1 DEF TurnInv, CallTypes, Steps
  <2>2. free' \in [Processes -> Nat] /\ luck' \in Nat
    BY DEF Crash, Mishap, TurnInv, CallTypes
  <2>3. attempt' \in [Turns -> 0 .. MaxRetries]
    BY DEF Crash, TurnInv, CallTypes
  <2>4. sub' \in [Turns -> BOOLEAN]
    BY DEF Crash, TurnInv, CallTypes
  <2>. QED BY <2>1, <2>2, <2>3, <2>4 DEF Crash, budgetVars, TurnInv, CallTypes
<1>3. StoreTypes' /\ OwnTypes'
  BY StoresKept, OwnKept DEF TurnInv, Crash
<1>4. SharedTypes'
  <2>1. agents' \in [Processes -> [Sessions -> Turns \cup {NoTurn}]]
    BY DEF Crash, TurnInv, SharedTypes
  <2>2. injected' \in [Processes -> [Sessions -> Seq(Preference)]]
    BY DEF Crash, TurnInv, SharedTypes
  <2>3. window' \in [Processes -> [Sessions -> Seq(ToolNames)]]
    BY DEF Crash, TurnInv, SharedTypes
  <2>4. trace' \in [Processes -> [Sessions -> Traces]]
    <3>1. NoTrace \in Traces
      BY DEF NoTrace, Traces
    <3>. QED BY <3>1 DEF Crash, TurnInv, SharedTypes
  <2>. QED BY <2>1, <2>2, <2>3, <2>4 DEF Crash, TurnInv, SharedTypes
<1>5. GhostTypes'
  <2>1. \A t \in dead : <<"torn", Buyer(t)>> \in Excuses /\ <<"torn", Session(t)>> \in Excuses
    BY IntentOf DEF TurnInv, Excuses
  <2>2. excuse' \subseteq Excuses
    BY <2>1 DEF Crash, TurnInv, GhostTypes
  <2>. QED BY <2>2 DEF Crash, TurnInv, GhostTypes
<1>6. ScriptFollowed'
  BY <1>1 DEF Crash, own, ScriptFollowed, Script, InTool, TurnInv
<1>7. AgentsThere'
  <2>. SUFFICES ASSUME NEW d \in Turns, Open(d)', at'[d] # "restoring" PROVE AgentThere(d)'
    BY DEF AgentsThere
  <2>1. d \notin dead /\ at'[d] = at[d] /\ Open(d) /\ Process(d) # p
    BY <1>1 DEF Open
  <2>2. AgentThere(d) /\ Process(d) \in Processes
    BY <2>1, IntentOf DEF TurnInv, AgentsThere
  <2>3. agents'[Process(d)] = agents[Process(d)] /\ agent' = agent
    BY <2>1, <2>2 DEF Crash, own, TurnInv, SharedTypes
  <2>. QED BY <2>2, <2>3 DEF AgentThere, Process, Session
<1>. QED BY <1>2, <1>3, <1>4, <1>5, <1>6, <1>7, AskedKept DEF TurnInv

LEMMA TurnInit == Init => TurnInv
<1>. SUFFICES ASSUME Init PROVE TurnInv
  OBVIOUS
<1>1. PICK case \in Cases : /\ ask = case.calls /\ luck = case.luck
                            /\ prefs = case.prefs /\ storage = case.storage
  BY DEF Init
<1>2. /\ ask \in [Turns -> Intent] /\ prefs \in [Buyers -> Seq(Preference)]
      /\ luck \in Nat /\ storage \in {"sql", "file"}
  BY <1>1, TurnAssumption
<1>3. Asked
  BY <1>2 DEF Asked
<1>4. CallTypes
  BY <1>2 DEF Init, ModelInit, CallTypes, Steps
<1>5. StoreTypes
  <2>1. promised \in [Buyers -> SUBSET Preference]
    <3>1. \A b \in Buyers : Range(prefs[b]) \subseteq Preference
      BY <1>2, ElementOfSeq, LenProperties DEF Range
    <3>. QED BY <3>1 DEF Init
  <2>2. rows \in [Sessions -> SUBSET RowType] /\ \A s \in Sessions : rows[s] = {}
    BY DEF Init
  <2>3. \A s \in Sessions : Bounded(rows[s])
    <3>1. 0 \in Nat
      OBVIOUS
    <3>. QED BY <2>2, <3>1 DEF Bounded
  <2>4. DOMAIN bucket = {}
    BY DEF Init
  <2>5. NoDump \in [of : Turns \cup {NoTurn}, state : Seq(Item)]
    BY DEF NoDump
  <2>6. dump \in [Turns -> [of : Turns \cup {NoTurn}, state : Seq(Item)]] /\ kept \subseteq Sessions
    BY <2>5 DEF Init
  <2>. QED BY <1>2, <2>1, <2>2, <2>3, <2>4, <2>6 DEF Init, StoreTypes
<1>6. SharedTypes
  BY DEF Init, SharedTypes, NoTrace, Traces
<1>7. OwnTypes
  BY DEF Init, OwnTypes
<1>8. GhostTypes
  BY DEF Init, GhostTypes
<1>9. ScriptFollowed
  BY <1>3, IntentOf DEF Init, ScriptFollowed, InTool
<1>10. AgentsThere
  BY DEF Init, AgentsThere, Open
<1>. QED BY <1>3, <1>4, <1>5, <1>6, <1>7, <1>8, <1>9, <1>10 DEF TurnInv

\* Every step is of one turn or a crash.
Moves(t) ==
    \/ Start(t) \/ Check(t) \/ Dispatch(t) \/ AtOnce(t)
    \/ Asking(t) \/ Replied(t) \/ ReplyRaises(t) \/ Dispatched(t)
    \/ \E o \in Outcomes : Awaited(t, o)

LEMMA TurnNext == TurnInv /\ [Next]_vars => TurnInv'
<1>. SUFFICES ASSUME TurnInv, [Next]_vars PROVE TurnInv'
  OBVIOUS
<1>1. CASE UNCHANGED vars
  <2>1. Asked' /\ StoreTypes' /\ SharedTypes' /\ OwnTypes' /\ GhostTypes'
    BY <1>1, AskedKept, StoresKept, SharedKept, OwnKept, GhostsKept DEF vars, TurnInv
  <2>2. CallTypes'
    BY <1>1 DEF vars, modelVars, budgetVars, TurnInv, CallTypes
  <2>3. ScriptFollowed' /\ AgentsThere'
    BY <1>1 DEF vars, own, shared, TurnInv, ScriptFollowed, AgentsThere, AgentThere, Script, Open, Process, Session
  <2>. QED BY <2>1, <2>2, <2>3 DEF TurnInv
<1>2. CASE Next
  <2>1. UNCHANGED <<ask, storage>> /\ ((\E t \in Turns : Moves(t)) \/ \E p \in Processes : Crash(p))
    BY <1>2 DEF Next, Moves
  <2>2. ASSUME NEW t \in Turns, Moves(t) PROVE TurnInv'
    <3>1. CASE Start(t) \/ Check(t) \/ Dispatch(t)
      BY <3>1, <2>1, StartInv, CheckInv, DispatchInv
    <3>2. CASE AtOnce(t)
      BY <3>2, <2>1, ReadFileInv, OpenFileInv, FillFileInv, DumpInv, OpenSnapshotInv, FillSnapshotInv, AppendLineInv DEF AtOnce
    <3>3. CASE Asking(t) \/ Replied(t) \/ ReplyRaises(t) \/ Dispatched(t)
      BY <3>3, <2>1, AskingInv, RepliedInv, ReplyRaisesInv, DispatchedInv
    <3>4. ASSUME NEW o \in Outcomes, Awaited(t, o) PROVE TurnInv'
      <4>1. CASE Restore(t, o) \/ ReadScope(t, o) \/ Lookup(t, o) \/ BuildInputs(t, o) \/ Remembers(t, o)
        BY <4>1, <2>1, RestoreInv, ReadScopeInv, LookupInv, BuildInputsInv, RemembersInv
      <4>2. CASE LoadEntries(t, o) \/ StoreEntries(t, o) \/ Merge(t, o) \/ Persist(t, o) \/ ReadNumber(t, o) \/ InsertRow(t, o)
        BY <4>2, <2>1, LoadEntriesInv, StoreEntriesInv, MergeInv, PersistInv, ReadNumberInv, InsertRowInv
      <4>. QED BY <3>4, <4>1, <4>2 DEF Awaited
    <3>. QED BY <2>2, <3>1, <3>2, <3>3, <3>4 DEF Moves
  <2>. QED BY <2>1, <2>2, CrashInv
<1>. QED BY <1>1, <1>2

(* The types hold, a turn follows its script, and a turn under way finds its agent: what
   the theorems below rest on. *)
THEOREM TurnInvSafe == Spec => []TurnInv
BY TurnInit, TurnNext, PTL DEF Spec

-----------------------------------------------------------------------------
(* The snapshot is saved: where, and what it leaves alone.                   *)

Dumped == {"merging", "inserting", "updating"}
InSave == {"persisting", "saving"} \cup Dumped

Saves(t) ==
    \/ Dump(t) \/ OpenSnapshot(t) \/ FillSnapshot(t)
    \/ \E o \in Outcomes : Merge(t, o) \/ Persist(t, o)

LEMMA SavesKeeps ==
    ASSUME NEW t \in Turns, Saves(t)
    PROVE  /\ UNCHANGED <<modelVars, prefVars, bucket, rows, shared, own, under, hinted, judged>>
           /\ excuse \subseteq excuse' /\ at[t] \in InSave
           /\ \E x \in {"merging", "inserting", "updating", "saving", "question"} : at' = [at EXCEPT ![t] = x]
<1>1. CASE Dump(t)
  BY <1>1 DEF Dump, Step, ghosts, InSave
<1>2. CASE OpenSnapshot(t) \/ FillSnapshot(t)
  BY <1>2 DEF OpenSnapshot, FillSnapshot, Step, InSave
<1>3. ASSUME NEW o \in Outcomes, Merge(t, o)
      PROVE  /\ UNCHANGED <<modelVars, prefVars, bucket, rows, shared, own, under, hinted, judged>>
             /\ excuse \subseteq excuse' /\ at[t] \in InSave
             /\ \E x \in {"inserting", "updating", "question"} : at' = [at EXCEPT ![t] = x]
  <2>1. UNCHANGED <<modelVars, prefVars, bucket, rows, shared, own, under, hinted, judged>>
    BY <1>3 DEF Merge
  <2>2. excuse \subseteq excuse'
    BY <1>3 DEF Merge, Excused
  <2>3. at[t] = "merging" /\ \E x \in {"inserting", "updating", "question"} : at' = [at EXCEPT ![t] = x]
    BY <1>3 DEF Merge, Step
  <2>. QED BY <2>1, <2>2, <2>3 DEF InSave, Dumped
<1>4. ASSUME NEW o \in Outcomes, Persist(t, o)
      PROVE  /\ UNCHANGED <<modelVars, prefVars, bucket, rows, shared, own, under, hinted, judged>>
             /\ excuse \subseteq excuse' /\ at[t] \in InSave
             /\ at' = [at EXCEPT ![t] = "question"]
  <2>1. UNCHANGED <<modelVars, prefVars, bucket, rows, shared, own, under, hinted, judged>>
    BY <1>4 DEF Persist
  <2>2. excuse \subseteq excuse'
    BY <1>4 DEF Persist, Excused
  <2>3. at[t] \in {"inserting", "updating"} /\ at' = [at EXCEPT ![t] = "question"]
    BY <1>4 DEF Persist
  <2>. QED BY <2>1, <2>2, <2>3 DEF InSave, Dumped
<1>. QED BY <1>1, <1>2, <1>3, <1>4 DEF Saves

-----------------------------------------------------------------------------
(* The gateway: slots, requests and budget.                                  *)

\* Steps in which the turn calls no model, and those in which it has not its answer yet.
Aside(t) == Start(t) \/ Check(t) \/ AtOnce(t) \/ \E o \in Outcomes : Awaited(t, o)

(* They neither hold a slot nor take one. *)
LEMMA AsideQuiet ==
    ASSUME TurnInv, NEW t \in Turns, Aside(t)
    PROVE  /\ UNCHANGED modelVars
           /\ at[t] \in Steps \ (Holding \cup {"asking", "end", "down"})
           /\ \E x \in Steps \ Holding : at' = [at EXCEPT ![t] = x]
<1>1. CASE Start(t) \/ Check(t)
  BY <1>1 DEF Start, Check, Step, Steps, Holding
<1>2. CASE AtOnce(t)
  <2>1. CASE ReadFile(t) \/ OpenFile(t) \/ FillFile(t)
    BY <2>1 DEF ReadFile, OpenFile, FillFile, Step, Steps, Holding
  <2>2. CASE Dump(t) \/ OpenSnapshot(t) \/ FillSnapshot(t) \/ AppendLine(t)
    BY <2>2 DEF Dump, OpenSnapshot, FillSnapshot, AppendLine, EndTurn, Step, Steps, Holding
  <2>. QED BY <1>2, <2>1, <2>2 DEF AtOnce
<1>3. ASSUME NEW o \in Outcomes, Awaited(t, o)
      PROVE  /\ UNCHANGED modelVars
             /\ at[t] \in Steps \ (Holding \cup {"asking", "end", "down"})
             /\ \E x \in Steps \ Holding : at' = [at EXCEPT ![t] = x]
  <2>1. CASE Restore(t, o) \/ ReadScope(t, o) \/ Lookup(t, o) \/ BuildInputs(t, o)
    BY <2>1 DEF Restore, ReadScope, Lookup, BuildInputs, Step, Steps, Holding
  <2>2. CASE Remembers(t, o) \/ LoadEntries(t, o) \/ StoreEntries(t, o) \/ Merge(t, o) \/ Persist(t, o)
    BY <2>2 DEF Remembers, LoadEntries, StoreEntries, Merge, Persist, Step, Steps, Holding
  <2>3. CASE ReadNumber(t, o) \/ InsertRow(t, o)
    BY <2>3 DEF ReadNumber, InsertRow, EndTurn, Steps, Holding
  <2>. QED BY <1>3, <2>1, <2>2, <2>3 DEF Awaited
<1>. QED BY <1>1, <1>2, <1>3 DEF Aside

\* The end of a call of the model, whatever ends it.
CallOver(t) ==
    /\ at[t] \in Holding /\ attempt' = [attempt EXCEPT ![t] = 0]
    /\ free' = [free EXCEPT ![Process(t)] = @ + 1]
    /\ \E x \in Steps \ Holding : at' = [at EXCEPT ![t] = x]

\* A subagent runs into the timeout of its tool before it has a slot.
CutShort(t) ==
    /\ at[t] = "asking" /\ at' = at /\ UNCHANGED <<free, attempt, upstream, budgetVars>>

LEMMA EndsOver ==
    ASSUME TurnInv, NEW t \in Turns, Replied(t) \/ ReplyRaises(t) \/ Dispatched(t)
    PROVE  CallOver(t) \/ (Dispatched(t) /\ CutShort(t))
<1>1. CASE Replied(t)
  BY <1>1 DEF Replied, Answered, Over, GivesBack, CallOver, Steps, Holding
<1>2. CASE ReplyRaises(t)
  BY <1>2 DEF ReplyRaises, Raises, Over, GivesBack, CallOver, Steps, Holding
<1>3. CASE Dispatched(t)
  <2>1. at' = [at EXCEPT ![t] = "asking"] /\ "asking" \in Steps \ Holding
    BY <1>3 DEF Dispatched, Steps, Holding
  <2>2. CASE Answered(t) \/ Raises(t)
    BY <2>1, <2>2 DEF Answered, Raises, Over, GivesBack, CallOver
  <2>3. CASE at[t] \in Holding /\ Mishap /\ Cancelled(t) /\ UNCHANGED <<upstream, budgetVars>>
    BY <2>1, <2>3 DEF Cancelled, Over, GivesBack, CallOver
  <2>4. CASE at[t] = "asking" /\ Mishap /\ Cancelled(t) /\ UNCHANGED <<upstream, budgetVars>>
    <3>1. at' = at
      BY <2>1, <2>4 DEF TurnInv, CallTypes
    <3>. QED BY <1>3, <2>4, <3>1 DEF Cancelled, CutShort, Holding
  <2>. QED BY <1>3, <2>2, <2>3, <2>4 DEF Dispatched
<1>. QED BY <1>1, <1>2, <1>3

Holders(p) == {t \in Turns : Process(t) = p /\ at[t] \in Holding}

LEMMA SlotsSame ==
    ASSUME SlotsAccounted, UNCHANGED <<ask, free>>,
           \A t \in Turns : at'[t] \in Holding <=> at[t] \in Holding
    PROVE  SlotsAccounted'
<1>1. \A p \in Processes : Holders(p)' = Holders(p)
  BY DEF Holders, Process
<1>. QED BY <1>1 DEF SlotsAccounted, Holders

LEMMA SlotsMove ==
    ASSUME TurnInv, SlotsAccounted, UNCHANGED ask, NEW t \in Turns, NEW x \in Steps,
           at' = [at EXCEPT ![t] = x],
           \/ at[t] \notin Holding /\ x \in Holding /\ free' = [free EXCEPT ![Process(t)] = @ - 1]
           \/ at[t] \in Holding /\ x \notin Holding /\ free' = [free EXCEPT ![Process(t)] = @ + 1]
    PROVE  SlotsAccounted'
<1>1. SUFFICES ASSUME NEW p \in Processes PROVE free'[p] + Cardinality(Holders(p)') = Slots
  BY DEF SlotsAccounted, Holders
<1>2. free[p] + Cardinality(Holders(p)) = Slots
  BY DEF SlotsAccounted, Holders
<1>3. IsFiniteSet(Holders(p)) /\ Cardinality(Holders(p)) \in Nat
  BY TurnAssumption, FS_Subset, FS_CardinalityType DEF Holders
<1>4. free \in [Processes -> Nat] /\ at \in [Turns -> Steps] /\ Process(t) \in Processes
  BY IntentOf DEF TurnInv, CallTypes
<1>5. CASE Process(t) # p
  <2>1. Holders(p)' = Holders(p)
    BY <1>4, <1>5 DEF Holders, Process
  <2>. QED BY <1>2, <1>4, <1>5, <2>1
<1>6. CASE Process(t) = p /\ at[t] \notin Holding
  <2>1. Holders(p)' = Holders(p) \cup {t} /\ t \notin Holders(p)
    BY <1>4, <1>6 DEF Holders, Process
  <2>2. Cardinality(Holders(p)') = Cardinality(Holders(p)) + 1
    BY <1>3, <2>1, FS_AddElement
  <2>. QED BY <1>2, <1>3, <1>4, <1>6, <2>2
<1>7. CASE Process(t) = p /\ at[t] \in Holding
  <2>1. Holders(p)' = Holders(p) \ {t} /\ t \in Holders(p)
    BY <1>4, <1>7 DEF Holders, Process
  <2>2. Cardinality(Holders(p)') = Cardinality(Holders(p)) - 1
    BY <1>3, <2>1, FS_RemoveElement
  <2>. QED BY <1>2, <1>3, <1>4, <1>7, <2>2
<1>. QED BY <1>5, <1>6, <1>7

LEMMA SlotsCrash ==
    ASSUME TurnInv, SlotsAccounted, UNCHANGED ask, NEW p \in Processes, Crash(p)
    PROVE  SlotsAccounted'
<1>1. SUFFICES ASSUME NEW q \in Processes PROVE free'[q] + Cardinality(Holders(q)') = Slots
  BY DEF SlotsAccounted, Holders
<1>2. CASE q = p
  <2>1. Holders(q)' = {}
    BY <1>2 DEF Crash, Holders, Process, Open, Holding
  <2>2. free'[q] = Slots
    BY <1>2 DEF Crash, TurnInv, CallTypes
  <2>. QED BY <2>1, <2>2, FS_EmptySet
<1>3. CASE q # p
  <2>1. Holders(q)' = Holders(q)
    BY <1>3 DEF Crash, Holders, Process, Open, Holding
  <2>2. free'[q] = free[q]
    BY <1>3 DEF Crash, TurnInv, CallTypes
  <2>. QED BY <2>1, <2>2 DEF SlotsAccounted, Holders
<1>. QED BY <1>2, <1>3

LEMMA SlotsNext == TurnInv /\ SlotsAccounted /\ [Next]_vars => SlotsAccounted'
<1>. SUFFICES ASSUME TurnInv, SlotsAccounted, [Next]_vars PROVE SlotsAccounted'
  OBVIOUS
<1>1. CASE UNCHANGED vars
  BY <1>1, SlotsSame DEF vars, modelVars
<1>2. CASE Next
  <2>1. UNCHANGED ask
    BY <1>2 DEF Next
  <2>2. ASSUME NEW t \in Turns, Aside(t) \/ Dispatch(t) PROVE SlotsAccounted'
    <3>1. at[t] \in Steps \ Holding /\ UNCHANGED free /\ \E x \in Steps \ Holding : at' = [at EXCEPT ![t] = x]
      BY <2>2, AsideQuiet DEF modelVars, Dispatch, Step, Steps, Holding
    <3>. QED BY <2>1, <3>1, SlotsSame DEF TurnInv, CallTypes
  <2>3. ASSUME NEW t \in Turns, Asking(t) PROVE SlotsAccounted'
    <3>1. CASE Acquire(t)
      BY <3>1, <2>1, SlotsMove DEF Acquire, Holding, Steps
    <3>2. CASE Retry(t)
      BY <3>2, <2>1, SlotsSame DEF Retry, TurnInv, CallTypes, Holding
    <3>. QED BY <2>3, <3>1, <3>2 DEF Asking
  <2>4. ASSUME NEW t \in Turns, Replied(t) \/ ReplyRaises(t) \/ Dispatched(t) PROVE SlotsAccounted'
    <3>1. CASE CallOver(t)
      BY <3>1, <2>1, SlotsMove DEF CallOver
    <3>2. CASE CutShort(t)
      BY <3>2, <2>1, SlotsSame DEF CutShort
    <3>. QED BY <2>4, <3>1, <3>2, EndsOver
  <2>. QED BY <1>2, <2>1, <2>2, <2>3, <2>4, SlotsCrash DEF Next, Aside
<1>. QED BY <1>1, <1>2

LEMMA SlotsInit == Init => SlotsAccounted
<1>. SUFFICES ASSUME Init, NEW p \in Processes PROVE free[p] + Cardinality(Holders(p)) = Slots
  BY DEF SlotsAccounted, Holders
<1>1. Holders(p) = {}
  BY DEF Init, Holders, Holding
<1>2. free[p] = Slots
  BY DEF Init, ModelInit
<1>. QED BY <1>1, <1>2, FS_EmptySet

(* The types of all variables, for every instance. *)
THEOREM TurnTypesSafe == Spec => []TypeOK
<1>1. TurnInv /\ SlotsAccounted => TypeOK
  <2>. SUFFICES ASSUME TurnInv, SlotsAccounted PROVE TypeOK
    OBVIOUS
  <2>1. free \in [Processes -> 0 .. Slots]
    <3>1. \A p \in Processes : free[p] \in Nat /\ free[p] + Cardinality(Holders(p)) = Slots
      BY DEF TurnInv, CallTypes, SlotsAccounted, Holders
    <3>2. \A p \in Processes : Cardinality(Holders(p)) \in Nat
      BY TurnAssumption, FS_Subset, FS_CardinalityType DEF Holders
    <3>3. \A p \in Processes : free[p] \in 0 .. Slots
      BY <3>1, <3>2
    <3>. QED BY <3>3 DEF TurnInv, CallTypes
  <2>2. ModelTypeOK
    BY <2>1 DEF ModelTypeOK, TurnInv, CallTypes
  <2>3. \A c \in Seq(Item) : IsContext(c)
    <3>. SUFFICES ASSUME NEW c \in Seq(Item), NEW i \in DOMAIN c
                  PROVE  c[i] \in Said \/ (c[i][1] = "hint" /\ c[i][2] \in Seq(Preference))
      BY DEF IsContext
    <3>1. c[i] \in Item
      BY ElementOfSeq, LenProperties
    <3>. QED BY <3>1 DEF Item
  <2>4. \A s \in Sessions : IsContext(saved[s]) /\ rows[s] \subseteq RowType
    BY <2>3 DEF TurnInv, StoreTypes
  <2>5. \A t \in Turns : IsContext(context[t]) /\ IsContext(based[t])
    BY <2>3 DEF TurnInv, SharedTypes, GhostTypes
  <2>6. \A t \in Turns : dump[t].of \in Turns \cup {NoTurn} /\ IsContext(dump[t].state)
    BY <2>3 DEF TurnInv, StoreTypes
  <2>. QED BY <2>2, <2>4, <2>5, <2>6 DEF TypeOK, TurnInv, Asked, CallTypes, StoreTypes, SharedTypes, OwnTypes,
                                   GhostTypes, Traces, ToolNames, RowType, Excuses
<1>. QED BY <1>1, TurnInit, TurnNext, SlotsInit, SlotsNext, PTL DEF Spec

-----------------------------------------------------------------------------
(* The budget: what went to the main model went there while half was left.   *)

BudgetInv ==
    \A t \in Turns : /\ dear[t] <= spent[t]
                     /\ HasFallback /\ Budget(t) > 0 => 2 * dear[t] < Budget(t) + 2 * CallCost

LEMMA ChargeKeeps ==
    ASSUME TurnInv, BudgetInv, UNCHANGED ask, NEW t \in Turns, Charge(t)
    PROVE  BudgetInv'
<1>1. /\ spent \in [Turns -> Nat] /\ dear \in [Turns -> Nat] /\ \A d \in Turns : Budget(d) \in Nat
      /\ \A d \in Turns : Budget(d)' = Budget(d)
  BY IntentOf DEF TurnInv, CallTypes, Budget
<1>2. CASE Budget(t) = 0
  BY <1>1, <1>2 DEF Charge, budgetVars, BudgetInv
<1>3. CASE Budget(t) # 0
  <2>1. spent' = [spent EXCEPT ![t] = @ + CallCost]
    BY <1>3 DEF Charge, Charged
  <2>2. CASE OnMain(t)
    <3>1. dear' = [dear EXCEPT ![t] = @ + CallCost]
      BY <1>3, <2>2 DEF Charge
    <3>2. HasFallback => 2 * (Budget(t) - spent[t]) > Budget(t)
      BY <1>3, <2>2 DEF OnMain, Ample
    <3>3. HasFallback => 2 * (dear[t] + CallCost) < Budget(t) + 2 * CallCost
      <4>. DEFINE b == Budget(t)
                  s == spent[t]
                  d == dear[t]
      <4>1. b \in Nat /\ s \in Nat /\ d \in Nat /\ d <= s /\ (HasFallback => 2 * (b - s) > b)
        BY <1>1, <3>2 DEF BudgetInv
      <4>. HIDE DEF b, s, d
      <4>2. HasFallback => 2 * (d + CallCost) < b + 2 * CallCost
        BY <4>1
      <4>. QED BY <4>2 DEF b, s, d
    <3>4. dear[t] + CallCost <= spent[t] + CallCost
      BY <1>1 DEF BudgetInv
    <3>. QED BY <1>1, <2>1, <3>1, <3>3, <3>4 DEF BudgetInv
  <2>3. CASE ~OnMain(t)
    <3>1. dear' = dear
      <4>1. dear' = [dear EXCEPT ![t] = @ + 0]
        BY <1>3, <2>3 DEF Charge
      <4>. QED BY <1>1, <4>1
    <3>2. dear[t] <= spent[t] + CallCost
      BY <1>1 DEF BudgetInv
    <3>. QED BY <1>1, <2>1, <3>1, <3>2 DEF BudgetInv
  <2>. QED BY <2>2, <2>3
<1>. QED BY <1>2, <1>3

LEMMA BudgetNext == TurnInv /\ BudgetInv /\ [Next]_vars => BudgetInv'
<1>. SUFFICES ASSUME TurnInv, BudgetInv, [Next]_vars PROVE BudgetInv'
  OBVIOUS
<1>1. UNCHANGED <<ask, budgetVars>> \/ (UNCHANGED ask /\ \E t \in Turns : Charge(t))
  <2>1. CASE UNCHANGED vars
    BY <2>1 DEF vars, modelVars
  <2>2. CASE Next
    <3>1. UNCHANGED ask
      BY <2>2 DEF Next
    <3>2. ASSUME NEW t \in Turns, Aside(t) PROVE UNCHANGED budgetVars
      BY <3>2, AsideQuiet DEF modelVars
    <3>3. ASSUME NEW t \in Turns, Dispatch(t) \/ Asking(t) PROVE UNCHANGED budgetVars
      BY <3>3 DEF Dispatch, Asking, Acquire, Retry
    <3>4. ASSUME NEW t \in Turns, Replied(t) \/ ReplyRaises(t) \/ Dispatched(t)
          PROVE  UNCHANGED budgetVars \/ Charge(t)
      BY <3>4 DEF Replied, ReplyRaises, Dispatched, Answered, Raises
    <3>5. ASSUME NEW p \in Processes, Crash(p) PROVE UNCHANGED budgetVars
      BY <3>5 DEF Crash
    <3>. QED BY <2>2, <3>1, <3>2, <3>3, <3>4, <3>5 DEF Next, Aside
  <2>. QED BY <2>1, <2>2
<1>2. CASE UNCHANGED <<ask, budgetVars>>
  BY <1>2 DEF BudgetInv, Budget, budgetVars
<1>. QED BY <1>1, <1>2, ChargeKeeps

LEMMA BudgetInit == Init => BudgetInv
<1>. SUFFICES ASSUME Init, NEW t \in Turns
              PROVE  dear[t] <= spent[t] /\ (HasFallback /\ Budget(t) > 0 => 2 * dear[t] < Budget(t) + 2 * CallCost)
  BY DEF BudgetInv
<1>1. dear[t] = 0 /\ spent[t] = 0
  BY DEF Init, ModelInit
<1>2. Budget(t) \in Nat
  BY TurnInit, IntentOf DEF TurnInv
<1>. QED BY <1>1, <1>2

(* With one slot or more, that is the bound of the property. *)
LEMMA BudgetWithin == TurnInv /\ BudgetInv => BudgetRespected
<1>. SUFFICES ASSUME TurnInv, BudgetInv, HasFallback, NEW t \in Turns, Budget(t) > 0
              PROVE  2 * dear[t] < Budget(t) + 2 * Slots * CallCost
  BY DEF BudgetRespected
<1>1. dear[t] \in Nat /\ Budget(t) \in Nat /\ 2 * dear[t] < Budget(t) + 2 * CallCost
  BY IntentOf DEF TurnInv, CallTypes, BudgetInv
<1>2. \A s \in Nat \ {0}, c \in Nat : c <= s * c
  <2>. SUFFICES ASSUME NEW s \in Nat \ {0}, NEW c \in Nat PROVE c <= s * c
    OBVIOUS
  <2>1. s - 1 \in Nat /\ s * c = (s - 1) * c + c
    OBVIOUS
  <2>2. (s - 1) * c \in Nat
    BY <2>1
  <2>. QED BY <2>1, <2>2
<1>3. CallCost <= Slots * CallCost /\ Slots * CallCost \in Nat
  BY <1>2
<1>4. 2 * Slots * CallCost = 2 * (Slots * CallCost)
  OBVIOUS
<1>. QED BY <1>1, <1>3, <1>4

-----------------------------------------------------------------------------
(* The requests: a call sends one for every attempt and one to the other     *)
(* model; a turn makes a call for every tool it wants, for its reply, for    *)
(* every retry and for every subagent.                                       *)

PerCall == MaxRetries + 1 + (IF HasFallback THEN 1 ELSE 0)

\* The steps at which the answer to the last call of the turn itself is yet to come or used up.
Answering == {"idle", "restoring", "scoping", "looking", "building", "asking", "calling", "falling",
              "acting", "opening", "filling"}

Dispatching(t, n) == {i \in 1 .. n : Script(t)[i].tool = "dispatch"}

\* The dispatches of the turn that are over.
DoneDispatches(t) == {i \in Dispatching(t, used[t]) : i = used[t] => ~sub[t] /\ at[t] # "acting"}

\* The calls of the model that are over.
DoneCalls(t) == used[t] + tried[t] + Cardinality(DoneDispatches(t)) + (IF at[t] \in Answering THEN 0 ELSE 1)

\* The requests of the one under way.
SoFar(t) == attempt[t] + (IF at[t] = "falling" THEN 1 ELSE 0)

Counted(t) == upstream[t] <= DoneCalls(t) * PerCall + SoFar(t)

CallFollowed(t) ==
    /\ sub[t] => at[t] \in Holding \cup {"asking"} /\ used[t] > 0 /\ Wanted(t).tool = "dispatch"
    /\ at[t] \notin {"calling", "falling"} => attempt[t] = 0
    /\ at[t] = "falling" => HasFallback

RequestInv == \A t \in Turns : CallFollowed(t) /\ Counted(t)

LEMMA Times ==
    ASSUME NEW c \in Nat, NEW d \in Nat, NEW k \in Nat, c <= d
    PROVE  c * k <= d * k /\ c * k \in Nat /\ d * k \in Nat /\ (c + 1) * k = c * k + k
<1>1. d - c \in Nat /\ d * k = (d - c) * k + c * k
  OBVIOUS
<1>2. (d - c) * k \in Nat /\ c * k \in Nat
  BY <1>1
<1>. QED BY <1>1, <1>2

LEMMA DispatchesFinite ==
    ASSUME TurnInv, NEW t \in Turns, NEW S, S \subseteq Dispatching(t, Len(Script(t)))
    PROVE  IsFiniteSet(S) /\ Cardinality(S) \in Nat
           /\ Cardinality(S) <= Cardinality(Dispatching(t, Len(Script(t))))
           /\ Cardinality(Dispatching(t, Len(Script(t)))) \in Nat
<1>1. Len(Script(t)) \in Int
  BY IntentOf, LenProperties DEF TurnInv
<1>2. IsFiniteSet(Dispatching(t, Len(Script(t))))
  <2>1. IsFiniteSet(1 .. Len(Script(t)))
    BY <1>1, FS_Interval
  <2>2. Dispatching(t, Len(Script(t))) \in SUBSET (1 .. Len(Script(t)))
    BY DEF Dispatching
  <2>. QED BY <2>1, <2>2, FS_Subset
<1>3. IsFiniteSet(S)
  BY <1>2, FS_Subset
<1>. HIDE DEF Dispatching
<1>4. Cardinality(S) <= Cardinality(Dispatching(t, Len(Script(t))))
  BY <1>2, FS_Subset
<1>. QED BY <1>2, <1>3, <1>4, FS_CardinalityType

(* Once n tools were called, only dispatches among them can be over. *)
LEMMA DoneWithin ==
    ASSUME TurnInv, NEW t \in Turns
    PROVE  /\ DoneDispatches(t) \subseteq Dispatching(t, Len(Script(t)))
           /\ IsFiniteSet(DoneDispatches(t)) /\ Cardinality(DoneDispatches(t)) \in Nat
           /\ DoneCalls(t) \in Nat /\ SoFar(t) \in Nat /\ PerCall \in Nat
<1>1. used[t] \in Nat /\ used[t] <= Len(Script(t)) /\ Len(Script(t)) \in Nat /\ tried[t] \in Nat /\ attempt[t] \in Nat
  BY IntentOf, LenProperties DEF TurnInv, OwnTypes, ScriptFollowed, CallTypes
<1>2. DoneDispatches(t) \subseteq Dispatching(t, Len(Script(t)))
  BY <1>1 DEF DoneDispatches, Dispatching
<1>3. IsFiniteSet(DoneDispatches(t)) /\ Cardinality(DoneDispatches(t)) \in Nat
  BY <1>2, DispatchesFinite
<1>. QED BY <1>1, <1>2, <1>3 DEF DoneCalls, SoFar, PerCall

(* The bound of the property. *)
LEMMA RequestsWithin == TurnInv /\ RequestInv => RequestsBounded
<1>. SUFFICES ASSUME TurnInv, RequestInv, NEW t \in Turns
              PROVE  upstream[t] <= (Len(Script(t)) + 1 + TurnRetries
                                     + Cardinality(Dispatching(t, Len(Script(t))))) * PerCall
  <2>1. \A t \in Turns : {i \in DOMAIN ask[t].script : ask[t].script[i].tool = "dispatch"}
                            = Dispatching(t, Len(Script(t)))
    <3>. TAKE d \in Turns
    <3>1. DOMAIN Script(d) = 1 .. Len(Script(d))
      BY IntentOf, LenProperties DEF TurnInv
    <3>. QED BY <3>1 DEF Dispatching, Script
  <2>. QED BY <2>1 DEF RequestsBounded, Script, PerCall
<1>. DEFINE D == Cardinality(Dispatching(t, Len(Script(t))))
            calls == Len(Script(t)) + 1 + TurnRetries + D
            done == DoneCalls(t)
<1>1. /\ used[t] \in Nat /\ used[t] <= Len(Script(t)) /\ Len(Script(t)) \in Nat
      /\ tried[t] \in Nat /\ tried[t] <= TurnRetries
      /\ attempt[t] \in Nat /\ attempt[t] <= MaxRetries /\ upstream[t] \in Nat
  BY IntentOf, LenProperties DEF TurnInv, OwnTypes, ScriptFollowed, CallTypes
<1>2. Cardinality(DoneDispatches(t)) <= D /\ D \in Nat /\ Cardinality(DoneDispatches(t)) \in Nat
  BY DoneWithin, DispatchesFinite
<1>3. done \in Nat /\ calls \in Nat /\ PerCall \in Nat /\ SoFar(t) \in Nat
  BY <1>1, <1>2, DoneWithin
<1>4. upstream[t] <= done * PerCall + SoFar(t)
  BY DEF RequestInv, Counted
<1>5. CASE at[t] \in Holding
  <2>1. done + 1 <= calls
    BY <1>1, <1>2, <1>5 DEF DoneCalls, Answering, Holding
  <2>2. SoFar(t) <= PerCall
    BY <1>1, <1>5 DEF SoFar, PerCall, RequestInv, CallFollowed
  <2>3. (done + 1) * PerCall <= calls * PerCall /\ (done + 1) * PerCall = done * PerCall + PerCall
        /\ done * PerCall \in Nat /\ calls * PerCall \in Nat
    <3>. HIDE DEF done, calls
    <3>. QED BY <1>3, <2>1, Times
  <2>4. upstream[t] <= calls * PerCall
    <3>. DEFINE x == done * PerCall
                y == calls * PerCall
                z == (done + 1) * PerCall
    <3>1. z <= y /\ z = x + PerCall /\ x \in Nat /\ y \in Nat /\ upstream[t] <= x + SoFar(t)
      BY <1>4, <2>3
    <3>2. upstream[t] <= y
      <4>. HIDE DEF x, y, z
      <4>. QED BY <1>1, <1>3, <2>2, <3>1
    <3>. QED BY <3>2
  <2>. QED BY <2>4
<1>6. CASE at[t] \notin Holding
  <2>1. done <= calls
    BY <1>1, <1>2, <1>6 DEF DoneCalls
  <2>2. SoFar(t) = 0
    BY <1>6 DEF SoFar, RequestInv, CallFollowed, Holding
  <2>3. done * PerCall <= calls * PerCall /\ done * PerCall \in Nat /\ calls * PerCall \in Nat
    <3>. HIDE DEF done, calls
    <3>. QED BY <1>3, <2>1, Times
  <2>4. upstream[t] <= calls * PerCall
    <3>. HIDE DEF done, calls, D
    <3>. QED BY <1>1, <1>3, <1>4, <2>2, <2>3
  <2>. QED BY <2>4
<1>. QED BY <1>5, <1>6

LEMMA DoneNow == TurnInv => \A t \in Turns : DoneCalls(t) \in Nat /\ SoFar(t) \in Nat
BY DoneWithin

LEMMA DoneLater == (TurnInv => \A t \in Turns : DoneCalls(t) \in Nat /\ SoFar(t) \in Nat)'
BY DoneNow, PTL

(* A turn that does not move keeps its count. *)
LEMMA StillCounted ==
    ASSUME NEW d \in Turns, CallFollowed(d), Counted(d), UNCHANGED ask,
           at'[d] = at[d], used'[d] = used[d], tried'[d] = tried[d], sub'[d] = sub[d],
           attempt'[d] = attempt[d], upstream'[d] = upstream[d]
    PROVE  CallFollowed(d)' /\ Counted(d)'
<1>1. DoneDispatches(d)' = DoneDispatches(d) /\ Wanted(d)' = Wanted(d)
  BY DEF DoneDispatches, Dispatching, Script, Wanted
<1>2. DoneCalls(d)' = DoneCalls(d) /\ SoFar(d)' = SoFar(d)
  BY <1>1 DEF DoneCalls, SoFar
<1>. QED BY <1>1, <1>2 DEF CallFollowed, Counted

(* No request is sent, and nothing that was over is under way again. *)
LEMMA QuietCounted ==
    ASSUME TurnInv, TurnInv', NEW t \in Turns, Counted(t), upstream'[t] = upstream[t],
           SoFar(t)' >= SoFar(t), DoneCalls(t)' >= DoneCalls(t)
    PROVE  Counted(t)'
<1>. DEFINE x == DoneCalls(t) * PerCall
            y == DoneCalls(t)' * PerCall
<1>1. SoFar(t) \in Nat /\ SoFar(t)' \in Nat /\ DoneCalls(t) \in Nat /\ DoneCalls(t)' \in Nat /\ PerCall \in Nat
  BY DoneLater, DoneWithin
<1>2. x <= y /\ x \in Nat /\ y \in Nat
  BY <1>1, Times
<1>3. upstream[t] \in Nat /\ upstream[t] <= x + SoFar(t)
  BY DEF TurnInv, CallTypes, Counted
<1>4. upstream'[t] <= y + SoFar(t)'
  <2>. HIDE DEF x, y
  <2>. QED BY <1>1, <1>2, <1>3
<1>. QED BY <1>4 DEF Counted, PerCall

(* A request more of the call under way. *)
LEMMA SentCounted ==
    ASSUME TurnInv, TurnInv', NEW t \in Turns, Counted(t), upstream'[t] = upstream[t] + 1,
           SoFar(t)' = SoFar(t) + 1, DoneCalls(t)' = DoneCalls(t)
    PROVE  Counted(t)'
<1>. DEFINE x == DoneCalls(t) * PerCall
<1>1. SoFar(t) \in Nat /\ DoneCalls(t) \in Nat /\ PerCall \in Nat
  BY DoneWithin
<1>2. x \in Nat
  BY <1>1, Times
<1>3. upstream[t] \in Nat /\ upstream[t] <= x + SoFar(t)
  BY DEF TurnInv, CallTypes, Counted
<1>4. upstream'[t] <= x + SoFar(t)'
  <2>. HIDE DEF x
  <2>. QED BY <1>1, <1>2, <1>3
<1>. QED BY <1>4 DEF Counted, PerCall

(* The call is over. *)
LEMMA OverCounted ==
    ASSUME TurnInv, TurnInv', NEW t \in Turns, CallFollowed(t), Counted(t),
           upstream'[t] \in {upstream[t], upstream[t] + 1}, DoneCalls(t)' >= DoneCalls(t) + 1
    PROVE  Counted(t)'
<1>. DEFINE x == DoneCalls(t) * PerCall
            y == DoneCalls(t)' * PerCall
            z == (DoneCalls(t) + 1) * PerCall
<1>1. SoFar(t) \in Nat /\ SoFar(t)' \in Nat /\ DoneCalls(t) \in Nat /\ DoneCalls(t)' \in Nat /\ PerCall \in Nat
  BY DoneLater, DoneWithin
<1>2. z = x + PerCall /\ x \in Nat
  BY <1>1, Times
<1>3. z <= y /\ y \in Nat
  BY <1>1, Times
<1>4. upstream[t] \in Nat /\ upstream[t] <= x + SoFar(t)
  BY DEF TurnInv, CallTypes, Counted
<1>5. SoFar(t) + 1 <= PerCall
  BY DEF TurnInv, CallTypes, CallFollowed, SoFar, PerCall
<1>6. upstream'[t] <= y + SoFar(t)'
  <2>. HIDE DEF x, y, z
  <2>. QED BY <1>1, <1>2, <1>3, <1>4, <1>5
<1>. QED BY <1>6 DEF Counted, PerCall

(* No dispatch that is over is under way again. *)
LEMMA DispatchesKept ==
    ASSUME TurnInv, TurnInv', NEW t \in Turns, DoneDispatches(t) \subseteq DoneDispatches(t)'
    PROVE  /\ Cardinality(DoneDispatches(t)) \in Nat /\ Cardinality(DoneDispatches(t)') \in Nat
           /\ Cardinality(DoneDispatches(t)) <= Cardinality(DoneDispatches(t)')
<1>1. used'[t] \in Int
  BY DEF TurnInv, OwnTypes
<1>2. DoneDispatches(t)' \in SUBSET (1 .. used'[t])
  BY DEF DoneDispatches, Dispatching
<1>3. IsFiniteSet(DoneDispatches(t)')
  BY <1>1, <1>2, FS_Interval, FS_Subset
<1>. QED BY <1>3, FS_Subset, FS_CardinalityType

-----------------------------------------------------------------------------
(* Each step of a turn keeps its own count.                                  *)

\* Where a step that calls no model leads; Check, which records a tool call, apart.
LEMMA AsidePlace ==
    ASSUME TurnInv, NEW t \in Turns, Aside(t), ~Check(t)
    PROVE  /\ UNCHANGED <<used, tried>>
           /\ \E x \in Steps \ (Holding \cup {"acting"}) :
                  at' = [at EXCEPT ![t] = x] /\ (at[t] \notin Answering => x \notin Answering)
           /\ at[t] = "acting" => Wanted(t).tool # "dispatch"
<1>. DEFINE P == /\ UNCHANGED <<used, tried>>
                 /\ \E x \in Steps \ (Holding \cup {"acting"}) :
                        at' = [at EXCEPT ![t] = x] /\ (at[t] \notin Answering => x \notin Answering)
                 /\ at[t] = "acting" => Wanted(t).tool # "dispatch"
<1>1. CASE Start(t)
  BY <1>1 DEF Start, Step, Steps, Holding, Answering
<1>2. CASE AtOnce(t)
  <2>1. CASE ReadFile(t)
    BY <2>1 DEF ReadFile, Tooling, own, Steps, Holding, Answering
  <2>2. CASE OpenFile(t) \/ FillFile(t)
    BY <2>2 DEF OpenFile, FillFile, Step, own, Steps, Holding, Answering
  <2>3. CASE Dump(t) \/ OpenSnapshot(t) \/ FillSnapshot(t)
    <3>1. UNCHANGED <<used, tried>> /\ at[t] \in {"persisting", "saving"}
      BY <2>3 DEF Dump, OpenSnapshot, FillSnapshot, Step, own
    <3>2. PICK x \in {"merging", "saving", "question"} : at' = [at EXCEPT ![t] = x]
      BY <2>3 DEF Dump, OpenSnapshot, FillSnapshot, Step
    <3>. QED BY <3>1, <3>2 DEF Steps, Holding, Answering
  <2>4. CASE AppendLine(t)
    BY <2>4 DEF AppendLine, EndTurn, own, Steps, Holding, Answering
  <2>. QED BY <1>2, <2>1, <2>2, <2>3, <2>4 DEF AtOnce
<1>3. ASSUME NEW o \in Outcomes, Awaited(t, o) PROVE P
  <2>1. CASE Restore(t, o)
    <3>1. UNCHANGED <<used, tried>> /\ at[t] \in {"restoring"}
      BY <2>1 DEF Restore, Step
    <3>2. PICK x \in {"scoping"} : at' = [at EXCEPT ![t] = x]
      BY <2>1 DEF Restore, Step
    <3>3. x \in Steps \ (Holding \cup {"acting"}) /\ (at[t] \notin Answering => x \notin Answering) /\ at[t] # "acting"
      BY <3>1 DEF Steps, Holding, Answering
    <3>. QED BY <3>1, <3>2, <3>3
  <2>2. CASE ReadScope(t, o)
    <3>1. UNCHANGED <<used, tried>>
      BY <2>2 DEF ReadScope
    <3>2. \/ at[t] = "scoping" /\ \E x \in {"looking", "building"} : at' = [at EXCEPT ![t] = x]
          \/ at[t] = "rescoping" /\ \E x \in {"loading", "persisting"} : at' = [at EXCEPT ![t] = x]
      BY <2>2 DEF ReadScope, Step
    <3>. QED BY <3>1, <3>2 DEF Steps, Holding, Answering
  <2>3. CASE Lookup(t, o)
    <3>1. UNCHANGED <<used, tried>> /\ at[t] \in {"looking"}
      BY <2>3 DEF Lookup, Step
    <3>2. PICK x \in {"persisting", "building"} : at' = [at EXCEPT ![t] = x]
      BY <2>3 DEF Lookup, Step
    <3>3. x \in Steps \ (Holding \cup {"acting"}) /\ (at[t] \notin Answering => x \notin Answering) /\ at[t] # "acting"
      BY <3>1 DEF Steps, Holding, Answering
    <3>. QED BY <3>1, <3>2, <3>3
  <2>4. CASE BuildInputs(t, o)
    BY <2>4 DEF BuildInputs, Step, own, Steps, Holding, Answering
  <2>5. CASE Remembers(t, o)
    BY <2>5 DEF Remembers, Tooling, Step, own, Steps, Holding, Answering
  <2>6. CASE LoadEntries(t, o)
    <3>1. UNCHANGED <<used, tried>> /\ at[t] \in {"loading"}
      BY <2>6 DEF LoadEntries, Step
    <3>2. PICK x \in {"storing"} : at' = [at EXCEPT ![t] = x]
      BY <2>6 DEF LoadEntries, Step
    <3>3. x \in Steps \ (Holding \cup {"acting"}) /\ (at[t] \notin Answering => x \notin Answering) /\ at[t] # "acting"
      BY <3>1 DEF Steps, Holding, Answering
    <3>. QED BY <3>1, <3>2, <3>3
  <2>7. CASE StoreEntries(t, o)
    <3>1. UNCHANGED <<used, tried>> /\ at[t] \in {"storing"}
      BY <2>7 DEF StoreEntries, Step
    <3>2. PICK x \in {"persisting"} : at' = [at EXCEPT ![t] = x]
      BY <2>7 DEF StoreEntries, Step
    <3>3. x \in Steps \ (Holding \cup {"acting"}) /\ (at[t] \notin Answering => x \notin Answering) /\ at[t] # "acting"
      BY <3>1 DEF Steps, Holding, Answering
    <3>. QED BY <3>1, <3>2, <3>3
  <2>8. CASE Merge(t, o) \/ Persist(t, o)
    <3>1. UNCHANGED <<used, tried>> /\ at[t] \in {"merging", "inserting", "updating"}
      BY <2>8 DEF Merge, Persist, Step, own
    <3>2. PICK x \in {"question", "inserting", "updating"} : at' = [at EXCEPT ![t] = x]
      BY <2>8 DEF Merge, Persist, Step
    <3>3. x \in Steps \ (Holding \cup {"acting"}) /\ (at[t] \notin Answering => x \notin Answering) /\ at[t] # "acting"
      BY <3>1 DEF Steps, Holding, Answering
    <3>. QED BY <3>1, <3>2, <3>3
  <2>9. CASE ReadNumber(t, o)
    <3>1. UNCHANGED <<used, tried>> /\ at[t] \in {"question", "reply"}
      BY <2>9 DEF ReadNumber, EndTurn
    <3>2. PICK x \in {"question row", "reply row", "end"} : at' = [at EXCEPT ![t] = x]
      BY <2>9 DEF ReadNumber, EndTurn
    <3>3. x \in Steps \ (Holding \cup {"acting"}) /\ (at[t] \notin Answering => x \notin Answering) /\ at[t] # "acting"
      BY <3>1 DEF Steps, Holding, Answering
    <3>. QED BY <3>1, <3>2, <3>3
  <2>10. CASE InsertRow(t, o)
    <3>1. UNCHANGED <<used, tried>> /\ at[t] \in {"question row", "reply row"}
      BY <2>10 DEF InsertRow, EndTurn
    <3>2. PICK x \in {"reply", "end"} : at' = [at EXCEPT ![t] = x]
      BY <2>10 DEF InsertRow, EndTurn
    <3>3. x \in Steps \ (Holding \cup {"acting"}) /\ (at[t] \notin Answering => x \notin Answering) /\ at[t] # "acting"
      BY <3>1 DEF Steps, Holding, Answering
    <3>. QED BY <3>1, <3>2, <3>3
  <2>. QED BY <1>3, <2>1, <2>2, <2>3, <2>4, <2>5, <2>6, <2>7, <2>8, <2>9, <2>10 DEF Awaited
<1>. QED BY <1>1, <1>2, <1>3 DEF Aside

LEMMA AsideCounted ==
    ASSUME TurnInv, TurnInv', NEW t \in Turns, CallFollowed(t), Counted(t), UNCHANGED ask, Aside(t)
    PROVE  CallFollowed(t)' /\ Counted(t)'
<1>1. /\ upstream' = upstream /\ attempt' = attempt /\ sub' = sub
      /\ at[t] \notin Holding \cup {"asking"}
      /\ \E x \in Steps \ Holding : at' = [at EXCEPT ![t] = x]
  BY AsideQuiet DEF modelVars
<1>2. at'[t] \notin Holding /\ sub[t] = FALSE /\ attempt[t] = 0
  BY <1>1 DEF TurnInv, CallTypes, CallFollowed, Holding
<1>3. CallFollowed(t)'
  BY <1>1, <1>2 DEF CallFollowed, Holding
<1>4. SoFar(t)' = SoFar(t)
  BY <1>1, <1>2 DEF SoFar, Holding
<1>5. used[t] \in Nat /\ tried[t] \in Nat
  BY DEF TurnInv, OwnTypes
<1>6. CASE Check(t)
  <2>1. at[t] = "checking" /\ at'[t] = "acting" /\ used'[t] = used[t] + 1 /\ tried' = tried
    BY <1>6 DEF Check, Step, TurnInv, CallTypes, OwnTypes
  <2>2. DoneDispatches(t)' = DoneDispatches(t)
    BY <1>2, <1>5, <2>1 DEF DoneDispatches, Dispatching, Script
  <2>3. Cardinality(DoneDispatches(t)) \in Nat
    BY DoneWithin
  <2>4. DoneCalls(t)' = DoneCalls(t)
    BY <2>1, <2>2, <2>3, <1>5 DEF DoneCalls, Answering
  <2>5. SoFar(t) \in Nat /\ DoneCalls(t) \in Nat
    BY DoneWithin
  <2>6. Counted(t)'
    BY <1>1, <1>4, <2>4, <2>5, QuietCounted
  <2>. QED BY <1>3, <2>6
<1>7. CASE ~Check(t)
  <2>1. /\ used' = used /\ tried' = tried
        /\ \E x \in Steps \ (Holding \cup {"acting"}) :
               at' = [at EXCEPT ![t] = x] /\ (at[t] \notin Answering => x \notin Answering)
        /\ at[t] = "acting" => Wanted(t).tool # "dispatch"
    BY <1>7, AsidePlace
  <2>2. at'[t] # "acting" /\ (at[t] \notin Answering => at'[t] \notin Answering)
    BY <2>1 DEF TurnInv, CallTypes
  <2>3. DoneDispatches(t) \subseteq DoneDispatches(t)'
    BY <1>1, <1>2, <2>1, <2>2 DEF DoneDispatches, Dispatching, Script
  <2>4. /\ Cardinality(DoneDispatches(t)) \in Nat /\ Cardinality(DoneDispatches(t)') \in Nat
        /\ Cardinality(DoneDispatches(t)) <= Cardinality(DoneDispatches(t)')
    BY <2>3, DispatchesKept
  <2>5. DoneCalls(t)' >= DoneCalls(t)
    BY <2>1, <2>2, <2>4, <1>5 DEF DoneCalls
  <2>6. SoFar(t) \in Nat
    BY DoneWithin
  <2>7. Counted(t)'
    BY <1>1, <1>4, <2>5, <2>6, QuietCounted
  <2>. QED BY <1>3, <2>7
<1>. QED BY <1>6, <1>7

LEMMA DispatchCounted ==
    ASSUME TurnInv, TurnInv', NEW t \in Turns, CallFollowed(t), Counted(t), UNCHANGED ask, Dispatch(t)
    PROVE  CallFollowed(t)' /\ Counted(t)'
<1>1. /\ at[t] = "acting" /\ at'[t] = "asking" /\ sub'[t] = TRUE /\ used' = used /\ tried' = tried
      /\ upstream' = upstream /\ attempt' = attempt /\ Wanted(t).tool = "dispatch"
  BY DEF Dispatch, Step, own, TurnInv, CallTypes
<1>2. used[t] > 0 /\ attempt[t] = 0 /\ Wanted(t)' = Wanted(t)
  BY <1>1 DEF TurnInv, ScriptFollowed, InTool, CallFollowed, Wanted
<1>3. CallFollowed(t)'
  BY <1>1, <1>2 DEF CallFollowed, Holding
<1>4. DoneDispatches(t)' = DoneDispatches(t)
  BY <1>1 DEF DoneDispatches, Dispatching, Script
<1>5. DoneCalls(t)' = DoneCalls(t) /\ SoFar(t)' = SoFar(t)
  BY <1>1, <1>4 DEF DoneCalls, SoFar, Answering
<1>6. DoneCalls(t) \in Nat /\ SoFar(t) \in Nat
  BY DoneWithin
<1>7. Counted(t)'
  BY <1>1, <1>5, <1>6, QuietCounted
<1>. QED BY <1>3, <1>7

LEMMA AskingCounted ==
    ASSUME TurnInv, TurnInv', NEW t \in Turns, CallFollowed(t), Counted(t), UNCHANGED ask, Asking(t)
    PROVE  CallFollowed(t)' /\ Counted(t)'
<1>1. /\ at[t] \in {"asking", "calling"} /\ at'[t] \in {"calling", "falling"}
      /\ used' = used /\ tried' = tried /\ sub' = sub
  <2>1. UNCHANGED <<used, tried, sub>>
    BY DEF Asking, Acquire, Retry, own
  <2>2. at[t] \in {"asking", "calling"} /\ at'[t] \in {"calling", "falling"}
    BY DEF Asking, Acquire, Retry, TurnInv, CallTypes
  <2>. QED BY <2>1, <2>2
<1>2. CallFollowed(t)'
  <2>1. Wanted(t)' = Wanted(t)
    BY <1>1 DEF Wanted
  <2>2. at'[t] = "falling" => HasFallback
    BY <1>1 DEF Asking, Acquire, Retry, TurnInv, CallTypes
  <2>. QED BY <1>1, <2>1, <2>2 DEF CallFollowed, Holding
<1>3. DoneDispatches(t)' = DoneDispatches(t)
  BY <1>1 DEF DoneDispatches, Dispatching, Script
<1>4. DoneCalls(t)' = DoneCalls(t)
  BY <1>1, <1>3 DEF DoneCalls, Answering
<1>5. DoneCalls(t) \in Nat /\ SoFar(t) \in Nat
  BY DoneWithin
<1>6. CASE Acquire(t)
  <2>1. SoFar(t)' = SoFar(t) /\ upstream'[t] = upstream[t]
    BY <1>6 DEF Acquire, SoFar, TurnInv, CallTypes
  <2>. QED BY <1>2, <1>4, <1>5, <2>1, QuietCounted
<1>7. CASE Retry(t)
  <2>1. upstream'[t] = upstream[t] + 1
    BY <1>7 DEF Retry, Sent, TurnInv, CallTypes
  <2>2. SoFar(t)' = SoFar(t) + 1
    <3>1. at[t] = "calling" /\ attempt[t] \in Nat
      BY <1>7 DEF Retry, TurnInv, CallTypes
    <3>2. \/ at'[t] = "calling" /\ attempt'[t] = attempt[t] + 1
          \/ at'[t] = "falling" /\ attempt'[t] = attempt[t]
      BY <1>7, <3>1 DEF Retry, TurnInv, CallTypes
    <3>. QED BY <3>1, <3>2 DEF SoFar
  <2>. QED BY <1>2, <1>4, <2>1, <2>2, SentCounted
<1>. QED BY <1>6, <1>7 DEF Asking

(* The turn's own call ends. *)
LEMMA OwnCallCounted ==
    ASSUME TurnInv, TurnInv', NEW t \in Turns, CallFollowed(t), Counted(t), UNCHANGED ask,
           Replied(t) \/ ReplyRaises(t)
    PROVE  CallFollowed(t)' /\ Counted(t)'
<1>1. CallOver(t)
  BY EndsOver DEF CutShort, Dispatched, Replied, ReplyRaises
<1>2. /\ at[t] \in Holding /\ at'[t] \notin Holding /\ attempt'[t] = 0
      /\ used' = used /\ sub[t] = FALSE /\ sub' = sub
      /\ upstream'[t] \in {upstream[t], upstream[t] + 1}
      /\ \/ tried' = tried /\ at'[t] \in {"checking", "rescoping", "persisting"}
         \/ tried'[t] = tried[t] + 1 /\ at'[t] = "asking"
  <2>1. at[t] \in Holding /\ at'[t] \notin Holding /\ attempt'[t] = 0
    BY <1>1 DEF CallOver, TurnInv, CallTypes
  <2>2. UNCHANGED <<used, sub>> /\ sub[t] = FALSE
    BY DEF Replied, ReplyRaises, TurnInv, CallTypes
  <2>3. upstream'[t] \in {upstream[t], upstream[t] + 1}
    BY DEF Replied, ReplyRaises, Answered, Raises, Sent, TurnInv, CallTypes
  <2>4. \/ tried' = tried /\ at'[t] \in {"checking", "rescoping", "persisting"}
        \/ tried'[t] = tried[t] + 1 /\ at'[t] = "asking"
    <3>1. CASE Replied(t)
      BY <3>1 DEF Replied, TurnInv, CallTypes
    <3>2. CASE ReplyRaises(t)
      BY <3>2 DEF ReplyRaises, TurnInv, CallTypes, OwnTypes
    <3>. QED BY <3>1, <3>2
  <2>. QED BY <2>1, <2>2, <2>3, <2>4
<1>3. CallFollowed(t)'
  BY <1>2 DEF CallFollowed, Holding
<1>4. DoneDispatches(t)' = DoneDispatches(t)
  BY <1>2 DEF DoneDispatches, Dispatching, Script, Holding
<1>5. DoneCalls(t)' >= DoneCalls(t) + 1
  <2>1. used[t] \in Nat /\ tried[t] \in Nat /\ Cardinality(DoneDispatches(t)) \in Nat
    BY DoneWithin DEF TurnInv, OwnTypes
  <2>. QED BY <1>2, <1>4, <2>1 DEF DoneCalls, Answering, Holding
<1>. QED BY <1>2, <1>3, <1>5, OverCounted

(* The subagent's call ends, or is cut short. *)
LEMMA DispatchedCounted ==
    ASSUME TurnInv, TurnInv', NEW t \in Turns, CallFollowed(t), Counted(t), UNCHANGED ask, Dispatched(t)
    PROVE  CallFollowed(t)' /\ Counted(t)'
<1>1. /\ at[t] \in Holding \cup {"asking"} /\ at'[t] = "asking" /\ sub[t] = TRUE /\ sub'[t] = FALSE
      /\ used' = used /\ tried' = tried
  BY DEF Dispatched, own, Answered, Raises, TurnInv, CallTypes
<1>2. upstream'[t] \in {upstream[t], upstream[t] + 1}
  BY DEF Dispatched, Answered, Raises, Sent, TurnInv, CallTypes
<1>3. attempt'[t] = 0
  <2>1. CASE CallOver(t)
    BY <2>1 DEF CallOver, TurnInv, CallTypes
  <2>2. CASE CutShort(t)
    BY <2>2 DEF CutShort, CallFollowed
  <2>. QED BY <2>1, <2>2, EndsOver
<1>4. CallFollowed(t)'
  BY <1>1, <1>3 DEF CallFollowed
<1>5. used[t] > 0 /\ Wanted(t).tool = "dispatch" /\ used[t] \in Nat /\ tried[t] \in Nat
  BY <1>1 DEF CallFollowed, TurnInv, OwnTypes
<1>6. DoneDispatches(t)' = DoneDispatches(t) \cup {used[t]} /\ used[t] \notin DoneDispatches(t)
  BY <1>1, <1>5 DEF DoneDispatches, Dispatching, Script, Wanted
<1>7. Cardinality(DoneDispatches(t)') = Cardinality(DoneDispatches(t)) + 1
  BY <1>6, DoneWithin, FS_AddElement
<1>8. DoneCalls(t)' >= DoneCalls(t) + 1
  <2>1. Cardinality(DoneDispatches(t)) \in Nat
    BY DoneWithin
  <2>. QED BY <1>1, <1>5, <1>7, <2>1 DEF DoneCalls, Answering, Holding
<1>. QED BY <1>2, <1>4, <1>8, OverCounted

LEMMA CrashCounted ==
    ASSUME TurnInv, TurnInv', NEW t \in Turns, CallFollowed(t), Counted(t), UNCHANGED ask,
           NEW p \in Processes, Crash(p)
    PROVE  CallFollowed(t)' /\ Counted(t)'
<1>1. UNCHANGED <<upstream, used, tried>>
  BY DEF Crash, own
<1>2. CASE Process(t) = p /\ Open(t)
  <2>1. at'[t] = "down" /\ attempt'[t] = 0 /\ sub'[t] = FALSE
    BY <1>2 DEF Crash, TurnInv, CallTypes
  <2>2. CallFollowed(t)'
    BY <2>1 DEF CallFollowed
  <2>3. DoneDispatches(t) \subseteq DoneDispatches(t)'
    BY <1>1, <2>1 DEF DoneDispatches, Dispatching, Script
  <2>4. /\ Cardinality(DoneDispatches(t)) \in Nat /\ Cardinality(DoneDispatches(t)') \in Nat
        /\ Cardinality(DoneDispatches(t)) <= Cardinality(DoneDispatches(t)')
    BY <2>3, DispatchesKept
  <2>5. used[t] \in Nat /\ tried[t] \in Nat
    BY DEF TurnInv, OwnTypes
  <2>6. CASE at[t] \in Holding
    <3>1. DoneCalls(t)' >= DoneCalls(t) + 1
      BY <1>1, <2>1, <2>4, <2>5, <2>6 DEF DoneCalls, Answering, Holding
    <3>. QED BY <1>1, <2>2, <3>1, OverCounted
  <2>7. CASE at[t] \notin Holding
    <3>1. DoneCalls(t)' >= DoneCalls(t)
      BY <1>1, <2>1, <2>4, <2>5 DEF DoneCalls, Answering
    <3>2. SoFar(t)' = 0 /\ SoFar(t) = 0
      BY <2>1, <2>7 DEF SoFar, CallFollowed, Holding
    <3>. QED BY <1>1, <2>2, <3>1, <3>2, QuietCounted
  <2>. QED BY <2>6, <2>7
<1>3. CASE ~(Process(t) = p /\ Open(t))
  <2>1. at'[t] = at[t] /\ attempt'[t] = attempt[t] /\ sub'[t] = sub[t]
    BY <1>3 DEF Crash, TurnInv, CallTypes
  <2>. QED BY <1>1, <2>1, StillCounted
<1>. QED BY <1>2, <1>3

(* A step of one turn leaves the calls of the others alone. *)
LEMMA OthersCounted ==
    ASSUME TurnInv, NEW t \in Turns, Moves(t), NEW d \in Turns \ {t}
    PROVE  /\ at'[d] = at[d] /\ used'[d] = used[d] /\ tried'[d] = tried[d] /\ sub'[d] = sub[d]
           /\ attempt'[d] = attempt[d] /\ upstream'[d] = upstream[d]
<1>1. CASE Aside(t)
  <2>1. UNCHANGED modelVars /\ \E x \in Steps : at' = [at EXCEPT ![t] = x]
    BY <1>1, AsideQuiet
  <2>2. CASE Check(t)
    BY <2>1, <2>2 DEF Check, modelVars, TurnInv, CallTypes, OwnTypes
  <2>3. CASE ~Check(t)
    BY <1>1, <2>1, <2>3, AsidePlace DEF modelVars, TurnInv, CallTypes
  <2>. QED BY <2>2, <2>3
<1>2. CASE Dispatch(t)
  BY <1>2 DEF Dispatch, Step, own, TurnInv, CallTypes
<1>3. CASE Asking(t)
  BY <1>3 DEF Asking, Acquire, Retry, Sent, own, TurnInv, CallTypes
<1>4. CASE Replied(t)
  BY <1>4 DEF Replied, Answered, Sent, Over, TurnInv, CallTypes
<1>5. CASE ReplyRaises(t)
  BY <1>5 DEF ReplyRaises, Raises, Sent, Over, TurnInv, CallTypes, OwnTypes
<1>6. CASE Dispatched(t)
  BY <1>6 DEF Dispatched, Answered, Raises, Cancelled, Sent, Over, own, TurnInv, CallTypes
<1>. QED BY <1>1, <1>2, <1>3, <1>4, <1>5, <1>6 DEF Moves, Aside

LEMMA RequestNext == TurnInv /\ RequestInv /\ [Next]_vars => RequestInv'
<1>. SUFFICES ASSUME TurnInv, RequestInv, [Next]_vars, NEW d \in Turns PROVE CallFollowed(d)' /\ Counted(d)'
  BY DEF RequestInv
<1>1. TurnInv' /\ CallFollowed(d) /\ Counted(d)
  BY TurnNext DEF RequestInv
<1>2. CASE UNCHANGED vars
  BY <1>1, <1>2, StillCounted DEF vars, modelVars, own
<1>3. CASE Next
  <2>1. UNCHANGED ask /\ ((\E t \in Turns : Moves(t)) \/ \E p \in Processes : Crash(p))
    BY <1>3 DEF Next, Moves
  <2>2. ASSUME NEW t \in Turns, Moves(t), t # d PROVE CallFollowed(d)' /\ Counted(d)'
    BY <1>1, <2>1, <2>2, OthersCounted, StillCounted
  <2>3. ASSUME Moves(d) PROVE CallFollowed(d)' /\ Counted(d)'
    BY <1>1, <2>1, <2>3, AsideCounted, DispatchCounted, AskingCounted, OwnCallCounted, DispatchedCounted
       DEF Moves, Aside
  <2>. QED BY <1>1, <2>1, <2>2, <2>3, CrashCounted
<1>. QED BY <1>2, <1>3

LEMMA RequestInit == Init => RequestInv
<1>. SUFFICES ASSUME Init, NEW t \in Turns PROVE CallFollowed(t) /\ Counted(t)
  BY DEF RequestInv
<1>1. at[t] = "idle" /\ attempt[t] = 0 /\ upstream[t] = 0 /\ sub[t] = FALSE
  BY DEF Init, ModelInit
<1>2. DoneCalls(t) * PerCall \in Nat /\ SoFar(t) \in Nat
  BY TurnInit, DoneWithin, Times
<1>. QED BY <1>1, <1>2 DEF CallFollowed, Counted, Holding

(* Slots come back, requests are bounded and, with a model to fall back on, so is what the main
   model is charged, whatever the model, its time-outs and the crashes do.  What a turn spends
   in all is not bounded. *)
THEOREM GatewaySafe == Spec => []GatewayProtected
<1>1. TurnInv /\ SlotsAccounted /\ RequestInv /\ BudgetInv => GatewayProtected
  BY RequestsWithin, BudgetWithin DEF GatewayProtected
<1>. QED BY <1>1, TurnInit, TurnNext, SlotsInit, SlotsNext, RequestInit, RequestNext, BudgetInit, BudgetNext,
            PTL DEF Spec

-----------------------------------------------------------------------------
(* The cache: what is known of a turn at each step, and of each entry.       *)

Reasoned(u) == Excusable({"changed", "misread"}, u)

\* An entry of the bucket of the buyer b and the preferences list.
EntryOf(e, b, list) ==
    /\ e.query = ask[e.by].query /\ Buyer(e.by) = b /\ answer[e.by] = "reply" /\ Cacheable(e.by)
    /\ (under[e.by] = list \/ Reasoned(e.by))

Midway == {"asking", "calling", "falling", "checking", "acting", "opening", "filling", "rescoping"}
Remembering == {"loading", "storing"}
After == {"rescoping", "loading", "storing", "persisting", "merging", "inserting", "updating", "saving",
          "question", "question row", "reply", "reply row", "end", "down"}

Placed(t) == /\ answer[t] # "none" => at[t] \in After
             /\ at[t] \in Remembering \cup {"rescoping"} => answer[t] = "reply"
Fresh(t) == at[t] \in Remembering \cup {"looking"} => Cacheable(t)
Current(t) == at[t] \in Midway => under[t] = prefs[Buyer(t)] \/ Reasoned(t)
Scoped(t) == at[t] \in Remembering => under[t] = scope[t] \/ Reasoned(t)
Loaded(t) == at[t] = "storing" => \A i \in DOMAIN entries[t] : EntryOf(entries[t][i], Buyer(t), scope[t])
CachedOf(t) ==
    answer[t] = "cached" =>
        LET u == source[t] IN
        /\ u \in Turns /\ ~history[t] /\ ask[u].query = ask[t].query /\ Buyer(u) = Buyer(t)
        /\ answer[u] = "reply"
        /\ (scope[t] = under[u] \/ Reasoned(u))

Told(t) == Placed(t) /\ Fresh(t) /\ Current(t) /\ Scoped(t) /\ Loaded(t) /\ CachedOf(t)

BucketTrue ==
    \A k \in DOMAIN bucket :
        Len(bucket[k]) <= BucketLimit /\ \A i \in DOMAIN bucket[k] : EntryOf(bucket[k][i], k[1], k[2])

CacheInv == BucketTrue /\ \A t \in Turns : Told(t)

\* What a step leaves of a turn that has replied, and of the excuses.
RepliesKept ==
    /\ UNCHANGED ask /\ excuse \subseteq excuse'
    /\ \A u \in Turns : answer[u] = "reply" =>
           answer'[u] = "reply" /\ under'[u] = under[u] /\ history'[u] = history[u]

\* What it leaves of the turn d itself, apart from where it is.
OwnSame(d) == /\ answer'[d] = answer[d] /\ under'[d] = under[d] /\ history'[d] = history[d]
              /\ scope'[d] = scope[d] /\ source'[d] = source[d] /\ entries'[d] = entries[d]

\* Its preferences are what they were, or it has an excuse.
PrefsSame(d) == prefs'[Buyer(d)] = prefs[Buyer(d)] \/ (Open(d) => <<"changed", d>> \in excuse')

LEMMA ReasonStays ==
    ASSUME RepliesKept, NEW u, Reasoned(u)
    PROVE  Reasoned(u)'
BY DEF RepliesKept, Reasoned, Excusable

LEMMA EntryStays ==
    ASSUME RepliesKept, NEW e, e.by \in Turns, NEW b, NEW list, EntryOf(e, b, list)
    PROVE  EntryOf(e, b, list)'
<1>1. Reasoned(e.by) => Reasoned(e.by)'
  BY ReasonStays
<1>. QED BY <1>1 DEF RepliesKept, EntryOf, Cacheable, Buyer

LEMMA CachedStays ==
    ASSUME RepliesKept, NEW d \in Turns, CachedOf(d), OwnSame(d)
    PROVE  CachedOf(d)'
<1>. SUFFICES ASSUME answer'[d] = "cached" PROVE CachedOf(d)'
  BY DEF CachedOf
<1>. DEFINE u == source[d]
<1>1. \A x : Reasoned(x) => Reasoned(x)'
  BY ReasonStays
<1>2. u \in Turns /\ answer[u] = "reply" /\ source'[d] = u /\ scope'[d] = scope[d]
  BY DEF OwnSame, CachedOf
<1>3. answer'[u] = "reply" /\ under'[u] = under[u]
  BY <1>2 DEF RepliesKept
<1>. QED BY <1>1, <1>2, <1>3 DEF RepliesKept, OwnSame, CachedOf, Buyer

LEMMA EntriesBy ==
    ASSUME TurnInv
    PROVE  /\ \A t \in Turns : \A i \in DOMAIN entries[t] : entries[t][i] \in Entry
           /\ \A k \in DOMAIN bucket : \A i \in DOMAIN bucket[k] : bucket[k][i] \in Entry
BY ElementOfSeq, LenProperties DEF TurnInv, OwnTypes, StoreTypes

LEMMA BucketStays ==
    ASSUME TurnInv, BucketTrue, RepliesKept, UNCHANGED bucket
    PROVE  BucketTrue'
<1>1. \A k \in DOMAIN bucket : \A i \in DOMAIN bucket[k] :
          bucket[k][i].by \in Turns /\ EntryOf(bucket[k][i], k[1], k[2])
  BY EntriesBy DEF BucketTrue, Entry
<1>2. \A k \in DOMAIN bucket : \A i \in DOMAIN bucket[k] : EntryOf(bucket[k][i], k[1], k[2])'
  BY <1>1, EntryStays
<1>. QED BY <1>2 DEF BucketTrue

(* A turn stays where it is, or goes on among the steps where no more is known of it. *)
LEMMA ToldStays ==
    ASSUME TurnInv, RepliesKept, NEW d \in Turns, Told(d), OwnSame(d), PrefsSame(d),
           \/ at'[d] = at[d]
           \/ at[d] \in Midway \ {"rescoping"} /\ at'[d] \in Midway \ {"rescoping"}
           \/ at[d] \in Steps \ {"idle"} /\ at'[d] \in After \ (Remembering \cup {"rescoping"})
    PROVE  Told(d)'
<1>1. UNCHANGED ask
  BY DEF RepliesKept
<1>2. Reasoned(d) => Reasoned(d)'
  BY ReasonStays
<1>3. Placed(d)'
  BY DEF Told, Placed, OwnSame, Midway, After, Remembering
<1>4. Fresh(d)'
  BY <1>1 DEF Told, Fresh, OwnSame, Midway, After, Remembering, Cacheable
<1>5. Current(d)'
  <2>1. CASE at'[d] \in Midway
    <3>1. at[d] \in Midway /\ Open(d)
      BY <2>1 DEF Midway, After, Remembering, Open
    <3>2. under[d] = prefs[Buyer(d)] \/ Reasoned(d)
      BY <3>1 DEF Told, Current
    <3>3. prefs'[Buyer(d)] = prefs[Buyer(d)] \/ Reasoned(d)'
      BY <3>1 DEF PrefsSame, Reasoned, Excusable
    <3>. QED BY <1>1, <1>2, <3>2, <3>3 DEF Current, OwnSame, Buyer
  <2>. QED BY <2>1 DEF Current
<1>6. Scoped(d)'
  BY <1>2 DEF Told, Scoped, OwnSame, Midway, After, Remembering
<1>7. Loaded(d)'
  <2>1. CASE at'[d] = "storing"
    <3>1. at[d] = "storing"
      BY <2>1 DEF Midway, After, Remembering
    <3>2. \A i \in DOMAIN entries[d] : entries[d][i].by \in Turns /\ EntryOf(entries[d][i], Buyer(d), scope[d])
      BY <3>1, EntriesBy DEF Told, Loaded, Entry
    <3>3. \A i \in DOMAIN entries[d] : EntryOf(entries[d][i], Buyer(d), scope[d])'
      <4>. SUFFICES ASSUME NEW i \in DOMAIN entries[d] PROVE EntryOf(entries[d][i], Buyer(d), scope[d])'
        OBVIOUS
      <4>1. ASSUME NEW e, e.by \in Turns, NEW b, NEW l, EntryOf(e, b, l) PROVE EntryOf(e, b, l)'
        BY <4>1, EntryStays
      <4>2. entries'[d][i] = entries[d][i] /\ Buyer(d)' = Buyer(d) /\ scope'[d] = scope[d]
        BY <1>1 DEF OwnSame, Buyer
      <4>. QED BY <3>2, <4>1, <4>2 DEF EntryOf
    <3>. QED BY <2>1, <1>1, <3>3 DEF Loaded, OwnSame, Buyer
  <2>. QED BY <2>1 DEF Loaded
<1>8. CachedOf(d)'
  BY CachedStays DEF Told
<1>. QED BY <1>3, <1>4, <1>5, <1>6, <1>7, <1>8 DEF Told

-----------------------------------------------------------------------------
(* The cache invariant, step by step.                                        *)

\* A step of t tells the others nothing.
OthersSame(t) == \A d \in Turns : d # t => OwnSame(d) /\ PrefsSame(d)

LEMMA StepTells ==
    ASSUME TurnInv, CacheInv, NEW t \in Turns, NEW x \in Steps, at' = [at EXCEPT ![t] = x],
           RepliesKept, OthersSame(t), BucketTrue', Told(t)'
    PROVE  CacheInv'
<1>1. ASSUME NEW d \in Turns, d # t PROVE Told(d)'
  <2>1. at'[d] = at[d]
    BY <1>1 DEF TurnInv, CallTypes
  <2>. QED BY <1>1, <2>1, ToldStays DEF CacheInv, OthersSame
<1>. QED BY <1>1 DEF CacheInv

\* A step that neither reads what the cache goes by nor writes it.
Passing == /\ UNCHANGED <<ask, bucket, answer, under, history, scope, source, entries>>
           /\ excuse \subseteq excuse'
           /\ \A d \in Turns : PrefsSame(d)

LEMMA PassingKeeps ==
    ASSUME TurnInv, CacheInv, Passing
    PROVE  RepliesKept /\ BucketTrue' /\ \A d \in Turns : OwnSame(d) /\ PrefsSame(d)
<1>1. RepliesKept
  BY DEF Passing, RepliesKept
<1>2. BucketTrue'
  BY <1>1, BucketStays DEF Passing, CacheInv
<1>. QED BY <1>1, <1>2 DEF Passing, OwnSame

LEMMA Passes ==
    ASSUME TurnInv, CacheInv, NEW t \in Turns, NEW x \in Steps, at' = [at EXCEPT ![t] = x], Passing,
           \/ at[t] \in Midway \ {"rescoping"} /\ x \in Midway \ {"rescoping"}
           \/ at[t] \in Steps \ {"idle"} /\ x \in After \ (Remembering \cup {"rescoping"})
    PROVE  CacheInv'
<1>1. RepliesKept /\ BucketTrue' /\ \A d \in Turns : OwnSame(d) /\ PrefsSame(d)
  BY PassingKeeps
<1>2. at'[t] = x
  BY DEF TurnInv, CallTypes
<1>3. Told(t)'
  BY <1>1, <1>2, ToldStays DEF CacheInv
<1>. QED BY <1>1, <1>3, StepTells DEF OthersSame

\* The preferences are what they were.
LEMMA PrefsUnchanged ==
    ASSUME UNCHANGED prefs PROVE \A d \in Turns : PrefsSame(d)
BY DEF PrefsSame

\* Who overwrites the preferences of a buyer excuses the open turns of that buyer.
LEMMA OverwriteExcuses ==
    ASSUME TurnInv, NEW t \in Turns, NEW list, Overwrite(t, list)
    PROVE  excuse \subseteq excuse' /\ \A d \in Turns : PrefsSame(d)
<1>1. excuse \subseteq excuse'
  BY DEF Overwrite
<1>2. ASSUME NEW d \in Turns PROVE PrefsSame(d)
  <2>1. CASE Buyer(d) # Buyer(t)
    BY <2>1 DEF Overwrite, PrefsSame, TurnInv, StoreTypes
  <2>2. CASE Buyer(d) = Buyer(t) /\ list = prefs[Buyer(t)]
    BY <2>2 DEF Overwrite, PrefsSame, TurnInv, StoreTypes
  <2>3. CASE Buyer(d) = Buyer(t) /\ list # prefs[Buyer(t)]
    BY <2>3 DEF Overwrite, PrefsSame
  <2>. QED BY <2>1, <2>2, <2>3
<1>. QED BY <1>1, <1>2

(* The steps of the tools. *)
LEMMA CheckTells ==
    ASSUME TurnInv, CacheInv, NEW t \in Turns, Check(t) \/ Dispatch(t), UNCHANGED ask
    PROVE  CacheInv'
<1>1. Passing
  BY PrefsUnchanged DEF Passing, Check, Dispatch, stores, prefVars, own, ghosts
<1>2. \E x \in Midway \ {"rescoping"} : at' = [at EXCEPT ![t] = x] /\ x \in Steps
  BY DEF Check, Dispatch, Step, Midway, Steps
<1>3. at[t] \in Midway \ {"rescoping"}
  BY DEF Check, Dispatch, Step, Midway
<1>. QED BY <1>1, <1>2, <1>3, Passes

LEMMA RemembersTells ==
    ASSUME TurnInv, CacheInv, NEW t \in Turns, NEW o \in Outcomes, Remembers(t, o), UNCHANGED ask
    PROVE  CacheInv'
<1>1. excuse \subseteq excuse' /\ \A d \in Turns : PrefsSame(d)
  <2>1. CASE Effect(o)
    <3>1. Overwrite(t, Changed(t))
      BY <2>1 DEF Remembers
    <3>. QED BY <3>1, OverwriteExcuses
  <2>2. CASE ~Effect(o)
    BY <2>2, PrefsUnchanged DEF Remembers
  <2>. QED BY <2>1, <2>2
<1>2. Passing
  BY <1>1 DEF Passing, Remembers, own
<1>3. at[t] = "acting" /\ at' = [at EXCEPT ![t] = "asking"]
  BY DEF Remembers, Step
<1>. QED BY <1>2, <1>3, Passes DEF Midway, Steps

LEMMA ReadFileTells ==
    ASSUME TurnInv, CacheInv, NEW t \in Turns, ReadFile(t), UNCHANGED ask
    PROVE  CacheInv'
<1>1. Passing
  BY PrefsUnchanged DEF Passing, ReadFile, own
<1>2. at[t] = "acting" /\ \E x \in {"asking", "opening"} : at' = [at EXCEPT ![t] = x]
  BY DEF ReadFile
<1>. QED BY <1>1, <1>2, Passes DEF Midway, Steps

LEMMA WriteFileTells ==
    ASSUME TurnInv, CacheInv, NEW t \in Turns, OpenFile(t) \/ FillFile(t), UNCHANGED ask
    PROVE  CacheInv'
<1>1. \E list : Overwrite(t, list)
  BY DEF OpenFile, FillFile
<1>2. Passing
  BY <1>1, OverwriteExcuses DEF Passing, OpenFile, FillFile, own
<1>3. /\ at[t] \in {"opening", "filling"}
      /\ \E x \in {"filling", "asking"} : at' = [at EXCEPT ![t] = x]
  BY DEF OpenFile, FillFile, Step
<1>. QED BY <1>2, <1>3, Passes DEF Midway, Steps

LEMMA AskingTells ==
    ASSUME TurnInv, CacheInv, NEW t \in Turns, Asking(t), UNCHANGED ask
    PROVE  CacheInv'
<1>1. Passing
  BY PrefsUnchanged DEF Passing, Asking, stores, prefVars, own, ghosts
<1>2. at[t] \in {"asking", "calling"}
  BY DEF Asking, Acquire, Retry
<1>3. \E x \in {"calling", "falling"} : at' = [at EXCEPT ![t] = x]
  <2>1. CASE at' = at
    <3>1. at[t] = "calling"
      BY <2>1 DEF Asking, Acquire, Retry, TurnInv, CallTypes
    <3>. QED BY <2>1, <3>1 DEF TurnInv, CallTypes
  <2>2. CASE at' # at
    BY <2>2 DEF Asking, Acquire, Retry
  <2>. QED BY <2>1, <2>2
<1>. QED BY <1>1, <1>2, <1>3, Passes DEF Midway, Steps

LEMMA DispatchedTells ==
    ASSUME TurnInv, CacheInv, NEW t \in Turns, Dispatched(t), UNCHANGED ask
    PROVE  CacheInv'
<1>1. Passing
  BY PrefsUnchanged DEF Passing, Dispatched, stores, prefVars, own, ghosts
<1>2. at[t] \in {"asking", "calling", "falling"} /\ at' = [at EXCEPT ![t] = "asking"]
  BY DEF Dispatched, Answered, Raises, Holding
<1>. QED BY <1>1, <1>2, Passes DEF Midway, Steps

(* The steps of the finally clause. *)
LEMMA EndsTell ==
    ASSUME TurnInv, CacheInv, NEW t \in Turns, UNCHANGED ask,
           Saves(t) \/ AppendLine(t) \/ \E o \in Outcomes : ReadNumber(t, o) \/ InsertRow(t, o)
    PROVE  CacheInv'
<1>. DEFINE Same == /\ UNCHANGED <<bucket, prefs, answer, under, history, scope, source, entries>>
                    /\ excuse \subseteq excuse'
            Places == {"merging", "inserting", "updating", "saving", "question", "question row",
                       "reply row", "reply", "end"}
<1>1. Same
  <2>1. CASE Saves(t)
    BY <2>1, SavesKeeps DEF prefVars, own
  <2>2. CASE AppendLine(t)
    BY <2>2 DEF AppendLine, prefVars, own, ghosts
  <2>3. ASSUME NEW o \in Outcomes, ReadNumber(t, o) PROVE Same
    BY <2>3 DEF ReadNumber, stores, prefVars, Excused
  <2>4. ASSUME NEW o \in Outcomes, InsertRow(t, o) PROVE Same
    BY <2>4 DEF InsertRow, prefVars, Excused
  <2>. QED BY <2>1, <2>2, <2>3, <2>4
<1>2. Passing
  BY <1>1, PrefsUnchanged DEF Passing
<1>3. at[t] # "idle" /\ \E x \in Places : at' = [at EXCEPT ![t] = x]
  <2>1. CASE Saves(t)
    BY <2>1, SavesKeeps DEF InSave, Dumped
  <2>2. CASE ~Saves(t)
    BY <2>2 DEF AppendLine, ReadNumber, InsertRow, EndTurn
  <2>. QED BY <2>1, <2>2
<1>4. at[t] \in Steps
  BY DEF TurnInv, CallTypes
<1>. QED BY <1>2, <1>3, <1>4, Passes DEF After, Remembering, Steps

LEMMA CrashTells ==
    ASSUME TurnInv, CacheInv, NEW p \in Processes, Crash(p), UNCHANGED ask
    PROVE  CacheInv'
<1>1. Passing
  BY PrefsUnchanged DEF Passing, Crash, stores, prefVars, own
<1>2. RepliesKept /\ BucketTrue' /\ \A d \in Turns : OwnSame(d) /\ PrefsSame(d)
  BY <1>1, PassingKeeps
<1>3. ASSUME NEW d \in Turns PROVE Told(d)'
  <2>1. at'[d] = at[d] \/ (at[d] \in Steps \ {"idle"} /\ at'[d] = "down")
    BY DEF Crash, Open, TurnInv, CallTypes
  <2>. QED BY <1>2, <2>1, ToldStays DEF CacheInv, After, Remembering
<1>. QED BY <1>2, <1>3 DEF CacheInv

(* The turn starts, and gets its agent. *)
LEMMA StartTells ==
    ASSUME TurnInv, CacheInv, NEW t \in Turns, Start(t), UNCHANGED ask
    PROVE  CacheInv'
<1>1. /\ at[t] = "idle" /\ \E x \in {"restoring", "scoping"} : at' = [at EXCEPT ![t] = x] /\ x \in Steps
      /\ answer[t] = "none" /\ \A d \in Turns : d # t => history'[d] = history[d]
      /\ UNCHANGED <<bucket, prefs, answer, under, scope, source, entries>> /\ excuse \subseteq excuse'
  <2>1. at[t] = "idle" /\ \E x \in {"restoring", "scoping"} : at' = [at EXCEPT ![t] = x] /\ x \in Steps
    BY DEF Start, Step, Steps
  <2>2. answer[t] = "none"
    BY <2>1 DEF CacheInv, Told, Placed, After
  <2>. QED BY <2>1, <2>2 DEF Start, stores, prefVars, TurnInv, OwnTypes
<1>2. RepliesKept
  BY <1>1 DEF RepliesKept, CacheInv, Told, Placed, After
<1>3. BucketTrue'
  BY <1>1, <1>2, BucketStays DEF CacheInv
<1>4. OthersSame(t)
  BY <1>1 DEF OthersSame, OwnSame, PrefsSame
<1>5. Told(t)'
  BY <1>1 DEF TurnInv, CallTypes, Told, Placed, Fresh, Current, Scoped, Loaded, CachedOf,
              Midway, Remembering, After
<1>. QED BY <1>1, <1>2, <1>3, <1>4, <1>5, StepTells

LEMMA RestoreTells ==
    ASSUME TurnInv, CacheInv, NEW t \in Turns, NEW o \in Outcomes, Restore(t, o), UNCHANGED ask
    PROVE  CacheInv'
<1>1. at[t] = "restoring" /\ at' = [at EXCEPT ![t] = "scoping"] /\ "scoping" \in Steps
  BY DEF Restore, Step, Steps
<1>2. answer[t] = "none"
  BY <1>1 DEF CacheInv, Told, Placed, After
<1>3. /\ UNCHANGED <<bucket, prefs, answer, under, scope, source, entries>> /\ excuse \subseteq excuse'
      /\ \A d \in Turns : d # t => history'[d] = history[d]
  BY DEF Restore, stores, prefVars, Excused, TurnInv, OwnTypes
<1>4. RepliesKept
  BY <1>2, <1>3 DEF RepliesKept
<1>5. BucketTrue'
  BY <1>3, <1>4, BucketStays DEF CacheInv
<1>6. OthersSame(t)
  BY <1>3 DEF OthersSame, OwnSame, PrefsSame
<1>7. Told(t)'
  BY <1>1, <1>2, <1>3 DEF TurnInv, CallTypes, Told, Placed, Fresh, Current, Scoped, Loaded, CachedOf,
              Midway, Remembering, After
<1>. QED BY <1>1, <1>4, <1>5, <1>6, <1>7, StepTells

\* A list read is the buyer's, or the read failed and excuses the turn.
LEMMA ReadOrExcused ==
    ASSUME NEW t \in Turns, NEW o \in Outcomes, MisreadIf(t, o)
    PROVE  /\ excuse \subseteq excuse'
           /\ Listed(t, o) = prefs[Buyer(t)] \/ <<"misread", t>> \in excuse'
BY DEF MisreadIf, Excused, Listed

LEMMA ReadScopeTells ==
    ASSUME TurnInv, CacheInv, NEW t \in Turns, NEW o \in Outcomes, ReadScope(t, o), UNCHANGED ask
    PROVE  CacheInv'
<1>1. /\ at[t] \in {"scoping", "rescoping"}
      /\ \E x \in {"looking", "building", "loading", "persisting"} : at' = [at EXCEPT ![t] = x]
      /\ at'[t] \in {"looking", "loading"} => Cacheable(t)
      /\ at'[t] = "loading" => at[t] = "rescoping"
      /\ at[t] = "scoping" => at'[t] \in {"looking", "building"}
      /\ at[t] = "rescoping" => at'[t] \in {"loading", "persisting"}
  BY DEF ReadScope, Step, TurnInv, CallTypes
<1>2. /\ excuse \subseteq excuse'
      /\ scope'[t] = prefs[Buyer(t)] \/ <<"misread", t>> \in excuse'
  BY ReadOrExcused DEF ReadScope, Scope, TurnInv, OwnTypes
<1>3. /\ UNCHANGED <<bucket, prefs, answer, under, history, source, entries>>
      /\ \A d \in Turns : d # t => scope'[d] = scope[d]
  BY DEF ReadScope, stores, prefVars, TurnInv, OwnTypes
<1>4. RepliesKept
  BY <1>2, <1>3 DEF RepliesKept
<1>5. BucketTrue'
  BY <1>3, <1>4, BucketStays DEF CacheInv
<1>6. OthersSame(t)
  BY <1>3 DEF OthersSame, OwnSame, PrefsSame
<1>7. Told(t)'
  <2>1. answer[t] \in {"none", "reply"} /\ (at[t] = "scoping" => answer[t] = "none")
        /\ (at[t] = "rescoping" => answer[t] = "reply")
    BY <1>1 DEF CacheInv, Told, Placed, After, Remembering
  <2>2. Placed(t)'
    BY <1>1, <1>3, <2>1 DEF Placed, After, Remembering
  <2>3. Fresh(t)'
    BY <1>1, <1>3 DEF Fresh, Remembering, Cacheable
  <2>4. Current(t)' /\ Loaded(t)'
    BY <1>1 DEF Current, Midway, Loaded, TurnInv, CallTypes
  <2>5. Scoped(t)'
    <3>1. CASE at'[t] \in Remembering
      <4>1. at[t] = "rescoping"
        BY <1>1, <3>1 DEF Remembering, TurnInv, CallTypes
      <4>2. under[t] = prefs[Buyer(t)] \/ Reasoned(t)
        BY <4>1 DEF CacheInv, Told, Current, Midway
      <4>3. scope'[t] = prefs[Buyer(t)] \/ Reasoned(t)'
        BY <1>2 DEF Reasoned, Excusable
      <4>4. Reasoned(t) => Reasoned(t)'
        BY <1>4, ReasonStays
      <4>. QED BY <1>3, <4>2, <4>3, <4>4 DEF Scoped
    <3>. QED BY <3>1 DEF Scoped
  <2>6. CachedOf(t)'
    BY <1>3, <2>1 DEF CachedOf
  <2>. QED BY <2>2, <2>3, <2>4, <2>5, <2>6 DEF Told
<1>. QED BY <1>1, <1>4, <1>5, <1>6, <1>7, StepTells DEF Steps

LEMMA BuildInputsTells ==
    ASSUME TurnInv, CacheInv, NEW t \in Turns, NEW o \in Outcomes, BuildInputs(t, o), UNCHANGED ask
    PROVE  CacheInv'
<1>1. at[t] = "building" /\ at' = [at EXCEPT ![t] = "asking"] /\ "asking" \in Steps
  BY DEF BuildInputs, Step, Steps
<1>2. answer[t] = "none"
  BY <1>1 DEF CacheInv, Told, Placed, After
<1>3. /\ excuse \subseteq excuse'
      /\ under'[t] = prefs[Buyer(t)] \/ <<"misread", t>> \in excuse'
  BY ReadOrExcused DEF BuildInputs, TurnInv, GhostTypes
<1>4. /\ UNCHANGED <<bucket, prefs, answer, scope, history, source, entries>>
      /\ \A d \in Turns : d # t => under'[d] = under[d]
  BY DEF BuildInputs, stores, prefVars, own, TurnInv, GhostTypes
<1>5. RepliesKept
  BY <1>2, <1>3, <1>4 DEF RepliesKept
<1>6. BucketTrue'
  BY <1>4, <1>5, BucketStays DEF CacheInv
<1>7. OthersSame(t)
  BY <1>4 DEF OthersSame, OwnSame, PrefsSame
<1>8. Told(t)'
  <2>1. at'[t] = "asking"
    BY <1>1 DEF TurnInv, CallTypes
  <2>2. Current(t)'
    BY <1>3, <1>4 DEF Current, Reasoned, Excusable, Buyer
  <2>. QED BY <1>2, <1>4, <2>1, <2>2 DEF Told, Placed, Fresh, Scoped, Loaded, CachedOf, After, Remembering
<1>. QED BY <1>1, <1>5, <1>6, <1>7, <1>8, StepTells

(* The cache itself. *)
LEMMA LookupTells ==
    ASSUME TurnInv, CacheInv, NEW t \in Turns, NEW o \in Outcomes, Lookup(t, o), UNCHANGED ask
    PROVE  CacheInv'
<1>. DEFINE hits == {e \in Range(Entries(Bucket(t))) : SameQuestion(e, t)}
<1>1. at[t] = "looking" /\ Cacheable(t) /\ answer[t] = "none"
  BY DEF Lookup, CacheInv, Told, Fresh, Placed, Remembering, After
<1>2. /\ UNCHANGED <<bucket, prefs, excuse, under, scope, history, entries>>
      /\ \A d \in Turns : d # t => answer'[d] = answer[d] /\ source'[d] = source[d]
  BY DEF Lookup, stores, prefVars, ghosts, TurnInv, OwnTypes
<1>3. RepliesKept
  BY <1>1, <1>2 DEF RepliesKept
<1>4. BucketTrue'
  BY <1>2, <1>3, BucketStays DEF CacheInv
<1>5. OthersSame(t)
  BY <1>2 DEF OthersSame, OwnSame, PrefsSame
<1>6. CASE at' = [at EXCEPT ![t] = "building"] /\ UNCHANGED answer
  <2>1. at'[t] = "building" /\ answer'[t] = "none"
    BY <1>1, <1>6 DEF TurnInv, CallTypes
  <2>2. Told(t)'
    BY <2>1 DEF Told, Placed, Fresh, Current, Scoped, Loaded, CachedOf, Midway, After, Remembering
  <2>. QED BY <1>3, <1>4, <1>5, <1>6, <2>2, StepTells DEF Steps
<1>7. ASSUME at' = [at EXCEPT ![t] = "persisting"], answer' = [answer EXCEPT ![t] = "cached"],
             NEW e \in hits, source' = [source EXCEPT ![t] = e.by]
      PROVE  CacheInv'
  <2>1. Bucket(t) \in DOMAIN bucket /\ \E i \in DOMAIN bucket[Bucket(t)] : e = bucket[Bucket(t)][i]
    BY <1>7 DEF Entries, Range
  <2>2. EntryOf(e, Buyer(t), scope[t]) /\ e.by \in Turns
    BY <2>1, EntriesBy DEF CacheInv, BucketTrue, Bucket, Entry
  <2>3. at'[t] = "persisting" /\ answer'[t] = "cached" /\ source'[t] = e.by
    BY <1>7 DEF TurnInv, CallTypes, OwnTypes
  <2>4. CachedOf(t)'
    <3>1. ask[e.by].query = ask[t].query /\ ~history[t]
      BY <1>1, <1>7, <2>2 DEF EntryOf, SameQuestion, Cacheable
    <3>2. answer'[e.by] = "reply"
      BY <1>3, <2>2 DEF EntryOf, RepliesKept
    <3>3. Reasoned(e.by) => Reasoned(e.by)'
      BY <1>2 DEF Reasoned, Excusable
    <3>. QED BY <1>2, <2>2, <2>3, <3>1, <3>2, <3>3 DEF CachedOf, EntryOf, Buyer, Reasoned, Excusable
  <2>5. Told(t)'
    BY <2>3, <2>4 DEF Told, Placed, Fresh, Current, Scoped, Loaded, Midway, After, Remembering
  <2>. QED BY <1>3, <1>4, <1>5, <1>7, <2>5, StepTells DEF Steps
<1>. QED BY <1>6, <1>7 DEF Lookup

LEMMA LoadEntriesTells ==
    ASSUME TurnInv, CacheInv, NEW t \in Turns, NEW o \in Outcomes, LoadEntries(t, o), UNCHANGED ask
    PROVE  CacheInv'
<1>1. at[t] = "loading" /\ at' = [at EXCEPT ![t] = "storing"] /\ "storing" \in Steps
  BY DEF LoadEntries, Step, Steps
<1>2. /\ UNCHANGED <<bucket, prefs, excuse, under, scope, history, answer, source>>
      /\ \A d \in Turns : d # t => entries'[d] = entries[d]
      /\ entries'[t] = << >> \/ entries'[t] = Entries(Bucket(t))
  BY DEF LoadEntries, stores, prefVars, ghosts, TurnInv, OwnTypes
<1>3. RepliesKept
  BY <1>2 DEF RepliesKept
<1>4. BucketTrue'
  BY <1>2, <1>3, BucketStays DEF CacheInv
<1>5. OthersSame(t)
  BY <1>2 DEF OthersSame, OwnSame, PrefsSame
<1>6. at'[t] = "storing"
  BY <1>1 DEF TurnInv, CallTypes
<1>7. Loaded(t)'
  <2>1. \A i \in DOMAIN entries'[t] : entries'[t][i].by \in Turns /\ EntryOf(entries'[t][i], Buyer(t), scope[t])
    <3>1. CASE Bucket(t) \in DOMAIN bucket
      BY <1>2, <3>1, EntriesBy DEF CacheInv, BucketTrue, Bucket, Entry, Entries
    <3>2. CASE Bucket(t) \notin DOMAIN bucket
      BY <1>2, <3>2 DEF Entries
    <3>. QED BY <3>1, <3>2
  <2>. QED BY <1>2, <1>3, <2>1, EntryStays DEF Loaded, Buyer, EntryOf, Cacheable, Reasoned, Excusable
<1>8. CachedOf(t)'
  BY <1>2 DEF CacheInv, Told, CachedOf, Buyer, Reasoned, Excusable
<1>9. Told(t)'
  BY <1>1, <1>2, <1>6, <1>7, <1>8
     DEF CacheInv, Told, Placed, Fresh, Current, Scoped, Midway, After, Remembering, Cacheable, Reasoned, Excusable
<1>. QED BY <1>1, <1>3, <1>4, <1>5, <1>9, StepTells

LEMMA StoreEntriesTells ==
    ASSUME TurnInv, CacheInv, NEW t \in Turns, NEW o \in Outcomes, StoreEntries(t, o), UNCHANGED ask
    PROVE  CacheInv'
<1>. DEFINE mine == [query |-> ask[t].query, by |-> t]
            all == Append(entries[t], mine)
            list == LastEntries(all)
<1>1. at[t] = "storing" /\ at' = [at EXCEPT ![t] = "persisting"] /\ "persisting" \in Steps
  BY DEF StoreEntries, Step, Steps
<1>2. /\ UNCHANGED <<prefs, excuse, under, scope, history, answer, source>>
      /\ \A d \in Turns : d # t => entries'[d] = entries[d]
  BY DEF StoreEntries, prefVars, ghosts, TurnInv, OwnTypes
<1>3. RepliesKept
  BY <1>2 DEF RepliesKept
<1>4. OthersSame(t)
  BY <1>2 DEF OthersSame, OwnSame, PrefsSame
<1>5. at'[t] = "persisting"
  BY <1>1 DEF TurnInv, CallTypes
<1>6. Told(t)'
  <2>1. CachedOf(t)'
    BY <1>2 DEF CacheInv, Told, CachedOf, Buyer, Reasoned, Excusable
  <2>. QED BY <1>5, <2>1 DEF Told, Placed, Fresh, Current, Scoped, Loaded, Midway, After, Remembering
<1>7. EntryOf(mine, Buyer(t), scope[t])
  BY <1>1 DEF EntryOf, CacheInv, Told, Placed, Fresh, Scoped, Remembering
<1>8. all \in Seq(Entry) /\ all # << >>
      /\ \A j \in DOMAIN all : all[j].by \in Turns /\ EntryOf(all[j], Buyer(t), scope[t])
  <2>1. entries[t] \in Seq(Entry) /\ mine \in Entry
    BY IntentOf DEF TurnInv, OwnTypes, Entry
  <2>2. \A j \in DOMAIN entries[t] : EntryOf(entries[t][j], Buyer(t), scope[t])
    BY <1>1 DEF CacheInv, Told, Loaded
  <2>. HIDE DEF mine
  <2>3. /\ all \in Seq(Entry) /\ Len(all) = Len(entries[t]) + 1 /\ Len(entries[t]) \in Nat
        /\ \A j \in DOMAIN all : all[j] = mine \/ (j \in DOMAIN entries[t] /\ all[j] = entries[t][j])
    BY <2>1, AppendProperties, LenProperties
  <2>4. \A j \in DOMAIN all : all[j] \in Entry
    <3>. HIDE DEF all
    <3>. QED BY <2>3, ElementOfSeq, LenProperties
  <2>5. \A j \in DOMAIN all : all[j].by \in Turns
    BY <2>4 DEF Entry
  <2>6. \A j \in DOMAIN all : EntryOf(all[j], Buyer(t), scope[t])
    BY <1>7, <2>2, <2>3
  <2>7. all # << >>
    BY <2>3, EmptySeq
  <2>. QED BY <2>3, <2>5, <2>6, <2>7
<1>9. /\ Len(list) <= BucketLimit
      /\ \A i \in DOMAIN list : list[i].by \in Turns /\ EntryOf(list[i], Buyer(t), scope[t])
  <2>. HIDE DEF all
  <2>. QED BY <1>8, LastEntriesType
<1>10. BucketTrue'
  <2>. HIDE DEF list
  <2>1. ASSUME NEW k \in DOMAIN bucket'
        PROVE  /\ Len(bucket'[k]) <= BucketLimit
               /\ \A i \in DOMAIN bucket'[k] :
                      bucket'[k][i].by \in Turns /\ EntryOf(bucket'[k][i], k[1], k[2])
    <3>1. CASE k \in DOMAIN bucket /\ bucket'[k] = bucket[k]
      BY <3>1, EntriesBy DEF CacheInv, BucketTrue, Entry
    <3>2. CASE k = Bucket(t) /\ bucket'[k] = list
      BY <1>9, <3>2 DEF Bucket
    <3>. QED BY <3>1, <3>2 DEF StoreEntries, list
  <2>. QED BY <1>3, <2>1, EntryStays DEF BucketTrue
<1>. QED BY <1>1, <1>3, <1>4, <1>6, <1>10, StepTells

(* The main agent's call ends. *)
LEMMA RepliedTells ==
    ASSUME TurnInv, CacheInv, NEW t \in Turns, Replied(t), UNCHANGED ask
    PROVE  CacheInv'
<1>1. at[t] \in Holding
  BY DEF Replied, Answered
<1>2. answer[t] = "none"
  BY <1>1 DEF CacheInv, Told, Placed, After, Holding
<1>3. UNCHANGED <<bucket, prefs, draft, excuse, under, scope, history, entries>>
  BY DEF Replied, stores, prefVars
<1>4. CASE at' = [at EXCEPT ![t] = "checking"] /\ UNCHANGED <<answer, source>>
  <2>1. Passing
    BY <1>3, <1>4, PrefsUnchanged DEF Passing
  <2>. QED BY <1>1, <1>4, <2>1, Passes DEF Midway, Steps, Holding
<1>5. CASE /\ at' = [at EXCEPT ![t] = "rescoping"]
           /\ answer' = [answer EXCEPT ![t] = "reply"] /\ source' = [source EXCEPT ![t] = t]
  <2>1. \A d \in Turns : d # t => answer'[d] = answer[d] /\ source'[d] = source[d]
    BY <1>5 DEF TurnInv, OwnTypes
  <2>2. RepliesKept
    BY <1>2, <1>3, <2>1 DEF RepliesKept
  <2>3. BucketTrue'
    BY <1>3, <2>2, BucketStays DEF CacheInv
  <2>4. OthersSame(t)
    BY <1>3, <2>1 DEF OthersSame, OwnSame, PrefsSame
  <2>5. at'[t] = "rescoping" /\ answer'[t] = "reply"
    BY <1>5 DEF TurnInv, CallTypes, OwnTypes
  <2>6. Current(t)'
    BY <1>1, <1>3 DEF CacheInv, Told, Current, Midway, Holding, Buyer, Reasoned, Excusable
  <2>7. Told(t)'
    BY <2>5, <2>6 DEF Told, Placed, Fresh, Scoped, Loaded, CachedOf, After, Remembering
  <2>. QED BY <1>5, <2>2, <2>3, <2>4, <2>7, StepTells DEF Steps
<1>. QED BY <1>4, <1>5 DEF Replied

LEMMA ReplyRaisesTells ==
    ASSUME TurnInv, CacheInv, NEW t \in Turns, ReplyRaises(t), UNCHANGED ask
    PROVE  CacheInv'
<1>1. at[t] \in Holding
  BY DEF ReplyRaises, Raises
<1>2. answer[t] = "none"
  BY <1>1 DEF CacheInv, Told, Placed, After, Holding
<1>3. UNCHANGED <<bucket, prefs, draft, excuse, under, scope, history, entries, source>>
  BY DEF ReplyRaises, stores, prefVars, ghosts
<1>4. CASE at' = [at EXCEPT ![t] = "asking"] /\ UNCHANGED answer
  <2>1. Passing
    BY <1>3, <1>4, PrefsUnchanged DEF Passing
  <2>. QED BY <1>1, <1>4, <2>1, Passes DEF Midway, Steps, Holding
<1>5. CASE at' = [at EXCEPT ![t] = "persisting"] /\ answer' = [answer EXCEPT ![t] = "error"]
  <2>1. \A d \in Turns : d # t => answer'[d] = answer[d]
    BY <1>5 DEF TurnInv, OwnTypes
  <2>2. RepliesKept
    BY <1>2, <1>3, <2>1 DEF RepliesKept
  <2>3. BucketTrue'
    BY <1>3, <2>2, BucketStays DEF CacheInv
  <2>4. OthersSame(t)
    BY <1>3, <2>1 DEF OthersSame, OwnSame, PrefsSame
  <2>5. at'[t] = "persisting" /\ answer'[t] = "error"
    BY <1>5 DEF TurnInv, CallTypes, OwnTypes
  <2>6. Told(t)'
    BY <2>5 DEF Told, Placed, Fresh, Current, Scoped, Loaded, CachedOf, Midway, After, Remembering
  <2>. QED BY <1>5, <2>2, <2>3, <2>4, <2>6, StepTells DEF Steps
<1>. QED BY <1>4, <1>5 DEF ReplyRaises

LEMMA CacheNext == TurnInv /\ CacheInv /\ [Next]_vars => CacheInv'
<1>. SUFFICES ASSUME TurnInv, CacheInv, [Next]_vars PROVE CacheInv'
  OBVIOUS
<1>1. CASE UNCHANGED vars
  BY <1>1 DEF vars, stores, prefVars, own, ghosts, CacheInv, BucketTrue, EntryOf, Told, Placed, Fresh, Current,
              Scoped, Loaded, CachedOf, Reasoned, Excusable, Cacheable, Buyer
<1>2. CASE Next
  <2>1. ASSUME NEW t \in Turns, Start(t), UNCHANGED ask PROVE CacheInv'
    BY <2>1, StartTells
  <2>2. ASSUME NEW t \in Turns, Check(t) \/ Dispatch(t), UNCHANGED ask PROVE CacheInv'
    BY <2>2, CheckTells
  <2>3. ASSUME NEW t \in Turns, AtOnce(t), UNCHANGED ask PROVE CacheInv'
    BY <2>3, ReadFileTells, WriteFileTells, EndsTell DEF AtOnce, Saves
  <2>4. ASSUME NEW t \in Turns, Asking(t) \/ Replied(t) \/ ReplyRaises(t) \/ Dispatched(t), UNCHANGED ask
        PROVE  CacheInv'
    BY <2>4, AskingTells, RepliedTells, ReplyRaisesTells, DispatchedTells
  <2>5. ASSUME NEW t \in Turns, NEW o \in Outcomes, Awaited(t, o), UNCHANGED ask PROVE CacheInv'
    BY <2>5, RestoreTells, ReadScopeTells, LookupTells, BuildInputsTells, RemembersTells, LoadEntriesTells,
       StoreEntriesTells, EndsTell DEF Awaited, Saves
  <2>6. ASSUME NEW p \in Processes, Crash(p), UNCHANGED ask PROVE CacheInv'
    BY <2>6, CrashTells
  <2>. QED BY <1>2, <2>1, <2>2, <2>3, <2>4, <2>5, <2>6 DEF Next
<1>. QED BY <1>1, <1>2

LEMMA CacheInit == Init => CacheInv
BY DEF Init, CacheInv, BucketTrue, Told, Placed, Fresh, Current, Scoped, Loaded, CachedOf, Midway, Remembering, After

LEMMA CacheTrue == TurnInv /\ CacheInv => CacheSound
<1>. SUFFICES ASSUME TurnInv, CacheInv PROVE CacheSound
  OBVIOUS
<1>1. ASSUME NEW t \in Turns, answer[t] = "cached"
      PROVE  LET u == source[t] IN
             /\ ~history[t] /\ ask[u].query = ask[t].query /\ Buyer(u) = Buyer(t)
             /\ scope[t] = under[u] \/ Excusable({"changed", "misread"}, u)
  BY <1>1 DEF CacheInv, Told, CachedOf, Reasoned
<1>2. ASSUME NEW k \in DOMAIN bucket
      PROVE  /\ Len(bucket[k]) <= BucketLimit
             /\ \A i \in DOMAIN bucket[k] :
                    LET u == bucket[k][i].by IN
                    /\ Buyer(u) = k[1] /\ answer[u] = "reply" /\ Cacheable(u)
                    /\ under[u] = k[2] \/ Excusable({"changed", "misread"}, u)
  BY DEF CacheInv, BucketTrue, EntryOf, Reasoned
<1>. QED BY <1>1, <1>2 DEF CacheSound

(* What the cache tells is what the same buyer was told, to the same question, whatever fails,
   overlaps or dies in between; and under the preferences it is filed under, unless one of them
   changed while the reply was made, or a read of that turn failed. *)
THEOREM CacheSafe == Spec => []CacheSound
<1>. QED BY CacheTrue, TurnInit, TurnNext, CacheInit, CacheNext, PTL DEF Spec

-----------------------------------------------------------------------------
(* The harness: the loop detector and the drift detector judge a turn by its *)
(* own calls, as long as it is alone in its session of its process.          *)

LEMMA HarnessLimits ==
    Window \in Nat /\ RepeatThreshold \in Nat \ {0} /\ RepeatThreshold <= Window /\ CheckInterval \in Nat \ {0}
BY TurnAssumption

\* A sequence ends in r equal calls.
LEMMA TrailingIs ==
    ASSUME NEW T, NEW calls \in Seq(T), NEW r \in Nat \ {0}
    PROVE  TrailingRepeat(calls) >= r <=>
               /\ r <= Len(calls)
               /\ \A i \in Len(calls) - r + 1 .. Len(calls) : calls[i] = Last(calls)
<1>. DEFINE n == Len(calls)
            S == {m \in 0 .. n : \A i \in n - m + 1 .. n : calls[i] = Last(calls)}
<1>1. n \in Nat
  BY LenProperties
<1>. HIDE DEF n
<1>2. S \subseteq Nat /\ 0 \in S /\ \A x \in S : x <= n
  BY <1>1
<1>3. Max(S) \in S /\ \A x \in S : x <= Max(S)
  <2>. HIDE DEF S
  <2>. QED BY <1>1, <1>2, GreatestOf
<1>4. TrailingRepeat(calls) = Max(S)
  BY DEF TrailingRepeat, n
<1>5. (r <= n /\ \A i \in n - r + 1 .. n : calls[i] = Last(calls)) <=> r \in S
  BY <1>1
<1>6. Max(S) >= r => r \in S
  <2>. DEFINE m == Max(S)
  <2>1. m \in 0 .. n /\ \A i \in n - m + 1 .. n : calls[i] = Last(calls)
    BY <1>3
  <2>. HIDE DEF m
  <2>2. ASSUME m >= r PROVE r \in S
    BY <1>1, <2>1, <2>2
  <2>. QED BY <2>2 DEF m
<1>7. r \in S => Max(S) >= r
  <2>1. Max(S) \in Nat
    BY <1>2, <1>3
  <2>. HIDE DEF S
  <2>. QED BY <1>3, <2>1
<1>. QED BY <1>4, <1>5, <1>6, <1>7 DEF n

\* The calls of t up to its n-th, and a window that holds the last of them.
OwnTools(t, n) == [j \in 1 .. n |-> Script(t)[j].tool]
LastOf(w, t, n) ==
    /\ Len(w) <= n /\ Len(w) <= Window /\ (Len(w) = n \/ Len(w) = Window)
    /\ \A i \in 1 .. Len(w) : w[i] = Script(t)[n - Len(w) + i].tool

LEMMA OwnToolsType ==
    ASSUME Asked, NEW t \in Turns, NEW n \in Nat, n <= Len(Script(t))
    PROVE  OwnTools(t, n) \in Seq(ToolNames) /\ Len(OwnTools(t, n)) = n
<1>. DEFINE R == [tool : ToolNames, pref : Preference]
            s == Script(t)
<1>1. s \in Seq(R) /\ Len(s) \in Nat /\ \A j \in 1 .. Len(s) : s[j] \in R
  <2>1. s \in Seq(R)
    BY IntentOf
  <2>. HIDE DEF s, R
  <2>. QED BY <2>1, LenProperties, ElementOfSeq
<1>2. \A j \in 1 .. n : s[j].tool \in ToolNames
  <2>1. \A j \in 1 .. n : s[j] \in R
    <3>. HIDE DEF R, s
    <3>. QED BY <1>1 DEF s
  <2>. QED BY <2>1
<1>3. OwnTools(t, n) \in [1 .. n -> ToolNames]
  BY <1>2 DEF OwnTools
<1>. QED BY <1>3, IsASeq, LenProperties DEF OwnTools

\* The window shows a repeat exactly when the calls do.
LEMMA WindowShows ==
    ASSUME Asked, NEW t \in Turns, NEW n \in Nat \ {0}, n <= Len(Script(t)),
           NEW w \in Seq(ToolNames), LastOf(w, t, n)
    PROVE  TrailingRepeat(w) >= RepeatThreshold <=> TrailingRepeat(OwnTools(t, n)) >= RepeatThreshold
<1>. DEFINE a == OwnTools(t, n)
            k == Len(w)
            r == RepeatThreshold
<1>1. a \in Seq(ToolNames) /\ Len(a) = n /\ k \in Nat /\ r \in Nat \ {0} /\ r <= Window /\ Window \in Nat
  BY OwnToolsType, LenProperties, HarnessLimits
<1>2. /\ k <= n /\ (k = n \/ k = Window)
      /\ \A i \in 1 .. k : w[i] = a[n - k + i]
  <2>1. k <= n /\ (k = n \/ k = Window) /\ \A i \in 1 .. k : w[i] = Script(t)[n - k + i].tool
    BY DEF LastOf
  <2>2. \A i \in 1 .. k : n - k + i \in 1 .. n
    <3>. HIDE DEF k
    <3>. QED BY <1>1, <2>1
  <2>. QED BY <2>1, <2>2 DEF OwnTools
<1>3. k > 0 => Last(w) = Last(a)
  <2>1. Last(w) = w[k] /\ Last(a) = a[n]
    BY <1>1 DEF Last
  <2>2. k > 0 => w[k] = a[n]
    <3>. HIDE DEF k, a
    <3>. QED BY <1>1, <1>2
  <2>. QED BY <2>1, <2>2
<1>4. /\ TrailingRepeat(w) >= r <=> (r <= k /\ \A i \in k - r + 1 .. k : w[i] = Last(w))
      /\ TrailingRepeat(a) >= r <=> (r <= n /\ \A i \in n - r + 1 .. n : a[i] = Last(a))
  BY <1>1, TrailingIs
<1>5. r <= k <=> r <= n
  <2>. HIDE DEF k
  <2>. QED BY <1>1, <1>2
<1>6. ASSUME r <= k
      PROVE  (\A i \in k - r + 1 .. k : w[i] = Last(w)) <=> (\A i \in n - r + 1 .. n : a[i] = Last(a))
  <2>. DEFINE x == Last(a)
  <2>1. Last(w) = x
    BY <1>1, <1>3, <1>6
  <2>. HIDE DEF k, a, x, r
  <2>2. ASSUME \A i \in k - r + 1 .. k : w[i] = x, NEW j \in n - r + 1 .. n PROVE a[j] = x
    <3>1. j - (n - k) \in k - r + 1 .. k /\ j - (n - k) \in 1 .. k /\ n - k + (j - (n - k)) = j
      BY <1>1, <1>2, <1>6
    <3>. QED BY <1>2, <2>2, <3>1
  <2>3. ASSUME \A i \in n - r + 1 .. n : a[i] = x, NEW j \in k - r + 1 .. k PROVE w[j] = x
    <3>1. j \in 1 .. k /\ n - k + j \in n - r + 1 .. n
      BY <1>1, <1>2, <1>6
    <3>. QED BY <1>2, <2>3, <3>1
  <2>. QED BY <2>1, <2>2, <2>3 DEF x
<1>. DEFINE P == \A i \in k - r + 1 .. k : w[i] = Last(w)
            Q == \A i \in n - r + 1 .. n : a[i] = Last(a)
<1>7. /\ TrailingRepeat(w) >= r <=> (r <= k /\ P)
      /\ TrailingRepeat(a) >= r <=> (r <= n /\ Q)
      /\ r <= k => (P <=> Q)
  BY <1>4, <1>6
<1>. HIDE DEF P, Q
<1>. QED BY <1>5, <1>7

\* The window after one more call.
LEMMA WindowSlides ==
    ASSUME Asked, NEW t \in Turns, NEW n \in Nat, n < Len(Script(t)), NEW w \in Seq(ToolNames), LastOf(w, t, n)
    PROVE  LET calls == Append(w, Script(t)[n + 1].tool)
               recent == IF Len(calls) > Window THEN Tail(calls) ELSE calls
           IN  recent \in Seq(ToolNames) /\ LastOf(recent, t, n + 1)
<1>. DEFINE c == Script(t)[n + 1].tool
            k == Len(w)
            calls == Append(w, c)
            recent == IF Len(calls) > Window THEN Tail(calls) ELSE calls
<1>1. k \in Nat /\ Window \in Nat /\ Window > 0 /\ Len(Script(t)) \in Nat
  BY LenProperties, HarnessLimits, IntentOf
<1>2. c \in ToolNames
  <2>1. OwnTools(t, n + 1) \in Seq(ToolNames) /\ Len(OwnTools(t, n + 1)) = n + 1
    BY <1>1, OwnToolsType
  <2>2. OwnTools(t, n + 1)[n + 1] \in ToolNames
    BY <2>1, ElementOfSeq
  <2>. QED BY <2>2 DEF OwnTools
<1>3. /\ k <= n /\ k <= Window /\ (k = n \/ k = Window)
      /\ \A i \in 1 .. k : w[i] = Script(t)[n - k + i].tool
  BY DEF LastOf
<1>4. /\ calls \in Seq(ToolNames) /\ calls # << >> /\ Len(calls) = k + 1
      /\ \A i \in 1 .. k : calls[i] = w[i]
      /\ calls[k + 1] = c
  <2>. HIDE DEF c
  <2>. QED BY <1>2, AppendProperties, LenProperties
<1>5. \A i \in 1 .. k + 1 : calls[i] = Script(t)[n - k + i].tool
  <2>1. c = Script(t)[n - k + (k + 1)].tool
    <3>1. n - k + (k + 1) = n + 1
      BY <1>1
    <3>. QED BY <3>1
  <2>. SUFFICES ASSUME NEW i \in 1 .. k + 1 PROVE calls[i] = Script(t)[n - k + i].tool
    OBVIOUS
  <2>. HIDE DEF calls, c, k
  <2>2. i \in 1 .. k \/ i = k + 1
    BY <1>1
  <2>. QED BY <1>3, <1>4, <2>1, <2>2
<1>6. CASE k + 1 > Window
  <2>1. /\ Tail(calls) \in Seq(ToolNames) /\ Len(Tail(calls)) = k
        /\ \A i \in 1 .. k : Tail(calls)[i] = calls[i + 1]
    <3>. HIDE DEF calls
    <3>. QED BY <1>1, <1>4, HeadTailProperties
  <2>2. recent = Tail(calls) /\ k = Window
    BY <1>1, <1>3, <1>4, <1>6
  <2>3. \A i \in 1 .. k : Tail(calls)[i] = Script(t)[n + 1 - k + i].tool
    <3>. SUFFICES ASSUME NEW i \in 1 .. k PROVE Tail(calls)[i] = Script(t)[n + 1 - k + i].tool
      OBVIOUS
    <3>. HIDE DEF calls, k
    <3>1. i + 1 \in 1 .. k + 1 /\ n - k + (i + 1) = n + 1 - k + i
      BY <1>1
    <3>. QED BY <1>5, <2>1, <3>1
  <2>. HIDE DEF calls, recent, k
  <2>4. LastOf(recent, t, n + 1)
    BY <1>1, <1>3, <2>1, <2>2, <2>3 DEF LastOf
  <2>. QED BY <2>1, <2>2, <2>4 DEF recent, calls
<1>7. CASE ~(k + 1 > Window)
  <2>1. recent = calls
    BY <1>4, <1>7
  <2>2. k = n
    BY <1>1, <1>3, <1>7
  <2>. HIDE DEF calls, recent, k
  <2>3. \A i \in 1 .. k + 1 : calls[i] = Script(t)[n + 1 - (k + 1) + i].tool
    <3>. SUFFICES ASSUME NEW i \in 1 .. k + 1 PROVE calls[i] = Script(t)[n + 1 - (k + 1) + i].tool
      OBVIOUS
    <3>1. n - k + i = n + 1 - (k + 1) + i
      BY <1>1
    <3>. QED BY <1>5, <3>1
  <2>4. LastOf(recent, t, n + 1)
    BY <1>1, <1>4, <1>7, <2>1, <2>2, <2>3 DEF LastOf
  <2>. QED BY <1>4, <2>1, <2>4 DEF recent, calls
<1>. QED BY <1>6, <1>7

Overlapped(t) == Excusable({"overlap"}, t)

\* The turn is at a tool call that it has counted, and the drift detector has not observed.
Busy(t) == at[t] \in InTool \/ sub[t]

Follows(t) ==
    /\ LastOf(Tools(t), t, used[t])
    /\ Busy(t) => Trace(t) = [by |-> t, rounds |-> used[t] - 1]
    /\ ~Busy(t) => Trace(t) = [by |-> t, rounds |-> used[t]]

Judged(t) ==
    /\ \A i \in 1 .. used[t] : i \in hinted[t] <=> OwnRepeat(t, i) >= RepeatThreshold
    /\ judged[t] \subseteq {[by |-> t, rounds |-> Len(Script(t))]}
    /\ at[t] = "rescoping" /\ used[t] > 0 /\ used[t] % CheckInterval = 0 => judged[t] # {}

SeesOwn(t) ==
    /\ at[t] = "idle" => used[t] = 0 /\ judged[t] = {}
    /\ hinted[t] \subseteq 1 .. used[t]
    /\ Overlapped(t) \/ (Judged(t) /\ (Open(t) => Follows(t)))

Used(p, s) == \E d \in Turns : Open(d) /\ Process(d) = p /\ Session(d) = s

\* Where no turn is under way, nothing is left of the turns before.
AtRest ==
    \A p \in Processes : \A s \in Sessions : ~Used(p, s) => window[p][s] = << >> /\ trace[p][s] = NoTrace

Alone ==
    \A t, d \in Turns :
        t # d /\ Open(t) /\ Open(d) /\ Process(t) = Process(d) /\ Session(t) = Session(d) => Overlapped(t)

HarnessInv == AtRest /\ Alone /\ \A t \in Turns : SeesOwn(t)

\* A step leaves the windows and traces of the other sessions and processes alone, and the other turns.
Elsewhere(t) ==
    /\ \A p \in Processes : \A s \in Sessions : ~(p = Process(t) /\ s = Session(t)) =>
           window'[p][s] = window[p][s] /\ trace'[p][s] = trace[p][s]
    /\ \A d \in Turns : d # t => /\ used'[d] = used[d] /\ hinted'[d] = hinted[d] /\ judged'[d] = judged[d]
                                 /\ sub'[d] = sub[d] /\ at'[d] = at[d]
    /\ UNCHANGED ask /\ excuse \subseteq excuse'

LEMMA OverlappedStays ==
    ASSUME excuse \subseteq excuse', NEW d, Overlapped(d)
    PROVE  Overlapped(d)'
BY DEF Overlapped, Excusable

\* A turn whose detectors and whose own state are what they were.
LEMMA SeesOwnStays ==
    ASSUME NEW d \in Turns, SeesOwn(d), UNCHANGED ask, excuse \subseteq excuse',
           used'[d] = used[d], hinted'[d] = hinted[d], judged'[d] = judged[d], Busy(d)' = Busy(d),
           at'[d] # "idle" \/ at[d] = "idle", at'[d] # "rescoping" \/ at[d] = "rescoping",
           Open(d)' => Open(d) /\ (Overlapped(d) \/ (Tools(d)' = Tools(d) /\ Trace(d)' = Trace(d)))
    PROVE  SeesOwn(d)'
<1>1. Overlapped(d) => Overlapped(d)'
  BY OverlappedStays
<1>2. \A i : OwnRepeat(d, i)' = OwnRepeat(d, i)
  BY DEF OwnRepeat, TrailingRepeat
<1>3. Script(d)' = Script(d)
  BY DEF Script
<1>4. Judged(d) => Judged(d)'
  BY <1>2, <1>3 DEF Judged
<1>5. Open(d)' /\ ~Overlapped(d) /\ Follows(d) => Follows(d)'
  BY <1>3 DEF Follows, LastOf
<1>. QED BY <1>1, <1>4, <1>5 DEF SeesOwn

LEMMA HarnessStep ==
    ASSUME Asked, CallTypes, HarnessInv, NEW t \in Turns, NEW x \in Steps, at' = [at EXCEPT ![t] = x],
           Elsewhere(t), Open(t), SeesOwn(t)', x # "idle",
           x \in {"end", "down"} => Tools(t)' = << >> /\ Trace(t)' = NoTrace
    PROVE  HarnessInv'
<1>1. /\ at'[t] = x /\ \A d \in Turns : d # t => at'[d] = at[d]
      /\ \A d \in Turns : Process(d)' = Process(d) /\ Session(d)' = Session(d)
      /\ \A d \in Turns : Open(d)' => Open(d)
  BY DEF CallTypes, Elsewhere, Process, Session, Open
<1>2. Process(t) \in Processes /\ Session(t) \in Sessions
  BY IntentOf
<1>3. AtRest'
  <2>. SUFFICES ASSUME NEW p \in Processes, NEW s \in Sessions, ~Used(p, s)'
                PROVE  window'[p][s] = << >> /\ trace'[p][s] = NoTrace
    BY DEF AtRest
  <2>1. CASE p = Process(t) /\ s = Session(t)
    <3>1. ~Open(t)'
      BY <1>1, <2>1 DEF Used
    <3>2. x \in {"end", "down"}
      BY <1>1, <3>1 DEF Open
    <3>. QED BY <1>1, <2>1, <3>2 DEF Tools, Trace
  <2>2. CASE ~(p = Process(t) /\ s = Session(t))
    <3>1. ~Used(p, s)
      BY <1>1, <2>2 DEF Used, Open
    <3>. QED BY <2>2, <3>1 DEF HarnessInv, AtRest, Elsewhere
  <2>. QED BY <2>1, <2>2
<1>4. Alone'
  BY <1>1, OverlappedStays DEF HarnessInv, Alone, Elsewhere
<1>5. ASSUME NEW d \in Turns, d # t PROVE SeesOwn(d)'
  <2>1. Open(d)' => Overlapped(d) \/ (Tools(d)' = Tools(d) /\ Trace(d)' = Trace(d))
    <3>1. CASE Open(d) /\ Process(d) = Process(t) /\ Session(d) = Session(t)
      BY <1>5, <3>1 DEF HarnessInv, Alone
    <3>2. CASE ~(Process(d) = Process(t) /\ Session(d) = Session(t))
      <4>1. Process(d) \in Processes /\ Session(d) \in Sessions
        BY IntentOf
      <4>2. window'[Process(d)][Session(d)] = window[Process(d)][Session(d)]
            /\ trace'[Process(d)][Session(d)] = trace[Process(d)][Session(d)]
        BY <3>2, <4>1 DEF Elsewhere
      <4>. QED BY <1>1, <4>2 DEF Tools, Trace
    <3>. QED BY <1>1, <3>1, <3>2
  <2>2. Busy(d)' = Busy(d) /\ at'[d] = at[d]
    BY <1>1, <1>5 DEF Elsewhere, Busy
  <2>3. Open(d)' => Open(d)
    BY <1>1
  <2>. QED BY <1>5, <2>1, <2>2, <2>3, SeesOwnStays DEF HarnessInv, Elsewhere
<1>. QED BY <1>3, <1>4, <1>5 DEF HarnessInv

\* Steps that touch neither detector.
Unobserved == UNCHANGED <<ask, window, trace, used, hinted, judged, sub>> /\ excuse \subseteq excuse'

LEMMA UnobservedElsewhere ==
    ASSUME CallTypes, NEW t \in Turns, NEW x, at' = [at EXCEPT ![t] = x], Unobserved
    PROVE  Elsewhere(t)
BY DEF Elsewhere, Unobserved, CallTypes

LEMMA HarnessPasses ==
    ASSUME Asked, CallTypes, HarnessInv, NEW t \in Turns, NEW x \in Steps, at' = [at EXCEPT ![t] = x],
           Unobserved, Open(t), x \notin {"idle", "rescoping", "end", "down"},
           x \in InTool <=> at[t] \in InTool
    PROVE  HarnessInv'
<1>1. Elsewhere(t)
  BY UnobservedElsewhere
<1>2. at'[t] = x /\ at[t] # "idle"
  BY DEF CallTypes, Open
<1>3. Tools(t)' = Tools(t) /\ Trace(t)' = Trace(t) /\ Busy(t)' = Busy(t)
  BY <1>2 DEF Unobserved, Tools, Trace, Busy, Process, Session
<1>4. SeesOwn(t)'
  BY <1>2, <1>3, SeesOwnStays DEF HarnessInv, Unobserved
<1>. QED BY <1>1, <1>4, HarnessStep

(* The turn starts: its session of the process is at rest, or it is excused. *)
LEMMA StartHarness ==
    ASSUME TurnInv, HarnessInv, RequestInv, NEW t \in Turns, Start(t), UNCHANGED ask
    PROVE  HarnessInv'
<1>. DEFINE p == Process(t)
            s == Session(t)
<1>1. PICK x \in {"restoring", "scoping"} : at[t] = "idle" /\ at' = [at EXCEPT ![t] = x]
  BY DEF Start, Step
<1>2. p \in Processes /\ s \in Sessions
  BY IntentOf DEF TurnInv
<1>3. /\ UNCHANGED <<window, used, hinted, judged, sub>>
      /\ excuse \subseteq excuse'
      /\ Here(t) # {} => \A d \in Here(t) \cup {t} : <<"overlap", d>> \in excuse'
      /\ StartTrace(t)
  BY DEF Start, modelVars, Excused
<1>4. /\ at'[t] = x /\ \A d \in Turns : d # t => at'[d] = at[d]
      /\ \A d \in Turns : Process(d)' = Process(d) /\ Session(d)' = Session(d)
  BY <1>1 DEF TurnInv, CallTypes, Process, Session
<1>5. Elsewhere(t)
  <2>1. trace \in [Processes -> [Sessions -> Traces]]
    BY DEF TurnInv, SharedTypes
  <2>2. \A q \in Processes : \A r \in Sessions : ~(q = p /\ r = s) => trace'[q][r] = trace[q][r]
    BY <1>2, <1>3, <2>1 DEF StartTrace, SetTrace
  <2>. QED BY <1>3, <1>4, <2>2 DEF Elsewhere
<1>6. Here(t) # {} => Overlapped(t)' /\ \A d \in Here(t) : Overlapped(d)'
  BY <1>3 DEF Overlapped, Excusable
<1>7. Here(t) = {} => ~Used(p, s)
  BY <1>1 DEF Here, Used, Open
<1>8. SeesOwn(t)'
  <2>1. used'[t] = 0 /\ judged'[t] = {}
    BY <1>1, <1>3 DEF HarnessInv, SeesOwn
  <2>2. Judged(t)'
    BY <1>1, <1>4, <2>1 DEF Judged
  <2>3. ASSUME Here(t) = {} PROVE Follows(t)'
    <3>1. Tools(t) = << >> /\ Trace(t) = NoTrace
      BY <1>2, <1>7, <2>3 DEF HarnessInv, AtRest, Tools, Trace
    <3>2. Tools(t)' = << >>
      BY <1>3, <1>4, <3>1 DEF Tools
    <3>3. trace' = [trace EXCEPT ![p][s] = [Trace(t) EXCEPT !.by = t]]
      BY <1>3, <3>1 DEF StartTrace, SetTrace, NoTrace
    <3>4. Trace(t)' = [by |-> t, rounds |-> 0]
      <4>1. trace'[p][s] = [Trace(t) EXCEPT !.by = t]
        BY <1>2, <3>3 DEF TurnInv, SharedTypes
      <4>. QED BY <1>4, <3>1, <4>1 DEF Trace, NoTrace
    <3>5. ~Busy(t)'
      BY <1>1, <1>3, <1>4 DEF Busy, InTool, RequestInv, CallFollowed, Holding
    <3>6. LastOf(Tools(t), t, used[t])'
      BY <2>1, <3>2, HarnessLimits DEF LastOf
    <3>. QED BY <2>1, <3>4, <3>5, <3>6 DEF Follows
  <2>4. hinted'[t] \subseteq 1 .. used'[t]
    BY <1>3 DEF HarnessInv, SeesOwn
  <2>. QED BY <1>1, <1>4, <1>6, <2>1, <2>2, <2>3, <2>4 DEF SeesOwn
<1>9. ASSUME NEW d \in Turns, d # t PROVE SeesOwn(d)'
  <2>1. CASE d \in Here(t)
    <3>1. Overlapped(d)' /\ at'[d] # "idle"
      BY <1>4, <1>6, <1>9, <2>1 DEF Here, Open
    <3>. QED BY <1>3, <3>1 DEF HarnessInv, SeesOwn
  <2>2. CASE d \notin Here(t)
    <3>1. Open(d) => Tools(d)' = Tools(d) /\ Trace(d)' = Trace(d)
      <4>1. Process(d) \in Processes /\ Session(d) \in Sessions
        BY IntentOf DEF TurnInv
      <4>2. Open(d) => ~(Process(d) = p /\ Session(d) = s)
        BY <1>9, <2>2 DEF Here
      <4>. QED BY <1>4, <1>5, <4>1, <4>2 DEF Elsewhere, Tools, Trace
    <3>2. Busy(d)' = Busy(d) /\ at'[d] = at[d] /\ (Open(d)' => Open(d))
      BY <1>4, <1>5, <1>9 DEF Elsewhere, Busy, Open
    <3>. QED BY <1>5, <1>9, <3>1, <3>2, SeesOwnStays DEF HarnessInv, Elsewhere
  <2>. QED BY <2>1, <2>2
<1>10. AtRest'
  <2>. SUFFICES ASSUME NEW q \in Processes, NEW r \in Sessions, ~Used(q, r)'
                PROVE  window'[q][r] = << >> /\ trace'[q][r] = NoTrace
    BY DEF AtRest
  <2>1. Open(t)'
    BY <1>4 DEF Open
  <2>2. ~(q = p /\ r = s)
    BY <1>4, <2>1 DEF Used
  <2>3. ~Used(q, r)
    BY <1>1, <1>4 DEF Used, Open
  <2>. QED BY <1>5, <2>2, <2>3 DEF HarnessInv, AtRest, Elsewhere
<1>11. Alone'
  <2>. SUFFICES ASSUME NEW c \in Turns, NEW d \in Turns, c # d, Open(c)', Open(d)',
                       Process(c) = Process(d), Session(c) = Session(d)
                PROVE  Overlapped(c)'
    BY <1>4 DEF Alone
  <2>1. CASE c = t
    <3>1. d \in Here(t)
      BY <1>4, <2>1 DEF Here, Open
    <3>. QED BY <1>6, <2>1, <3>1
  <2>2. CASE d = t
    <3>1. c \in Here(t)
      BY <1>4, <2>2 DEF Here, Open
    <3>. QED BY <1>6, <3>1
  <2>3. CASE c # t /\ d # t
    <3>1. Open(c) /\ Open(d)
      BY <1>4, <2>3 DEF Open
    <3>. QED BY <1>3, <3>1, OverlappedStays DEF HarnessInv, Alone
  <2>. QED BY <2>1, <2>2, <2>3
<1>. QED BY <1>8, <1>9, <1>10, <1>11 DEF HarnessInv

(* The loop detector records the call and counts. *)
LEMMA CheckHarness ==
    ASSUME TurnInv, HarnessInv, RequestInv, NEW t \in Turns, Check(t), UNCHANGED ask
    PROVE  HarnessInv'
<1>. DEFINE p == Process(t)
            s == Session(t)
            n == used[t]
            tool == Script(t)[n + 1].tool
            calls == Append(Tools(t), tool)
            recent == IF Len(calls) > Window THEN Tail(calls) ELSE calls
<1>1. at[t] = "checking" /\ at' = [at EXCEPT ![t] = "acting"] /\ "acting" \in Steps
  BY DEF Check, Step, Steps
<1>2. n \in Nat /\ n < Len(Script(t)) /\ Len(Script(t)) \in Nat /\ used' = [used EXCEPT ![t] = n + 1]
      /\ p \in Processes /\ s \in Sessions
  BY <1>1, IntentOf DEF TurnInv, OwnTypes, ScriptFollowed, Check
<1>3. /\ window' = [window EXCEPT ![p][s] = recent]
      /\ hinted' = IF TrailingRepeat(recent) >= RepeatThreshold
                   THEN [hinted EXCEPT ![t] = @ \cup {n + 1}] ELSE hinted
      /\ UNCHANGED <<trace, judged, sub, excuse>>
  BY DEF Check, Script, modelVars
<1>4. /\ at'[t] = "acting" /\ used'[t] = n + 1 /\ window'[p][s] = recent
      /\ (n + 1 \in hinted'[t] <=> (TrailingRepeat(recent) >= RepeatThreshold \/ n + 1 \in hinted[t]))
      /\ \A i \in 1 .. n : i \in hinted'[t] <=> i \in hinted[t]
  <2>1. at'[t] = "acting" /\ used'[t] = n + 1
    BY <1>1, <1>2 DEF TurnInv, CallTypes, OwnTypes
  <2>2. window'[p][s] = recent
    <3>. HIDE DEF recent
    <3>. QED BY <1>2, <1>3 DEF TurnInv, SharedTypes
  <2>3. hinted'[t] = IF TrailingRepeat(recent) >= RepeatThreshold THEN hinted[t] \cup {n + 1} ELSE hinted[t]
    <3>. HIDE DEF recent, n
    <3>. QED BY <1>3 DEF TurnInv, GhostTypes
  <2>4. \A i \in 1 .. n : i # n + 1
    BY <1>2
  <2>. HIDE DEF recent, n
  <2>. QED BY <2>1, <2>2, <2>3, <2>4
<1>5. Elsewhere(t)
  <2>1. \A q \in Processes : \A r \in Sessions : ~(q = p /\ r = s) => window'[q][r] = window[q][r]
    <3>. HIDE DEF recent
    <3>. QED BY <1>2, <1>3 DEF TurnInv, SharedTypes
  <2>2. \A d \in Turns : d # t => hinted'[d] = hinted[d]
    <3>. HIDE DEF recent, n
    <3>. QED BY <1>3 DEF TurnInv, GhostTypes
  <2>3. \A d \in Turns : d # t => used'[d] = used[d] /\ at'[d] = at[d]
    BY <1>1, <1>2 DEF TurnInv, CallTypes, OwnTypes
  <2>. QED BY <1>3, <2>1, <2>2, <2>3 DEF Elsewhere
<1>6. SeesOwn(t)'
  <2>0. hinted'[t] \subseteq 1 .. used'[t]
    <3>1. hinted[t] \subseteq 1 .. n
      BY DEF HarnessInv, SeesOwn
    <3>2. hinted'[t] \subseteq hinted[t] \cup {n + 1}
      <4>. HIDE DEF recent, n
      <4>. QED BY <1>3 DEF TurnInv, GhostTypes
    <3>3. 1 .. n \subseteq 1 .. n + 1 /\ n + 1 \in 1 .. n + 1
      BY <1>2
    <3>. HIDE DEF recent, n
    <3>. QED BY <1>4, <3>1, <3>2, <3>3
  <2>1. CASE Overlapped(t)
    BY <1>3, <1>4, <2>0, <2>1, OverlappedStays DEF SeesOwn
  <2>2. CASE ~Overlapped(t)
    <3>1. Judged(t) /\ Follows(t)
      BY <1>1, <2>2 DEF HarnessInv, SeesOwn, Open
    <3>2. ~Busy(t) /\ Busy(t)'
      BY <1>1, <1>4 DEF Busy, InTool, RequestInv, CallFollowed, Holding
    <3>3. Tools(t) \in Seq(ToolNames) /\ Tools(t)' = recent /\ Trace(t)' = Trace(t)
      BY <1>2, <1>3, <1>4 DEF TurnInv, SharedTypes, Tools, Trace, Process, Session
    <3>4. recent \in Seq(ToolNames) /\ LastOf(recent, t, n + 1)
      BY <1>2, <3>1, <3>3, WindowSlides DEF Follows, TurnInv
    <3>5. TrailingRepeat(recent) >= RepeatThreshold <=> OwnRepeat(t, n + 1) >= RepeatThreshold
      <4>1. OwnTools(t, n + 1) = [j \in 1 .. n + 1 |-> ask[t].script[j].tool]
        BY DEF OwnTools, Script
      <4>2. n + 1 \in Nat \ {0} /\ n + 1 <= Len(Script(t))
        BY <1>2
      <4>. HIDE DEF recent, n
      <4>. QED BY <3>4, <4>1, <4>2, WindowShows DEF OwnRepeat, TurnInv
    <3>6. n + 1 \notin hinted[t]
      BY <1>2 DEF HarnessInv, SeesOwn
    <3>7. Judged(t)'
      <4>1. \A i : OwnRepeat(t, i)' = OwnRepeat(t, i)
        BY DEF OwnRepeat, TrailingRepeat
      <4>2. \A i \in 1 .. n + 1 : i \in hinted'[t] <=> OwnRepeat(t, i) >= RepeatThreshold
        <5>1. \A i \in 1 .. n + 1 : i \in 1 .. n \/ i = n + 1
          BY <1>2
        <5>. HIDE DEF recent, n
        <5>. QED BY <1>4, <3>1, <3>5, <3>6, <5>1 DEF Judged, n
      <4>3. judged'[t] = judged[t] /\ Script(t)' = Script(t)
        BY <1>3 DEF Script
      <4>. QED BY <1>4, <3>1, <4>1, <4>2, <4>3 DEF Judged
    <3>8. Follows(t)'
      <4>1. LastOf(Tools(t), t, used[t])'
        <5>1. Script(t)' = Script(t)
          BY DEF Script
        <5>. HIDE DEF recent, n
        <5>. QED BY <1>4, <3>3, <3>4, <5>1 DEF LastOf
      <4>2. used'[t] - 1 = n
        BY <1>2, <1>4
      <4>3. Trace(t)' = [by |-> t, rounds |-> n]
        BY <3>1, <3>2, <3>3 DEF Follows
      <4>4. Busy(t)'
        BY <3>2
      <4>. HIDE DEF recent, n
      <4>. QED BY <4>1, <4>2, <4>3, <4>4 DEF Follows
    <3>. QED BY <1>4, <2>0, <3>7, <3>8 DEF SeesOwn
  <2>. QED BY <2>1, <2>2
<1>7. Open(t)
  BY <1>1 DEF Open
<1>. QED BY <1>1, <1>5, <1>6, <1>7, HarnessStep DEF TurnInv

(* A tool call ends, and the drift detector observes it. *)
LEMMA ObservingHarness ==
    ASSUME TurnInv, HarnessInv, NEW t \in Turns, Open(t), at' = [at EXCEPT ![t] = "asking"],
           Observe(t), Busy(t), ~Busy(t)', excuse \subseteq excuse',
           UNCHANGED <<ask, window, used, hinted, judged>>, \A d \in Turns : d # t => sub'[d] = sub[d]
    PROVE  HarnessInv'
<1>. DEFINE p == Process(t)
            s == Session(t)
<1>1. /\ at'[t] = "asking" /\ "asking" \in Steps /\ at[t] # "idle" /\ p \in Processes /\ s \in Sessions
      /\ \A d \in Turns : d # t => at'[d] = at[d]
  BY IntentOf DEF TurnInv, CallTypes, Steps, Open
<1>2. trace' = [trace EXCEPT ![p][s] = [Trace(t) EXCEPT !.rounds = @ + 1]]
  BY DEF Observe, SetTrace
<1>3. Elsewhere(t)
  <2>1. \A q \in Processes : \A r \in Sessions : ~(q = p /\ r = s) => trace'[q][r] = trace[q][r]
    BY <1>1, <1>2 DEF TurnInv, SharedTypes
  <2>. QED BY <1>1, <2>1 DEF Elsewhere
<1>4. SeesOwn(t)'
  <2>1. hinted'[t] \subseteq 1 .. used'[t]
    BY DEF HarnessInv, SeesOwn
  <2>2. CASE Overlapped(t)
    BY <1>1, <2>1, <2>2, OverlappedStays DEF SeesOwn
  <2>3. CASE ~Overlapped(t)
    <3>1. Judged(t) /\ Follows(t)
      BY <2>3 DEF HarnessInv, SeesOwn
    <3>2. Judged(t)'
      <4>1. \A i : OwnRepeat(t, i)' = OwnRepeat(t, i)
        BY DEF OwnRepeat, TrailingRepeat
      <4>. QED BY <1>1, <3>1, <4>1 DEF Judged, Script
    <3>3. Trace(t)' = [Trace(t) EXCEPT !.rounds = @ + 1]
      <4>1. trace'[p][s] = [Trace(t) EXCEPT !.rounds = @ + 1]
        BY <1>1, <1>2 DEF TurnInv, SharedTypes
      <4>. QED BY <4>1 DEF Trace, Process, Session
    <3>4. Trace(t)' = [by |-> t, rounds |-> used[t]]
      <4>1. Trace(t) = [by |-> t, rounds |-> used[t] - 1]
        BY <3>1 DEF Follows
      <4>2. used[t] - 1 + 1 = used[t]
        BY DEF TurnInv, OwnTypes
      <4>. QED BY <3>3, <4>1, <4>2
    <3>5. LastOf(Tools(t), t, used[t])'
      BY <3>1 DEF Follows, LastOf, Tools, Script, Process, Session
    <3>. QED BY <1>1, <2>1, <3>2, <3>4, <3>5 DEF SeesOwn, Follows
  <2>. QED BY <2>2, <2>3
<1>. QED BY <1>1, <1>3, <1>4, HarnessStep DEF TurnInv

LEMMA ToolsHarness ==
    ASSUME TurnInv, HarnessInv, RequestInv, NEW t \in Turns, UNCHANGED ask,
           \/ ReadFile(t) \/ OpenFile(t) \/ FillFile(t) \/ Dispatch(t)
           \/ \E o \in Outcomes : Remembers(t, o)
    PROVE  HarnessInv'
<1>1. at[t] \in InTool /\ Open(t) /\ ~sub[t]
  BY DEF ReadFile, OpenFile, FillFile, Dispatch, Remembers, Step, InTool, Open, RequestInv, CallFollowed, Holding
<1>2. UNCHANGED <<window, used, hinted, judged>>
  BY DEF ReadFile, OpenFile, FillFile, Dispatch, Remembers, shared, own, ghosts
<1>3. excuse \subseteq excuse'
  BY DEF ReadFile, OpenFile, FillFile, Dispatch, Remembers, Overwrite, ghosts
<1>4. CASE Dispatch(t)
  <2>1. at' = [at EXCEPT ![t] = "asking"] /\ sub' = [sub EXCEPT ![t] = TRUE] /\ trace' = trace
    BY <1>4 DEF Dispatch, Step, shared
  <2>2. at'[t] = "asking" /\ sub'[t] /\ \A d \in Turns : d # t => at'[d] = at[d] /\ sub'[d] = sub[d]
    BY <2>1 DEF TurnInv, CallTypes
  <2>3. Elsewhere(t)
    BY <1>2, <1>3, <2>1, <2>2 DEF Elsewhere
  <2>4. SeesOwn(t)'
    <3>1. Busy(t)' = Busy(t)
      BY <1>1, <2>2 DEF Busy
    <3>. QED BY <1>1, <1>2, <1>3, <2>1, <2>2, <3>1, SeesOwnStays
             DEF HarnessInv, InTool, Tools, Trace, Process, Session
  <2>. QED BY <1>1, <2>1, <2>3, <2>4, HarnessStep DEF TurnInv, Steps
<1>5. CASE ~Dispatch(t)
  <2>1. sub' = sub
    BY <1>5 DEF ReadFile, OpenFile, FillFile, Remembers, modelVars
  <2>2. \/ at' = [at EXCEPT ![t] = "asking"] /\ Observe(t)
        \/ \E x \in {"opening", "filling"} : at' = [at EXCEPT ![t] = x] /\ trace' = trace
    BY <1>5 DEF ReadFile, OpenFile, FillFile, Remembers, Step, shared
  <2>3. CASE at' = [at EXCEPT ![t] = "asking"] /\ Observe(t)
    <3>1. Busy(t) /\ ~Busy(t)'
      BY <1>1, <2>1, <2>3 DEF Busy, InTool, TurnInv, CallTypes
    <3>. QED BY <1>1, <1>2, <1>3, <2>1, <2>3, <3>1, ObservingHarness
  <2>4. ASSUME NEW x \in {"opening", "filling"}, at' = [at EXCEPT ![t] = x], trace' = trace PROVE HarnessInv'
    <3>1. Unobserved
      BY <1>2, <1>3, <2>1, <2>4 DEF Unobserved
    <3>. QED BY <1>1, <2>4, <3>1, HarnessPasses DEF TurnInv, InTool, Steps
  <2>. QED BY <2>2, <2>3, <2>4
<1>. QED BY <1>4, <1>5

LEMMA DispatchedHarness ==
    ASSUME TurnInv, HarnessInv, NEW t \in Turns, Dispatched(t), UNCHANGED ask
    PROVE  HarnessInv'
<1>1. at[t] \in {"asking", "calling", "falling"} /\ at' = [at EXCEPT ![t] = "asking"] /\ sub[t] /\ Observe(t)
      /\ sub' = [sub EXCEPT ![t] = FALSE]
  BY DEF Dispatched, Answered, Raises, Holding
<1>2. UNCHANGED <<window, used, hinted, judged>> /\ excuse \subseteq excuse'
  BY DEF Dispatched, own, ghosts
<1>3. Open(t) /\ Busy(t) /\ ~Busy(t)' /\ \A d \in Turns : d # t => sub'[d] = sub[d]
  BY <1>1 DEF Open, Busy, InTool, TurnInv, CallTypes
<1>. QED BY <1>1, <1>2, <1>3, ObservingHarness

(* The main agent's call ends: the reply is judged. *)
LEMMA RepliedHarness ==
    ASSUME TurnInv, HarnessInv, NEW t \in Turns, Replied(t), UNCHANGED ask
    PROVE  HarnessInv'
<1>1. at[t] \in Holding /\ ~sub[t] /\ Open(t) /\ ~Busy(t)
  BY DEF Replied, Answered, Holding, Open, Busy, InTool
<1>2. UNCHANGED <<window, trace, used, hinted, sub>> /\ excuse \subseteq excuse'
  BY DEF Replied
<1>3. CASE used[t] < Len(Script(t))
  <2>1. at' = [at EXCEPT ![t] = "checking"] /\ judged' = judged
    BY <1>3 DEF Replied, Script
  <2>2. Unobserved
    BY <1>2, <2>1 DEF Unobserved
  <2>. QED BY <1>1, <2>1, <2>2, HarnessPasses DEF TurnInv, InTool, Steps, Holding
<1>4. CASE ~(used[t] < Len(Script(t)))
  <2>1. /\ at' = [at EXCEPT ![t] = "rescoping"]
        /\ judged' = IF Due(t) THEN [judged EXCEPT ![t] = @ \cup {Trace(t)}] ELSE judged
    BY <1>4 DEF Replied, Script
  <2>2. used[t] = Len(Script(t)) /\ used[t] \in Nat
    <3>1. used[t] \in Nat /\ used[t] <= Len(Script(t)) /\ Len(Script(t)) \in Nat
      BY IntentOf DEF TurnInv, OwnTypes, ScriptFollowed
    <3>. QED BY <1>4, <3>1
  <2>3. /\ at'[t] = "rescoping" /\ \A d \in Turns : d # t => at'[d] = at[d] /\ judged'[d] = judged[d]
        /\ judged'[t] = IF Due(t) THEN judged[t] \cup {Trace(t)} ELSE judged[t]
    BY <2>1 DEF TurnInv, CallTypes, GhostTypes
  <2>4. Elsewhere(t)
    BY <1>2, <2>3 DEF Elsewhere
  <2>5. SeesOwn(t)'
    <3>1. hinted'[t] \subseteq 1 .. used'[t]
      BY <1>2 DEF HarnessInv, SeesOwn
    <3>2. CASE Overlapped(t)
      BY <1>2, <2>3, <3>1, <3>2, OverlappedStays DEF SeesOwn
    <3>3. CASE ~Overlapped(t)
      <4>1. Judged(t) /\ Follows(t)
        BY <1>1, <3>3 DEF HarnessInv, SeesOwn
      <4>2. Trace(t) = [by |-> t, rounds |-> used[t]]
        BY <1>1, <4>1 DEF Follows
      <4>3. used[t] > 0 /\ used[t] % CheckInterval = 0 => Due(t)
        BY <4>2 DEF Due
      <4>4. Judged(t)'
        <5>1. \A i : OwnRepeat(t, i)' = OwnRepeat(t, i)
          BY DEF OwnRepeat, TrailingRepeat
        <5>2. judged'[t] \subseteq {[by |-> t, rounds |-> Len(Script(t))]}
          BY <2>2, <2>3, <4>1, <4>2 DEF Judged
        <5>3. used[t] > 0 /\ used[t] % CheckInterval = 0 => judged'[t] # {}
          BY <2>3, <4>3
        <5>. QED BY <1>2, <4>1, <5>1, <5>2, <5>3 DEF Judged, Script
      <4>5. Follows(t)'
        <5>1. ~Busy(t)'
          BY <1>1, <1>2, <2>3 DEF Busy, InTool
        <5>. QED BY <1>2, <4>1, <4>2, <5>1 DEF Follows, LastOf, Tools, Trace, Script, Process, Session
      <4>. QED BY <2>3, <3>1, <4>4, <4>5 DEF SeesOwn
    <3>. QED BY <3>2, <3>3
  <2>. QED BY <1>1, <2>1, <2>4, <2>5, HarnessStep DEF TurnInv, Steps
<1>. QED BY <1>3, <1>4

(* The turn ends, and its session with it. *)
LEMMA EndHarness ==
    ASSUME TurnInv, HarnessInv, NEW t \in Turns, EndTurn(t), at[t] \notin InTool, Open(t),
           excuse \subseteq excuse', UNCHANGED <<ask, used, hinted, judged, sub>>
    PROVE  HarnessInv'
<1>. DEFINE p == Process(t)
            s == Session(t)
<1>1. at' = [at EXCEPT ![t] = "end"] /\ window' = [window EXCEPT ![p][s] = << >>]
      /\ trace' = [trace EXCEPT ![p][s] = NoTrace]
  BY DEF EndTurn, Reset, SetTrace
<1>2. p \in Processes /\ s \in Sessions /\ at'[t] = "end" /\ \A d \in Turns : d # t => at'[d] = at[d]
  BY <1>1, IntentOf DEF TurnInv, CallTypes
<1>3. /\ window'[p][s] = << >> /\ trace'[p][s] = NoTrace
      /\ \A q \in Processes : \A r \in Sessions : ~(q = p /\ r = s) =>
             window'[q][r] = window[q][r] /\ trace'[q][r] = trace[q][r]
  BY <1>1, <1>2 DEF TurnInv, SharedTypes
<1>4. Elsewhere(t)
  BY <1>2, <1>3 DEF Elsewhere
<1>5. Tools(t)' = << >> /\ Trace(t)' = NoTrace
  BY <1>3 DEF Tools, Trace, Process, Session
<1>6. SeesOwn(t)'
  <2>1. ~Open(t)' /\ Busy(t)' = Busy(t)
    BY <1>2 DEF Open, Busy, InTool
  <2>. QED BY <1>2, <2>1, SeesOwnStays DEF HarnessInv
<1>. QED BY <1>1, <1>4, <1>5, <1>6, HarnessStep DEF TurnInv, Steps

LEMMA RowsHarness ==
    ASSUME TurnInv, HarnessInv, NEW t \in Turns, UNCHANGED ask,
           AppendLine(t) \/ \E o \in Outcomes : ReadNumber(t, o) \/ InsertRow(t, o)
    PROVE  HarnessInv'
<1>1. UNCHANGED <<used, hinted, judged, sub>> /\ excuse \subseteq excuse'
  BY DEF AppendLine, ReadNumber, InsertRow, modelVars, own, ghosts, Excused
<1>2. at[t] \in {"question", "reply", "question row", "reply row"}
  BY DEF AppendLine, ReadNumber, InsertRow
<1>3. Open(t) /\ at[t] \notin InTool
  BY <1>2 DEF Open, InTool
<1>4. EndTurn(t) \/ \E x \in {"question row", "reply row", "reply"} :
                       at' = [at EXCEPT ![t] = x] /\ UNCHANGED <<window, trace>>
  BY DEF AppendLine, ReadNumber, InsertRow
<1>5. CASE EndTurn(t)
  BY <1>1, <1>3, <1>5, EndHarness
<1>6. ASSUME NEW x \in {"question row", "reply row", "reply"}, at' = [at EXCEPT ![t] = x], UNCHANGED <<window, trace>>
      PROVE  HarnessInv'
  <2>1. Unobserved
    BY <1>1, <1>6 DEF Unobserved
  <2>. QED BY <1>3, <1>6, <2>1, HarnessPasses DEF TurnInv, InTool, Steps
<1>. QED BY <1>4, <1>5, <1>6

(* The other steps of a turn concern no detector. *)
LEMMA OthersHarness ==
    ASSUME TurnInv, HarnessInv, NEW t \in Turns, UNCHANGED ask,
           \/ Saves(t) \/ Asking(t) \/ ReplyRaises(t)
           \/ \E o \in Outcomes : \/ Restore(t, o) \/ ReadScope(t, o) \/ Lookup(t, o) \/ BuildInputs(t, o)
                                  \/ LoadEntries(t, o) \/ StoreEntries(t, o)
    PROVE  HarnessInv'
<1>. DEFINE Places == {"scoping", "looking", "building", "asking", "calling", "falling", "loading",
                       "storing", "persisting", "merging", "inserting", "updating", "saving", "question"}
            Goes == /\ \E x \in Places : at' = [at EXCEPT ![t] = x]
                    /\ at[t] \notin {"idle", "end", "down"} \cup InTool
            Same == UNCHANGED <<window, trace, used, hinted, judged, sub>> /\ excuse \subseteq excuse'
<1>1. CASE Saves(t)
  <2>1. Same
    BY <1>1, SavesKeeps DEF modelVars, shared, own
  <2>2. Goes
    BY <1>1, SavesKeeps DEF InSave, Dumped, InTool
  <2>. QED BY <2>1, <2>2, HarnessPasses DEF Unobserved, Open, TurnInv, InTool, Steps
<1>2. CASE Asking(t)
  <2>1. Same
    BY <1>2 DEF Asking, Acquire, Retry, shared, own, ghosts
  <2>2. Goes
    <3>1. at[t] \in {"asking", "calling"}
      BY <1>2 DEF Asking, Acquire, Retry
    <3>2. \E x \in Places : at' = [at EXCEPT ![t] = x]
      <4>1. CASE at' = at
        <5>1. at[t] \in Places /\ at' = [at EXCEPT ![t] = at[t]]
          BY <3>1, <4>1 DEF TurnInv, CallTypes
        <5>. QED BY <5>1
      <4>2. CASE at' # at
        BY <1>2, <4>2 DEF Asking, Acquire, Retry
      <4>. QED BY <4>1, <4>2
    <3>. QED BY <3>1, <3>2 DEF InTool
  <2>. QED BY <2>1, <2>2, HarnessPasses DEF Unobserved, Open, TurnInv, InTool, Steps
<1>3. CASE ReplyRaises(t)
  <2>1. Same
    BY <1>3 DEF ReplyRaises, shared, ghosts
  <2>2. Goes
    BY <1>3 DEF ReplyRaises, Raises, Holding, InTool
  <2>. QED BY <2>1, <2>2, HarnessPasses DEF Unobserved, Open, TurnInv, InTool, Steps
<1>4. ASSUME NEW o \in Outcomes, Restore(t, o) \/ ReadScope(t, o) \/ BuildInputs(t, o) PROVE HarnessInv'
  <2>1. Same
    BY <1>4 DEF Restore, ReadScope, BuildInputs, modelVars, shared, own, Excused, MisreadIf
  <2>2. Goes
    BY <1>4 DEF Restore, ReadScope, BuildInputs, Step, InTool
  <2>. QED BY <2>1, <2>2, HarnessPasses DEF Unobserved, Open, TurnInv, InTool, Steps
<1>5. ASSUME NEW o \in Outcomes, Lookup(t, o) \/ LoadEntries(t, o) \/ StoreEntries(t, o)
      PROVE  HarnessInv'
  <2>1. Same
    BY <1>5 DEF Lookup, LoadEntries, StoreEntries, modelVars, shared, own, ghosts
  <2>2. Goes
    BY <1>5 DEF Lookup, LoadEntries, StoreEntries, Step, InTool
  <2>. QED BY <2>1, <2>2, HarnessPasses DEF Unobserved, Open, TurnInv, InTool, Steps
<1>. QED BY <1>1, <1>2, <1>3, <1>4, <1>5

(* A process dies with its windows and traces; the turns of others go on. *)
LEMMA CrashHarness ==
    ASSUME TurnInv, HarnessInv, RequestInv, NEW p \in Processes, Crash(p), UNCHANGED ask
    PROVE  HarnessInv'
<1>1. /\ UNCHANGED <<used, hinted, judged>> /\ excuse \subseteq excuse'
      /\ \A d \in Turns : at'[d] = IF Process(d) = p /\ Open(d) THEN "down" ELSE at[d]
      /\ \A d \in Turns : ~(Process(d) = p /\ Open(d)) => (sub'[d] <=> sub[d])
      /\ \A d \in Turns : Process(d)' = Process(d) /\ Session(d)' = Session(d)
  BY DEF Crash, own, Process, Session, TurnInv, CallTypes
<1>2. /\ \A s \in Sessions : window'[p][s] = << >> /\ trace'[p][s] = NoTrace
      /\ \A q \in Processes : q # p => window'[q] = window[q] /\ trace'[q] = trace[q]
  BY DEF Crash, TurnInv, SharedTypes
<1>3. \A d \in Turns : Open(d)' <=> Open(d) /\ Process(d) # p
  BY <1>1 DEF Open
<1>4. AtRest'
  <2>. SUFFICES ASSUME NEW q \in Processes, NEW s \in Sessions, ~Used(q, s)'
                PROVE  window'[q][s] = << >> /\ trace'[q][s] = NoTrace
    BY DEF AtRest
  <2>1. CASE q = p
    BY <1>2, <2>1
  <2>2. CASE q # p
    <3>1. ~Used(q, s)
      BY <1>1, <1>3, <2>2 DEF Used
    <3>. QED BY <1>2, <2>2, <3>1 DEF HarnessInv, AtRest
  <2>. QED BY <2>1, <2>2
<1>5. Alone'
  BY <1>1, <1>3, OverlappedStays DEF HarnessInv, Alone
<1>6. ASSUME NEW d \in Turns PROVE SeesOwn(d)'
  <2>1. CASE Process(d) = p /\ Open(d)
    <3>1. at'[d] = "down" /\ ~Open(d)'
      BY <1>1, <1>3, <2>1
    <3>2. Judged(d) => Judged(d)'
      <4>1. \A i : OwnRepeat(d, i)' = OwnRepeat(d, i)
        BY DEF OwnRepeat, TrailingRepeat
      <4>. QED BY <1>1, <3>1, <4>1 DEF Judged, Script
    <3>. QED BY <1>1, <3>1, <3>2, OverlappedStays DEF HarnessInv, SeesOwn
  <2>2. CASE ~(Process(d) = p /\ Open(d))
    <3>1. at'[d] = at[d] /\ Busy(d)' = Busy(d)
      BY <1>1, <2>2 DEF Busy
    <3>2. Open(d)' => Open(d) /\ Tools(d)' = Tools(d) /\ Trace(d)' = Trace(d)
      BY <1>1, <1>2, <1>3, IntentOf DEF Tools, Trace, TurnInv
    <3>. QED BY <1>1, <3>1, <3>2, SeesOwnStays DEF HarnessInv
  <2>. QED BY <2>1, <2>2
<1>. QED BY <1>4, <1>5, <1>6 DEF HarnessInv

LEMMA HarnessNext == TurnInv /\ RequestInv /\ HarnessInv /\ [Next]_vars => HarnessInv'
<1>. SUFFICES ASSUME TurnInv, RequestInv, HarnessInv, [Next]_vars PROVE HarnessInv'
  OBVIOUS
<1>1. CASE UNCHANGED vars
  <2>1. UNCHANGED <<ask, at, sub, excuse, window, trace, used, hinted, judged>>
    BY <1>1 DEF vars, modelVars, shared, own, ghosts
  <2>2. \A d \in Turns : /\ Process(d)' = Process(d) /\ Session(d)' = Session(d) /\ Open(d)' = Open(d)
                         /\ Tools(d)' = Tools(d) /\ Trace(d)' = Trace(d) /\ Busy(d)' = Busy(d)
                         /\ Overlapped(d)' = Overlapped(d)
    BY <2>1 DEF Process, Session, Open, Tools, Trace, Busy, Overlapped, Excusable
  <2>3. \A d \in Turns : SeesOwn(d)'
    BY <2>1, <2>2, SeesOwnStays DEF HarnessInv
  <2>. QED BY <2>1, <2>2, <2>3 DEF HarnessInv, AtRest, Alone, Used
<1>2. CASE Next
  <2>1. ASSUME NEW t \in Turns, Start(t) \/ Check(t) \/ Dispatch(t), UNCHANGED ask PROVE HarnessInv'
    BY <2>1, StartHarness, CheckHarness, ToolsHarness
  <2>2. ASSUME NEW t \in Turns, AtOnce(t), UNCHANGED ask PROVE HarnessInv'
    BY <2>2, ToolsHarness, OthersHarness, RowsHarness DEF AtOnce, Saves
  <2>3. ASSUME NEW t \in Turns, Asking(t) \/ Replied(t) \/ ReplyRaises(t) \/ Dispatched(t), UNCHANGED ask
        PROVE  HarnessInv'
    BY <2>3, OthersHarness, RepliedHarness, DispatchedHarness
  <2>4. ASSUME NEW t \in Turns, NEW o \in Outcomes, Awaited(t, o), UNCHANGED ask PROVE HarnessInv'
    BY <2>4, OthersHarness, ToolsHarness, RowsHarness DEF Awaited, Saves
  <2>5. ASSUME NEW p \in Processes, Crash(p), UNCHANGED ask PROVE HarnessInv'
    BY <2>5, CrashHarness
  <2>. QED BY <1>2, <2>1, <2>2, <2>3, <2>4, <2>5 DEF Next
<1>. QED BY <1>1, <1>2

LEMMA HarnessInit == Init => HarnessInv
<1>. SUFFICES ASSUME Init PROVE HarnessInv
  OBVIOUS
<1>1. TurnInv
  BY TurnInit
<1>2. \A d \in Turns : at[d] = "idle" /\ used[d] = 0 /\ judged[d] = {} /\ hinted[d] = {}
  BY DEF Init
<1>3. \A p \in Processes : \A s \in Sessions : window[p][s] = << >> /\ trace[p][s] = NoTrace
  BY DEF Init
<1>. QED BY <1>2, <1>3 DEF HarnessInv, AtRest, Alone, SeesOwn, Judged, Open

(* The hint to converge and the verdict on drift go by the turn's own calls, whatever was
   called before it, beside it or in another process. *)
THEOREM HarnessSafe == Spec => []HarnessSeesOwnTurn
<1>1. HarnessInv => HarnessSeesOwnTurn
  BY DEF HarnessInv, SeesOwn, Judged, Overlapped, HarnessSeesOwnTurn, Script
<1>. QED BY <1>1, TurnInit, TurnNext, RequestInit, RequestNext, HarnessInit, HarnessNext, PTL DEF Spec
-----------------------------------------------------------------------------
(* What a turn is told of its preferences.                                   *)

LEMMA LatestOf ==
    ASSUME NEW likes \in Seq(Preference), IsInjective(likes), Len(likes) > TopK
    PROVE  /\ Latest(likes) \in Seq(Preference) /\ Len(Latest(likes)) = TopK
           /\ Range(Latest(likes)) \subseteq Range(likes)
           /\ \A i \in 1 .. Len(likes) : likes[i] \in Range(Latest(likes)) <=> Len(likes) - i < TopK
<1>. DEFINE n == Len(likes)
            m == n - TopK + 1
            s == SubSeq(likes, m, n)
<1>1. n \in Nat /\ TopK \in Nat /\ n > TopK /\ m \in Int /\ n \in Int /\ DOMAIN likes = 1 .. n
  BY LenProperties
<1>2. \A i \in m .. n : i \in 1 .. n /\ likes[i] \in Preference
  BY <1>1, ElementOfSeq
<1>3. /\ s \in Seq(Preference) /\ Len(s) = IF m <= n THEN n - m + 1 ELSE 0
      /\ \A i \in 1 .. n - m + 1 : s[i] = likes[m + i - 1]
  <2>. HIDE DEF m, n
  <2>. QED BY <1>1, <1>2, SubSeqProperties
<1>4. Len(s) = TopK
  BY <1>1, <1>3
<1>5. Range(s) = {likes[i] : i \in m .. n}
  <2>1. DOMAIN s = 1 .. TopK
    BY <1>3, <1>4, LenProperties
  <2>2. \A i \in 1 .. TopK : s[i] = likes[m + i - 1] /\ m + i - 1 \in m .. n
    BY <1>1, <1>3
  <2>3. \A j \in m .. n : j - m + 1 \in 1 .. TopK /\ m + (j - m + 1) - 1 = j
    BY <1>1
  <2>4. \A j \in m .. n : likes[j] = s[j - m + 1]
    BY <2>2, <2>3
  <2>. HIDE DEF m, n, s
  <2>5. Range(s) = {s[i] : i \in 1 .. TopK}
    BY <2>1 DEF Range
  <2>6. \A x \in {s[i] : i \in 1 .. TopK} : x \in {likes[i] : i \in m .. n}
    BY <2>2
  <2>7. \A x \in {likes[i] : i \in m .. n} : x \in {s[i] : i \in 1 .. TopK}
    BY <2>3, <2>4
  <2>. QED BY <2>5, <2>6, <2>7
<1>6. ASSUME NEW i \in 1 .. n PROVE likes[i] \in Range(s) <=> n - i < TopK
  <2>1. n - i < TopK <=> i \in m .. n
    BY <1>1
  <2>. HIDE DEF m, n, s
  <2>2. \A j \in m .. n : likes[j] = likes[i] => j = i
    BY <1>1, <1>2 DEF IsInjective
  <2>. QED BY <1>5, <2>1, <2>2
<1>. HIDE DEF m
<1>. QED BY <1>1, <1>2, <1>3, <1>4, <1>5, <1>6 DEF Latest, Range, m

\* Of every dislike and the newest likes, and of nothing else, unless there is nothing to tell.
LEMMA SelectedTells ==
    ASSUME NEW list \in Seq(Preference), IsInjective(list)
    PROVE  /\ Range(Dislikes(list)) = Range(Dislikes(Selected(list)))
           /\ \A i \in DOMAIN Likes(list) :
                  Likes(list)[i] \in Range(Selected(list)) <=> Len(Likes(list)) - i < TopK
           /\ Selected(list) = << >> => list = << >> \/ (Dislikes(list) = << >> /\ TopK = 0)
<1>. DEFINE D == {p \in Preference : p.kind = "dislike"}
            L == {p \in Preference : p.kind # "dislike"}
            dislikes == Dislikes(list)
            likes == Likes(list)
            newest == IF Len(likes) <= TopK THEN likes ELSE Latest(likes)
<1>1. /\ dislikes \in Seq(Preference) /\ Range(dislikes) = Range(list) \cap D
      /\ likes \in Seq(Preference) /\ Range(likes) = Range(list) \cap L /\ IsInjective(likes)
      /\ DOMAIN likes = 1 .. Len(likes) /\ Len(likes) \in Nat /\ DOMAIN list = 1 .. Len(list)
      /\ TopK \in Nat
  BY FilteredType, FilteredKeeps, LenProperties DEF Dislikes, Likes
<1>2. Selected(list) = dislikes \o newest
  BY DEF Selected
<1>. HIDE DEF dislikes, likes
<1>3. /\ newest \in Seq(Preference) /\ Range(newest) \subseteq Range(likes)
      /\ \A i \in 1 .. Len(likes) : likes[i] \in Range(newest) <=> Len(likes) - i < TopK
      /\ newest = << >> => likes = << >> \/ TopK = 0
  <2>1. CASE Len(likes) <= TopK
    <3>1. \A i \in 1 .. Len(likes) : likes[i] \in Range(likes) /\ Len(likes) - i < TopK
      BY <1>1, <2>1 DEF Range
    <3>. QED BY <1>1, <2>1, <3>1
  <2>2. CASE ~(Len(likes) <= TopK)
    <3>1. Len(likes) > TopK
      BY <1>1, <2>2
    <3>2. newest = Latest(likes)
      BY <2>2
    <3>3. Latest(likes) = << >> => TopK = 0
      BY <1>1, <3>1, LatestOf, EmptySeq
    <3>. QED BY <1>1, <3>1, <3>2, <3>3, LatestOf
  <2>. QED BY <2>1, <2>2
<1>. HIDE DEF newest
<1>4. /\ Selected(list) \in Seq(Preference) /\ Range(Selected(list)) = Range(dislikes) \cup Range(newest)
      /\ Selected(list) = << >> => dislikes = << >> /\ newest = << >>
  BY <1>1, <1>2, <1>3, RangeConcatenation, ConcatProperties, ConcatEqualIffEmpty
<1>5. Range(Dislikes(Selected(list))) = Range(Selected(list)) \cap D
  BY <1>4, FilteredKeeps DEF Dislikes
<1>6. D \cap L = {} /\ Range(list) \subseteq D \cup L
  <2>1. Range(list) \subseteq Preference
    BY RangeOfSeq
  <2>. QED BY <2>1
<1>7. Range(dislikes) = Range(Dislikes(Selected(list)))
  <2>. HIDE DEF D, L
  <2>. QED BY <1>1, <1>3, <1>4, <1>5, <1>6
<1>8. \A i \in 1 .. Len(likes) : likes[i] \in Range(Selected(list)) <=> Len(likes) - i < TopK
  <2>1. \A i \in 1 .. Len(likes) : likes[i] \in Range(likes)
    BY <1>1 DEF Range
  <2>2. \A i \in 1 .. Len(likes) : likes[i] \notin Range(dislikes)
    <3>. HIDE DEF D, L
    <3>. QED BY <1>1, <1>6, <2>1
  <2>. QED BY <1>3, <1>4, <2>2
<1>9. dislikes = << >> /\ likes = << >> => list = << >>
  <2>1. Range(<< >>) = {}
    BY DEF Range
  <2>2. dislikes = << >> /\ likes = << >> => Range(list) = {}
    <3>. HIDE DEF D, L
    <3>. QED BY <1>1, <1>6, <2>1
  <2>3. Range(list) = {} => list = << >>
    <3>1. list # << >> => Len(list) \in Nat \ {0} /\ 1 \in 1 .. Len(list)
      BY EmptySeq
    <3>2. list # << >> => 1 \in DOMAIN list /\ list[1] \in Range(list)
      BY <1>1, <3>1 DEF Range
    <3>. QED BY <3>2
  <2>. QED BY <2>2, <2>3
<1>10. Selected(list) = << >> => list = << >> \/ (dislikes = << >> /\ TopK = 0)
  BY <1>3, <1>4, <1>9
<1>. QED BY <1>1, <1>7, <1>8, <1>10 DEF dislikes, likes

\* The last hint of a context tells the preferences of the list.
Hinted(c, list) == Hints(c) # << >> /\ Last(Hints(c)) = HintOf(list)

LEMMA HintsGrow ==
    ASSUME NEW c \in Seq(Item)
    PROVE  /\ \A list \in Seq(Preference) :
                  Append(c, HintOf(list)) \in Seq(Item) /\ Hinted(Append(c, HintOf(list)), list)
           /\ \A x \in Said : \A list : Append(c, x) \in Seq(Item) /\ (Hinted(Append(c, x), list) <=> Hinted(c, list))
<1>. DEFINE H == {"hint"} \X Seq(Preference)
<1>1. ASSUME NEW list \in Seq(Preference)
      PROVE  Append(c, HintOf(list)) \in Seq(Item) /\ Hinted(Append(c, HintOf(list)), list)
  <2>1. HintOf(list) \in H /\ HintOf(list) \in Item
    BY DEF HintOf, Item
  <2>2. Hints(Append(c, HintOf(list))) = Append(Hints(c), HintOf(list)) /\ Hints(c) \in Seq(Item)
    <3>1. Filtered(Append(c, HintOf(list)), H) = Append(Filtered(c, H), HintOf(list))
      <4>. HIDE DEF H
      <4>. QED BY <2>1, FilteredAppend
    <3>2. Filtered(c, H) \in Seq(Item)
      <4>. HIDE DEF H
      <4>. QED BY FilteredType
    <3>. QED BY <3>1, <3>2 DEF Hints
  <2>3. Append(Hints(c), HintOf(list)) # << >> /\ Last(Append(Hints(c), HintOf(list))) = HintOf(list)
    BY <2>1, <2>2, AppendProperties DEF Last
  <2>. QED BY <2>1, <2>2, <2>3, AppendProperties DEF Hinted
<1>2. ASSUME NEW x \in Said, NEW list
      PROVE  Append(c, x) \in Seq(Item) /\ (Hinted(Append(c, x), list) <=> Hinted(c, list))
  <2>1. x \notin H /\ x \in Item
    BY DEF Said, Item
  <2>2. Hints(Append(c, x)) = Hints(c)
    BY <2>1, FilteredAppend DEF Hints
  <2>. QED BY <2>1, <2>2, AppendProperties DEF Hinted
<1>. QED BY <1>1, <1>2
-----------------------------------------------------------------------------
(* The agents: an agent belongs to the session and the process of the turn   *)
(* that built it, and all turns of a session have the agent that is kept,    *)
(* unless two were built.                                                    *)

LEMMA NoTurnApart == NoTurn \notin Turns
BY TurnAssumption

Twin(s) == <<"twin", s>> \in excuse
Unbuilt == {"idle", "restoring"}
Replying == {"asking", "calling", "falling", "checking"} \cup InTool

AgentOf(a, p, s) == a \in Turns => Process(a) = p /\ Session(a) = s /\ at[a] \notin Unbuilt

Owned ==
    /\ \A p \in Processes : \A s \in Sessions : AgentOf(agents[p][s], p, s)
    /\ \A t \in Turns : AgentOf(agent[t], Process(t), Session(t))

Served(t) == Open(t) /\ at[t] # "restoring"

SameAgent == \A t \in Turns : Served(t) => Twin(Session(t)) \/ agent[t] = agents[Process(t)][Session(t)]

AgentInv == Owned /\ SameAgent

LEMMA TwinStays ==
    ASSUME excuse \subseteq excuse', NEW s, Twin(s)
    PROVE  Twin(s)'
BY DEF Twin

\* The steps that neither find nor build an agent, nor add to a context.
Elsewise(t) ==
    \/ Check(t) \/ Dispatch(t) \/ AtOnce(t) \/ Asking(t) \/ ReplyRaises(t) \/ Dispatched(t)
    \/ \E o \in Outcomes : \/ ReadScope(t, o) \/ Lookup(t, o) \/ Remembers(t, o) \/ LoadEntries(t, o)
                           \/ StoreEntries(t, o) \/ Merge(t, o) \/ Persist(t, o) \/ ReadNumber(t, o) \/ InsertRow(t, o)

\* A turn with an agent goes on.
GoesOn(t) ==
    /\ at[t] \in Steps \ {"idle", "restoring", "end", "down"} /\ UNCHANGED <<agents, agent>>
    /\ \E x \in Steps \ Unbuilt : at' = [at EXCEPT ![t] = x] /\ (x \in Replying => at[t] \in Replying \cup {"building"})

ContextsSame == UNCHANGED <<context, injected, under>> /\ excuse \subseteq excuse'

LEMMA ElsewiseGoesOn ==
    ASSUME TurnInv, NEW t \in Turns, Elsewise(t)
    PROVE  GoesOn(t) /\ ContextsSame /\ at[t] # "building"
<1>1. CASE Check(t) \/ Dispatch(t)
  BY <1>1 DEF Check, Dispatch, Step, shared, own, ghosts, GoesOn, ContextsSame, Replying, InTool, Steps, Unbuilt
<1>2. CASE ReadFile(t) \/ OpenFile(t) \/ FillFile(t)
  BY <1>2 DEF ReadFile, OpenFile, FillFile, Overwrite, Step, shared, own, GoesOn, ContextsSame, Replying,
              InTool, Steps, Unbuilt
<1>3. CASE AppendLine(t)
  BY <1>3 DEF AppendLine, EndTurn, own, ghosts, GoesOn, ContextsSame, Replying, InTool, Steps, Unbuilt
<1>4. CASE Asking(t)
  <2>1. UNCHANGED <<agents, agent>> /\ ContextsSame /\ at[t] \in {"asking", "calling"}
    BY <1>4 DEF Asking, Acquire, Retry, shared, own, ghosts, ContextsSame
  <2>2. \E x \in {"asking", "calling", "falling"} : at' = [at EXCEPT ![t] = x]
    <3>1. CASE at' = at
      <4>1. at' = [at EXCEPT ![t] = at[t]]
        BY <3>1 DEF TurnInv, CallTypes
      <4>. QED BY <2>1, <4>1
    <3>2. CASE at' # at
      BY <1>4, <3>2 DEF Asking, Acquire, Retry
    <3>. QED BY <3>1, <3>2
  <2>. QED BY <2>1, <2>2 DEF GoesOn, Replying, Steps, Unbuilt
<1>5. CASE ReplyRaises(t) \/ Dispatched(t)
  BY <1>5 DEF ReplyRaises, Dispatched, Answered, Raises, Holding, shared, own, ghosts, GoesOn, ContextsSame, Replying,
              InTool, Steps, Unbuilt
<1>6. ASSUME NEW o \in Outcomes, ReadScope(t, o) \/ Lookup(t, o) \/ LoadEntries(t, o) \/ StoreEntries(t, o)
      PROVE  GoesOn(t) /\ ContextsSame /\ at[t] # "building"
  <2>1. CASE ReadScope(t, o)
    <3>1. excuse \subseteq excuse'
      BY <2>1 DEF ReadScope, MisreadIf, Excused
    <3>2. UNCHANGED <<agents, agent, context, injected, under>>
      BY <2>1 DEF ReadScope, shared
    <3>3. /\ at[t] \in {"scoping", "rescoping"}
          /\ \E x \in {"looking", "building", "loading", "persisting"} : at' = [at EXCEPT ![t] = x]
      BY <2>1 DEF ReadScope, Step
    <3>. QED BY <3>1, <3>2, <3>3 DEF GoesOn, ContextsSame, Replying, InTool, Steps, Unbuilt
  <2>2. CASE Lookup(t, o)
    <3>1. UNCHANGED <<agents, agent>> /\ ContextsSame
      BY <2>2 DEF Lookup, shared, ghosts, ContextsSame
    <3>2. at[t] = "looking" /\ \E x \in {"persisting", "building"} : at' = [at EXCEPT ![t] = x]
      BY <2>2 DEF Lookup
    <3>. QED BY <3>1, <3>2 DEF GoesOn, Replying, InTool, Steps, Unbuilt
  <2>3. CASE LoadEntries(t, o) \/ StoreEntries(t, o)
    <3>1. UNCHANGED <<agents, agent>> /\ ContextsSame
      BY <2>3 DEF LoadEntries, StoreEntries, shared, ghosts, ContextsSame
    <3>2. at[t] \in {"loading", "storing"} /\ \E x \in {"storing", "persisting"} : at' = [at EXCEPT ![t] = x]
      BY <2>3 DEF LoadEntries, StoreEntries, Step
    <3>. QED BY <3>1, <3>2 DEF GoesOn, Replying, InTool, Steps, Unbuilt
  <2>. QED BY <1>6, <2>1, <2>2, <2>3
<1>7. ASSUME NEW o \in Outcomes, Remembers(t, o) PROVE GoesOn(t) /\ ContextsSame /\ at[t] # "building"
  <2>1. excuse \subseteq excuse'
    BY <1>7 DEF Remembers, Overwrite
  <2>. QED BY <1>7, <2>1 DEF Remembers, Step, own, GoesOn, ContextsSame, Replying, InTool, Steps, Unbuilt
<1>8. CASE Saves(t)
  <2>1. UNCHANGED <<agents, agent>> /\ ContextsSame
    BY <1>8, SavesKeeps DEF shared, own, ContextsSame
  <2>2. /\ at[t] \in InSave
        /\ \E x \in {"merging", "inserting", "updating", "saving", "question"} : at' = [at EXCEPT ![t] = x]
    BY <1>8, SavesKeeps
  <2>. QED BY <2>1, <2>2 DEF GoesOn, Replying, InTool, InSave, Dumped, Steps, Unbuilt
<1>9. ASSUME NEW o \in Outcomes, ReadNumber(t, o) \/ InsertRow(t, o)
      PROVE  GoesOn(t) /\ ContextsSame /\ at[t] # "building"
  <2>1. excuse \subseteq excuse'
    BY <1>9 DEF ReadNumber, InsertRow, Excused
  <2>2. UNCHANGED <<agents, agent, context, injected, under>>
    BY <1>9 DEF ReadNumber, InsertRow
  <2>3. /\ at[t] \in {"question", "question row", "reply", "reply row"}
        /\ \E x \in {"question row", "reply row", "reply", "end"} : at' = [at EXCEPT ![t] = x]
    BY <1>9 DEF ReadNumber, InsertRow, EndTurn
  <2>. QED BY <2>1, <2>2, <2>3 DEF GoesOn, ContextsSame, Replying, InTool, Steps, Unbuilt
<1>. QED BY <1>1, <1>2, <1>3, <1>4, <1>5, <1>6, <1>7, <1>8, <1>9 DEF Elsewise, AtOnce, Saves

\* So do those that add to the context.
LEMMA TellingGoesOn ==
    ASSUME TurnInv, NEW t \in Turns, Replied(t) \/ \E o \in Outcomes : BuildInputs(t, o)
    PROVE  GoesOn(t) /\ excuse \subseteq excuse'
<1>1. CASE Replied(t)
  BY <1>1 DEF Replied, Answered, Holding, GoesOn, Replying, Steps, Unbuilt, InTool
<1>2. ASSUME NEW o \in Outcomes, BuildInputs(t, o) PROVE GoesOn(t) /\ excuse \subseteq excuse'
  BY <1>2 DEF BuildInputs, Step, MisreadIf, Excused, own, GoesOn, Replying, Steps, Unbuilt, InTool
<1>. QED BY <1>1, <1>2

LEMMA GoesOnAgents ==
    ASSUME TurnInv, AgentInv, NEW t \in Turns, GoesOn(t), excuse \subseteq excuse', UNCHANGED ask
    PROVE  AgentInv'
<1>1. /\ \A d \in Turns : Process(d)' = Process(d) /\ Session(d)' = Session(d)
      /\ \A d \in Turns : at[d] \notin Unbuilt => at'[d] \notin Unbuilt
      /\ \A d \in Turns : Served(d)' => Served(d)
  BY DEF GoesOn, Process, Session, Unbuilt, Served, Open, TurnInv, CallTypes
<1>2. \A a, p, s : AgentOf(a, p, s) => AgentOf(a, p, s)'
  BY <1>1 DEF AgentOf
<1>3. Owned'
  BY <1>1, <1>2 DEF AgentInv, Owned, GoesOn
<1>4. SameAgent'
  BY <1>1, TwinStays DEF AgentInv, SameAgent, GoesOn
<1>. QED BY <1>3, <1>4 DEF AgentInv

LEMMA StartAgents ==
    ASSUME TurnInv, AgentInv, NEW t \in Turns, Start(t), UNCHANGED ask
    PROVE  AgentInv'
<1>. DEFINE a == agents[Process(t)][Session(t)]
<1>1. PICK x \in {"restoring", "scoping"} : at[t] = "idle" /\ at' = [at EXCEPT ![t] = x] /\ agent' = [agent EXCEPT ![t] = a]
                                            /\ agents' = agents
  BY DEF Start, Step
<1>2. excuse \subseteq excuse'
  BY DEF Start
<1>3. /\ \A d \in Turns : Process(d)' = Process(d) /\ Session(d)' = Session(d)
      /\ \A d \in Turns : at[d] \notin Unbuilt => at'[d] \notin Unbuilt
      /\ \A d \in Turns : d # t /\ Served(d)' => Served(d)
      /\ \A d \in Turns : agent'[d] = IF d = t THEN a ELSE agent[d]
  BY <1>1 DEF Process, Session, Unbuilt, Served, Open, TurnInv, CallTypes, OwnTypes
<1>4. Process(t) \in Processes /\ Session(t) \in Sessions
  BY IntentOf DEF TurnInv
<1>5. \A c, p, s : AgentOf(c, p, s) => AgentOf(c, p, s)'
  BY <1>3 DEF AgentOf
<1>. HIDE DEF a
<1>6. Owned'
  BY <1>1, <1>3, <1>4, <1>5 DEF AgentInv, Owned, a
<1>7. SameAgent'
  BY <1>1, <1>2, <1>3, TwinStays DEF AgentInv, SameAgent, a
<1>. QED BY <1>6, <1>7 DEF AgentInv

LEMMA RestoreAgents ==
    ASSUME TurnInv, AgentInv, NEW t \in Turns, NEW o \in Outcomes, Restore(t, o), UNCHANGED ask
    PROVE  AgentInv'
<1>. DEFINE p == Process(t)
            s == Session(t)
<1>1. /\ at[t] = "restoring" /\ at' = [at EXCEPT ![t] = "scoping"] /\ agent' = [agent EXCEPT ![t] = t]
      /\ agents' = [agents EXCEPT ![p][s] = t]
      /\ excuse \subseteq excuse' /\ (agents[p][s] # NoTurn => Twin(s)')
  <2>1. IF agents[p][s] = NoTurn THEN UNCHANGED excuse ELSE Excused("twin", s)
    BY DEF Restore
  <2>2. excuse \subseteq excuse' /\ (agents[p][s] # NoTurn => Twin(s)')
    BY <2>1 DEF Excused, Twin, Session
  <2>. QED BY <2>2 DEF Restore, Step
<1>2. p \in Processes /\ s \in Sessions
  BY IntentOf DEF TurnInv
<1>3. /\ \A d \in Turns : Process(d)' = Process(d) /\ Session(d)' = Session(d)
      /\ \A d \in Turns : at[d] \notin Unbuilt => at'[d] \notin Unbuilt
      /\ \A d \in Turns : d # t /\ Served(d)' => Served(d)
      /\ \A d \in Turns : agent'[d] = IF d = t THEN t ELSE agent[d]
      /\ at'[t] \notin Unbuilt
  BY <1>1 DEF Process, Session, Unbuilt, Served, Open, TurnInv, CallTypes, OwnTypes
<1>4. \A q \in Processes : \A r \in Sessions : agents'[q][r] = IF q = p /\ r = s THEN t ELSE agents[q][r]
  BY <1>1, <1>2 DEF TurnInv, SharedTypes
<1>5. \A c, q, r : AgentOf(c, q, r) => AgentOf(c, q, r)'
  BY <1>3 DEF AgentOf
<1>6. AgentOf(t, p, s)'
  BY <1>3 DEF AgentOf
<1>. HIDE DEF p, s
<1>7. Owned'
  BY <1>3, <1>4, <1>5, <1>6 DEF AgentInv, Owned, p, s
<1>8. SameAgent'
  <2>. SUFFICES ASSUME NEW d \in Turns, Served(d)' PROVE Twin(Session(d))' \/ agent'[d] = agents'[Process(d)][Session(d)]
    BY <1>3 DEF SameAgent
  <2>0. Process(d) \in Processes /\ Session(d) \in Sessions
    BY IntentOf DEF TurnInv
  <2>1. CASE d = t
    BY <1>2, <1>3, <1>4, <2>1 DEF p, s
  <2>2. CASE d # t /\ Process(d) = p /\ Session(d) = s
    <3>1. agents[p][s] \in Turns
      BY <1>3, <2>2 DEF TurnInv, AgentsThere, AgentThere, Served
    <3>2. Twin(s)'
      BY <1>1, <3>1, NoTurnApart
    <3>. QED BY <1>3, <2>2, <3>2 DEF s, Twin, Session
  <2>3. CASE d # t /\ ~(Process(d) = p /\ Session(d) = s)
    BY <1>1, <1>3, <1>4, <2>0, <2>3, TwinStays DEF AgentInv, SameAgent
  <2>. QED BY <2>1, <2>2, <2>3
<1>. QED BY <1>7, <1>8 DEF AgentInv

LEMMA CrashAgents ==
    ASSUME TurnInv, AgentInv, NEW p \in Processes, Crash(p), UNCHANGED ask
    PROVE  AgentInv'
<1>1. /\ \A d \in Turns : Process(d)' = Process(d) /\ Session(d)' = Session(d)
      /\ \A d \in Turns : at[d] \notin Unbuilt => at'[d] \notin Unbuilt
      /\ \A d \in Turns : Served(d)' => Served(d) /\ Process(d) # p
      /\ agent' = agent /\ excuse \subseteq excuse'
  BY DEF Crash, own, Process, Session, Unbuilt, Served, Open, TurnInv, CallTypes
<1>2. \A q \in Processes : \A r \in Sessions : agents'[q][r] = IF q = p THEN NoTurn ELSE agents[q][r]
  BY DEF Crash, TurnInv, SharedTypes
<1>3. \A c, q, r : AgentOf(c, q, r) => AgentOf(c, q, r)'
  BY <1>1 DEF AgentOf
<1>4. Owned'
  <2>1. \A q, r : AgentOf(NoTurn, q, r)'
    BY NoTurnApart DEF AgentOf
  <2>. QED BY <1>1, <1>2, <1>3, <2>1 DEF AgentInv, Owned
<1>5. SameAgent'
  <2>1. \A d \in Turns : Process(d) \in Processes /\ Session(d) \in Sessions
    BY IntentOf DEF TurnInv
  <2>. QED BY <1>1, <1>2, <2>1, TwinStays DEF AgentInv, SameAgent
<1>. QED BY <1>4, <1>5 DEF AgentInv

\* Every step of Next is one of these.
LEMMA StepsOf ==
    ASSUME Next
    PROVE  /\ UNCHANGED <<ask, storage>>
           /\ \/ \E t \in Turns : /\ Runs(t)
                                  /\ \/ Start(t) \/ Elsewise(t) \/ Replied(t)
                                     \/ \E o \in Outcomes : Restore(t, o) \/ BuildInputs(t, o)
              \/ \E p \in Processes : Crash(p)
BY DEF Next, Awaited, Elsewise

LEMMA AgentNext == TurnInv /\ AgentInv /\ [Next]_vars => AgentInv'
<1>. SUFFICES ASSUME TurnInv, AgentInv, [Next]_vars PROVE AgentInv'
  OBVIOUS
<1>1. CASE UNCHANGED vars
  <2>1. UNCHANGED <<ask, at, excuse, agents, agent>>
    BY <1>1 DEF vars, shared, own, ghosts
  <2>2. \A d \in Turns : Process(d)' = Process(d) /\ Session(d)' = Session(d) /\ Served(d)' = Served(d)
    BY <2>1 DEF Process, Session, Served, Open
  <2>. QED BY <2>1, <2>2 DEF AgentInv, Owned, AgentOf, SameAgent, Twin
<1>2. CASE Next
  BY <1>2, StepsOf, StartAgents, RestoreAgents, ElsewiseGoesOn, TellingGoesOn, GoesOnAgents, CrashAgents DEF ContextsSame
<1>. QED BY <1>1, <1>2

LEMMA AgentInit == Init => AgentInv
<1>. SUFFICES ASSUME Init PROVE AgentInv
  OBVIOUS
<1>1. /\ \A p \in Processes : \A s \in Sessions : agents[p][s] = NoTurn
      /\ \A t \in Turns : at[t] = "idle" /\ agent[t] = NoTurn
  BY DEF Init
<1>. QED BY <1>1, NoTurnApart DEF AgentInv, Owned, AgentOf, SameAgent, Served, Open
-----------------------------------------------------------------------------
(* What an agent was told of the preferences last.                           *)

ListsOnce ==
    /\ \A b \in Buyers : IsInjective(prefs[b])
    /\ \A t \in Turns : IsInjective(draft[t]) /\ IsInjective(under[t])

LEMMA EmptyOnce == IsInjective(<< >>)
BY DEF IsInjective

LEMMA ChangedOnce ==
    ASSUME TurnInv, ListsOnce, NEW t \in Turns, at[t] \in InTool
    PROVE  IsInjective(Changed(t))
<1>1. Wanted(t).pref \in Preference /\ prefs[Buyer(t)] \in Seq(Preference) /\ IsInjective(prefs[Buyer(t)])
  BY WantedType, IntentOf DEF TurnInv, StoreTypes, ListsOnce
<1>2. IsInjective(Remembered(t))
  BY <1>1, RangeAppend DEF Remembered, Appended
<1>3. IsInjective(Forgotten(t))
  BY <1>1, FilteredKeeps DEF Forgotten, Deleted
<1>. QED BY <1>2, <1>3 DEF Changed

LEMMA ListsNext == TurnInv /\ ListsOnce /\ [Next]_vars => ListsOnce'
<1>. SUFFICES ASSUME TurnInv, ListsOnce, [Next]_vars PROVE ListsOnce'
  OBVIOUS
<1>. DEFINE Same == UNCHANGED <<prefs, draft, under>>
<1>0. Same => ListsOnce'
  BY DEF ListsOnce
<1>1. CASE UNCHANGED vars
  BY <1>0, <1>1 DEF vars, stores, prefVars, ghosts
<1>2. ASSUME NEW t \in Turns, Start(t) \/ Check(t) \/ Dispatch(t) PROVE ListsOnce'
  BY <1>0, <1>2 DEF Start, Check, Dispatch, stores, prefVars, ghosts
<1>3. ASSUME NEW t \in Turns, Saves(t) \/ AppendLine(t) PROVE ListsOnce'
  BY <1>0, <1>3, SavesKeeps DEF AppendLine, prefVars, ghosts
<1>4. ASSUME NEW t \in Turns, Asking(t) \/ Replied(t) \/ ReplyRaises(t) \/ Dispatched(t) PROVE ListsOnce'
  BY <1>0, <1>4 DEF Asking, Replied, ReplyRaises, Dispatched, stores, prefVars, ghosts
<1>5. ASSUME NEW t \in Turns, NEW o \in Outcomes, Restore(t, o) \/ ReadScope(t, o) \/ Lookup(t, o) PROVE ListsOnce'
  BY <1>0, <1>5 DEF Restore, ReadScope, Lookup, stores, prefVars, ghosts
<1>6. ASSUME NEW t \in Turns, NEW o \in Outcomes,
             LoadEntries(t, o) \/ StoreEntries(t, o) \/ ReadNumber(t, o) \/ InsertRow(t, o)
      PROVE  ListsOnce'
  BY <1>0, <1>6 DEF LoadEntries, StoreEntries, ReadNumber, InsertRow, stores, prefVars, ghosts
<1>7. ASSUME NEW p \in Processes, Crash(p) PROVE ListsOnce'
  BY <1>0, <1>7 DEF Crash, stores, prefVars
<1>8. ASSUME NEW t \in Turns, NEW o \in Outcomes, BuildInputs(t, o) PROVE ListsOnce'
  <2>1. IsInjective(Listed(t, o))
    BY EmptyOnce, IntentOf DEF ListsOnce, Listed, TurnInv
  <2>2. under' = [under EXCEPT ![t] = Listed(t, o)] /\ UNCHANGED <<prefs, draft>>
    BY <1>8 DEF BuildInputs, stores, prefVars
  <2>. QED BY <2>1, <2>2 DEF ListsOnce, TurnInv, GhostTypes
<1>9. ASSUME NEW t \in Turns, NEW o \in Outcomes, Remembers(t, o) PROVE ListsOnce'
  <2>1. IsInjective(Changed(t))
    BY <1>9, ChangedOnce DEF Remembers, Step, InTool
  <2>2. UNCHANGED <<draft, under>> /\ (prefs' = prefs \/ prefs' = [prefs EXCEPT ![Buyer(t)] = Changed(t)])
    BY <1>9 DEF Remembers, Overwrite
  <2>. QED BY <2>1, <2>2 DEF ListsOnce, TurnInv, StoreTypes
<1>10. ASSUME NEW t \in Turns, ReadFile(t) PROVE ListsOnce'
  <2>1. IsInjective(Changed(t))
    BY <1>10, ChangedOnce DEF ReadFile, InTool
  <2>2. UNCHANGED <<prefs, under>> /\ (draft' = draft \/ draft' = [draft EXCEPT ![t] = Changed(t)])
    BY <1>10 DEF ReadFile
  <2>. QED BY <2>1, <2>2 DEF ListsOnce, TurnInv, StoreTypes
<1>11. ASSUME NEW t \in Turns, OpenFile(t) PROVE ListsOnce'
  <2>1. UNCHANGED <<draft, under>> /\ prefs' = [prefs EXCEPT ![Buyer(t)] = << >>]
    BY <1>11 DEF OpenFile, Overwrite
  <2>. QED BY <2>1, EmptyOnce DEF ListsOnce, TurnInv, StoreTypes
<1>12. ASSUME NEW t \in Turns, FillFile(t) PROVE ListsOnce'
  <2>1. /\ UNCHANGED under /\ prefs' = [prefs EXCEPT ![Buyer(t)] = draft[t]]
        /\ draft' = [draft EXCEPT ![t] = << >>]
    BY <1>12 DEF FillFile, Overwrite
  <2>. QED BY <2>1, EmptyOnce DEF ListsOnce, TurnInv, StoreTypes
<1>. QED BY <1>1, <1>2, <1>3, <1>4, <1>5, <1>6, <1>7, <1>8, <1>9, <1>10, <1>11, <1>12
     DEF Next, Awaited, AtOnce, Saves

LEMMA ListsInit == Init => ListsOnce
<1>. SUFFICES ASSUME Init PROVE ListsOnce
  OBVIOUS
<1>1. \A b \in Buyers : IsInjective(prefs[b])
  BY TurnAssumption DEF Init
<1>2. \A t \in Turns : draft[t] = << >> /\ under[t] = << >>
  BY DEF Init
<1>. QED BY <1>1, <1>2, EmptyOnce DEF ListsOnce

\* What a process remembers to have injected is the last hint of the agent it keeps.
InjectedTold ==
    \A p \in Processes : \A s \in Sessions :
        \/ Twin(s) \/ injected[p][s] = << >>
        \/ agents[p][s] \in Turns /\ Hinted(context[agents[p][s]], injected[p][s])

\* A turn that is answered was told what its preferences ask for, and nobody told its agent more.
HintedOwn(t) ==
    at[t] \in Replying =>
        \/ Overlapped(t) \/ Twin(Session(t)) \/ Selected(under[t]) = << >>
        \/ Hinted(context[agent[t]], Selected(under[t]))

HintInv == InjectedTold /\ \A t \in Turns : HintedOwn(t)

\* A step that leaves the contexts as they were.
LEMMA ContextsKept ==
    ASSUME TurnInv, HintInv, UNCHANGED ask, ContextsSame, UNCHANGED <<agents, agent>>,
           \A d \in Turns : at'[d] \in Replying => at[d] \in Replying
    PROVE  HintInv'
<1>1. /\ \A s : Twin(s) => Twin(s)'
      /\ \A d : Overlapped(d) => Overlapped(d)'
      /\ \A d \in Turns : Session(d)' = Session(d)
  BY TwinStays, OverlappedStays DEF ContextsSame, Session
<1>2. InjectedTold'
  BY <1>1 DEF HintInv, InjectedTold, ContextsSame
<1>3. \A d \in Turns : HintedOwn(d)'
  BY <1>1 DEF HintInv, HintedOwn, ContextsSame
<1>. QED BY <1>2, <1>3 DEF HintInv

LEMMA ElsewiseHints ==
    ASSUME TurnInv, HintInv, NEW t \in Turns, Elsewise(t), UNCHANGED ask
    PROVE  HintInv'
<1>1. GoesOn(t) /\ ContextsSame /\ at[t] # "building"
  BY ElsewiseGoesOn
<1>2. \A d \in Turns : at'[d] \in Replying => at[d] \in Replying
  BY <1>1 DEF GoesOn, TurnInv, CallTypes
<1>. QED BY <1>1, <1>2, ContextsKept DEF GoesOn

LEMMA StartHints ==
    ASSUME TurnInv, HintInv, NEW t \in Turns, Start(t), UNCHANGED ask
    PROVE  HintInv'
<1>1. /\ UNCHANGED <<agents, context, injected, under>> /\ excuse \subseteq excuse'
      /\ \E x \in {"restoring", "scoping"} : at' = [at EXCEPT ![t] = x]
      /\ \E a : agent' = [agent EXCEPT ![t] = a]
  BY DEF Start, Step
<1>2. /\ \A s : Twin(s) => Twin(s)'
      /\ \A d : Overlapped(d) => Overlapped(d)'
      /\ \A d \in Turns : Session(d)' = Session(d)
  BY <1>1, TwinStays, OverlappedStays DEF Session
<1>3. InjectedTold'
  BY <1>1, <1>2 DEF HintInv, InjectedTold
<1>4. ASSUME NEW d \in Turns PROVE HintedOwn(d)'
  <2>1. at'[d] \in Replying => d # t /\ at[d] \in Replying /\ agent'[d] = agent[d]
    BY <1>1 DEF Replying, InTool, TurnInv, CallTypes, OwnTypes
  <2>. QED BY <1>1, <1>2, <2>1 DEF HintInv, HintedOwn
<1>. QED BY <1>3, <1>4 DEF HintInv

LEMMA RestoreHints ==
    ASSUME TurnInv, AgentInv, HintInv, NEW t \in Turns, NEW o \in Outcomes, Restore(t, o), UNCHANGED ask
    PROVE  HintInv'
<1>. DEFINE p == Process(t)
            s == Session(t)
<1>1. /\ at[t] = "restoring" /\ at' = [at EXCEPT ![t] = "scoping"] /\ agent' = [agent EXCEPT ![t] = t]
      /\ agents' = [agents EXCEPT ![p][s] = t] /\ \E c : context' = [context EXCEPT ![t] = c]
      /\ UNCHANGED <<injected, under>>
  BY DEF Restore, Step
<1>2. p \in Processes /\ s \in Sessions
  BY IntentOf DEF TurnInv
<1>3. excuse \subseteq excuse' /\ (agents[p][s] # NoTurn => Twin(s)')
  <2>1. IF agents[p][s] = NoTurn THEN UNCHANGED excuse ELSE Excused("twin", s)
    BY DEF Restore
  <2>. QED BY <2>1 DEF Excused, Twin, Session
<1>4. /\ \A q \in Processes : \A r \in Sessions : agents'[q][r] = IF q = p /\ r = s THEN t ELSE agents[q][r]
      /\ \A d \in Turns : d # t => context'[d] = context[d] /\ agent'[d] = agent[d] /\ at'[d] = at[d]
      /\ at'[t] = "scoping"
  BY <1>1, <1>2 DEF TurnInv, SharedTypes, CallTypes, OwnTypes
<1>5. /\ \A r : Twin(r) => Twin(r)'
      /\ \A d : Overlapped(d) => Overlapped(d)'
      /\ \A d \in Turns : Session(d)' = Session(d)
  BY <1>3, TwinStays, OverlappedStays DEF Session
<1>6. /\ \A q \in Processes : \A r \in Sessions : agents[q][r] # t
      /\ \A d \in Turns : agent[d] # t
  BY <1>1 DEF AgentInv, Owned, AgentOf, Unbuilt
<1>7. InjectedTold'
  <2>. SUFFICES ASSUME NEW q \in Processes, NEW r \in Sessions
                PROVE  \/ Twin(r)' \/ injected'[q][r] = << >>
                       \/ agents'[q][r] \in Turns /\ Hinted(context'[agents'[q][r]], injected'[q][r])
    BY DEF InjectedTold, Hinted, Hints, Filtered, HintOf
  <2>1. CASE q = p /\ r = s
    <3>1. CASE agents[p][s] = NoTurn
      BY <1>1, <1>2, <1>5, <2>1, <3>1, NoTurnApart DEF HintInv, InjectedTold
    <3>2. CASE agents[p][s] # NoTurn
      BY <1>3, <1>5, <2>1, <3>2 DEF Twin
    <3>. QED BY <3>1, <3>2
  <2>2. CASE ~(q = p /\ r = s)
    BY <1>1, <1>4, <1>5, <1>6, <2>2 DEF HintInv, InjectedTold
  <2>. QED BY <2>1, <2>2
<1>8. ASSUME NEW d \in Turns PROVE HintedOwn(d)'
  <2>1. CASE d = t
    BY <1>4, <2>1 DEF HintedOwn, Replying, InTool
  <2>2. CASE d # t /\ at[d] \in Replying
    <3>1. agent[d] \in Turns /\ agent[d] # t
      BY <1>6, <2>2 DEF TurnInv, AgentsThere, AgentThere, Open, Replying, InTool
    <3>. QED BY <1>1, <1>4, <1>5, <2>2, <3>1 DEF HintInv, HintedOwn
  <2>3. CASE d # t /\ at[d] \notin Replying
    BY <1>4, <2>3 DEF HintedOwn
  <2>. QED BY <2>1, <2>2, <2>3
<1>. QED BY <1>7, <1>8 DEF HintInv

\* What a turn adds to the context of its agent: to no other turn that is answered, unless
\* they overlap, and to no other agent that is kept.
Adds(t, list) ==
    /\ Served(t) /\ UNCHANGED <<agents, agent>> /\ excuse \subseteq excuse'
    /\ context' = [context EXCEPT ![agent[t]] = list]
    /\ \A d \in Turns : d # t => under'[d] = under[d] /\ at'[d] = at[d]

LEMMA AddsToOwn ==
    ASSUME TurnInv, AgentInv, NEW t \in Turns, Served(t)
    PROVE  /\ agent[t] \in Turns
           /\ \A q \in Processes : \A r \in Sessions :
                  agents[q][r] = agent[t] => q = Process(t) /\ r = Session(t)
           /\ \A d \in Turns : agent[d] = agent[t] => Process(d) = Process(t) /\ Session(d) = Session(t)
<1>1. agent[t] \in Turns
  BY DEF TurnInv, AgentsThere, AgentThere, Served
<1>2. Process(agent[t]) = Process(t) /\ Session(agent[t]) = Session(t)
  BY <1>1 DEF AgentInv, Owned, AgentOf
<1>. QED BY <1>1, <1>2 DEF AgentInv, Owned, AgentOf

LEMMA AddsHints ==
    ASSUME TurnInv, AgentInv, HarnessInv, HintInv, NEW t \in Turns, NEW list, Adds(t, list), UNCHANGED ask,
           \A q \in Processes : \A r \in Sessions :
               ~(q = Process(t) /\ r = Session(t)) => injected'[q][r] = injected[q][r],
           \/ Twin(Session(t)) \/ agents[Process(t)][Session(t)] # agent[t]
           \/ injected'[Process(t)][Session(t)] = << >>
           \/ Hinted(list, injected'[Process(t)][Session(t)]),
           HintedOwn(t)'
    PROVE  HintInv'
<1>. DEFINE p == Process(t)
            s == Session(t)
            a == agent[t]
<1>1. /\ a \in Turns
      /\ \A q \in Processes : \A r \in Sessions : agents[q][r] = a => q = p /\ r = s
      /\ \A d \in Turns : agent[d] = a => Process(d) = p /\ Session(d) = s
  BY AddsToOwn DEF Adds
<1>2. context'[a] = list /\ \A c \in Turns : c # a => context'[c] = context[c]
  <2>. HIDE DEF a
  <2>. QED BY <1>1 DEF Adds, TurnInv, SharedTypes, a
<1>3. /\ \A r : Twin(r) => Twin(r)'
      /\ \A d : Overlapped(d) => Overlapped(d)'
      /\ \A d \in Turns : Session(d)' = Session(d)
  BY TwinStays, OverlappedStays DEF Adds, Session
<1>4. InjectedTold'
  <2>. SUFFICES ASSUME NEW q \in Processes, NEW r \in Sessions
                PROVE  \/ Twin(r)' \/ injected'[q][r] = << >>
                       \/ agents'[q][r] \in Turns /\ Hinted(context'[agents'[q][r]], injected'[q][r])
    BY DEF InjectedTold, Hinted, Hints, Filtered, HintOf
  <2>0. agents' = agents
    BY DEF Adds
  <2>1. CASE q = p /\ r = s
    <3>1. CASE Twin(s)
      BY <1>3, <2>1, <3>1
    <3>2. CASE ~Twin(s)
      <4>1. agents[p][s] = a
        BY <3>2 DEF AgentInv, SameAgent, Adds
      <4>. QED BY <1>1, <1>2, <2>0, <2>1, <3>2, <4>1
    <3>. QED BY <3>1, <3>2
  <2>2. CASE ~(q = p /\ r = s)
    <3>1. agents[q][r] # a
      BY <1>1, <2>2
    <3>. HIDE DEF a, p, s
    <3>. QED BY <1>2, <1>3, <2>0, <2>2, <3>1 DEF HintInv, InjectedTold, p, s
  <2>. QED BY <2>1, <2>2
<1>5. ASSUME NEW d \in Turns, d # t PROVE HintedOwn(d)'
  <2>1. CASE at[d] \notin Replying
    BY <1>5, <2>1 DEF HintedOwn, Adds
  <2>2. CASE at[d] \in Replying
    <3>1. Open(d) /\ agent[d] \in Turns
      BY <2>2 DEF TurnInv, AgentsThere, AgentThere, Open, Replying, InTool
    <3>2. CASE agent[d] = a
      <4>1. Overlapped(d)
        BY <1>1, <1>5, <3>1, <3>2 DEF HarnessInv, Alone, Adds, Served
      <4>. QED BY <1>3, <4>1 DEF HintedOwn
    <3>3. CASE agent[d] # a
      BY <1>2, <1>3, <1>5, <2>2, <3>1, <3>3 DEF HintInv, HintedOwn, Adds
    <3>. QED BY <3>2, <3>3
  <2>. QED BY <2>1, <2>2
<1>. QED BY <1>4, <1>5 DEF HintInv

LEMMA RepliedHints ==
    ASSUME TurnInv, AgentInv, HarnessInv, HintInv, NEW t \in Turns, Replied(t), UNCHANGED ask
    PROVE  HintInv'
<1>1. /\ at[t] \in Holding /\ Open(t) /\ Served(t)
      /\ UNCHANGED <<agents, agent, injected, under>> /\ excuse \subseteq excuse'
  BY DEF Replied, Answered, Holding, Open, Served
<1>2. CASE used[t] < Len(Script(t))
  <2>1. at' = [at EXCEPT ![t] = "checking"] /\ context' = context
    BY <1>2 DEF Replied, Script
  <2>2. \A d \in Turns : at'[d] \in Replying => at[d] \in Replying
    BY <1>1, <2>1 DEF TurnInv, CallTypes, Replying, Holding
  <2>. QED BY <1>1, <2>1, <2>2, ContextsKept DEF ContextsSame
<1>3. CASE ~(used[t] < Len(Script(t)))
  <2>. DEFINE list == Append(context[agent[t]], <<"told", t>>)
  <2>1. at' = [at EXCEPT ![t] = "rescoping"] /\ context' = [context EXCEPT ![agent[t]] = list]
    BY <1>3 DEF Replied, Script
  <2>2. Adds(t, list)
    BY <1>1, <2>1 DEF Adds, TurnInv, CallTypes
  <2>3. HintedOwn(t)'
    BY <2>1 DEF HintedOwn, Replying, InTool, TurnInv, CallTypes
  <2>4. \A x : Hinted(list, x) <=> Hinted(context[agent[t]], x)
    <3>1. context[agent[t]] \in Seq(Item) /\ <<"told", t>> \in Said
      BY <1>1, AddsToOwn DEF TurnInv, SharedTypes, Said
    <3>. QED BY <3>1, HintsGrow
  <2>. DEFINE p == Process(t)
              s == Session(t)
  <2>5. Twin(s) \/ agents[p][s] # agent[t] \/ injected'[p][s] = << >> \/ Hinted(list, injected'[p][s])
    <3>1. p \in Processes /\ s \in Sessions
      BY IntentOf DEF TurnInv
    <3>. HIDE DEF list
    <3>. QED BY <1>1, <2>4, <3>1 DEF HintInv, InjectedTold
  <2>. HIDE DEF list
  <2>. QED BY <1>1, <2>2, <2>3, <2>5, AddsHints
<1>. QED BY <1>2, <1>3

LEMMA BuildInputsHints ==
    ASSUME TurnInv, AgentInv, HarnessInv, HintInv, NEW t \in Turns, NEW o \in Outcomes, BuildInputs(t, o), UNCHANGED ask
    PROVE  HintInv'
<1>. DEFINE p == Process(t)
            s == Session(t)
            a == agent[t]
            chosen == Selected(Listed(t, o))
            told == chosen # << >> /\ ~AlreadyInjected(t, chosen)
            c == context[a]
            asked == <<"asked", t>>
            list == IF told THEN Append(Append(c, HintOf(chosen)), asked) ELSE Append(c, asked)
<1>1. /\ at[t] = "building" /\ at' = [at EXCEPT ![t] = "asking"] /\ UNCHANGED <<agents, agent>>
      /\ under' = [under EXCEPT ![t] = Listed(t, o)] /\ excuse \subseteq excuse'
      /\ injected' = IF told THEN [injected EXCEPT ![p][s] = chosen] ELSE injected
      /\ context' = [context EXCEPT ![a] = c \o (IF told THEN <<HintOf(chosen)>> ELSE << >>) \o <<asked>>]
  <2>1. excuse \subseteq excuse'
    BY DEF BuildInputs, MisreadIf, Excused
  <2>. QED BY <2>1 DEF BuildInputs, Step, own
<1>2. Open(t) /\ Served(t) /\ p \in Processes /\ s \in Sessions /\ a \in Turns
  <2>1. Open(t) /\ Served(t)
    BY <1>1 DEF Open, Served
  <2>. QED BY <2>1, AddsToOwn, IntentOf DEF TurnInv
<1>3. c \in Seq(Item) /\ asked \in Said /\ asked \in Item /\ chosen \in Seq(Preference) /\ HintOf(chosen) \in Item
  BY <1>2, ListedType, SelectedType DEF TurnInv, SharedTypes, Said, Item, HintOf
<1>4. c \o (IF told THEN <<HintOf(chosen)>> ELSE << >>) \o <<asked>> = list
  <2>. HIDE DEF c, asked, chosen
  <2>1. Append(c, asked) = c \o << >> \o <<asked>>
    BY <1>3, AppendIsConcat, ConcatEmptySeq
  <2>2. Append(c, HintOf(chosen)) = c \o <<HintOf(chosen)>> /\ Append(c, HintOf(chosen)) \in Seq(Item)
    BY <1>3, AppendIsConcat, AppendProperties
  <2>3. Append(Append(c, HintOf(chosen)), asked) = c \o <<HintOf(chosen)>> \o <<asked>>
    BY <1>3, <2>2, AppendIsConcat
  <2>. QED BY <2>1, <2>3
<1>5. /\ told => Hinted(list, chosen)
      /\ ~told => \A x : Hinted(list, x) <=> Hinted(c, x)
  <2>. HIDE DEF c, asked, chosen, told
  <2>1. Append(c, HintOf(chosen)) \in Seq(Item) /\ Hinted(Append(c, HintOf(chosen)), chosen)
    BY <1>3, HintsGrow
  <2>2. Hinted(Append(Append(c, HintOf(chosen)), asked), chosen)
    BY <1>3, <2>1, HintsGrow
  <2>3. \A x : Hinted(Append(c, asked), x) <=> Hinted(c, x)
    BY <1>3, HintsGrow
  <2>. QED BY <2>2, <2>3
<1>. HIDE DEF list
<1>6. Adds(t, list)
  <2>1. context' = [context EXCEPT ![a] = list]
    BY <1>1, <1>4
  <2>2. \A d \in Turns : d # t => under'[d] = under[d] /\ at'[d] = at[d]
    BY <1>1 DEF TurnInv, CallTypes, GhostTypes
  <2>. QED BY <1>1, <1>2, <2>1, <2>2 DEF Adds
<1>7. /\ told => injected'[p][s] = chosen
      /\ ~told => injected' = injected
      /\ \A q \in Processes : \A r \in Sessions : ~(q = p /\ r = s) => injected'[q][r] = injected[q][r]
  <2>. HIDE DEF chosen, told, p, s
  <2>. QED BY <1>1, <1>2 DEF TurnInv, SharedTypes
<1>8. ~told => chosen = << >> \/ injected[p][s] = chosen
  BY DEF AlreadyInjected
<1>9. Twin(s) \/ agents[p][s] # a \/ injected[p][s] = << >> \/ Hinted(c, injected[p][s])
  BY <1>2 DEF HintInv, InjectedTold
<1>10. Twin(s) \/ agents[p][s] # a \/ injected'[p][s] = << >> \/ Hinted(list, injected'[p][s])
  <2>. HIDE DEF c, chosen, told, p, s, a
  <2>. QED BY <1>5, <1>7, <1>9
<1>11. HintedOwn(t)'
  <2>1. under'[t] = Listed(t, o) /\ agent'[t] = a /\ context'[a] = list
    <3>. HIDE DEF a
    <3>. QED BY <1>1, <1>2, <1>4 DEF TurnInv, SharedTypes, GhostTypes, a
  <2>2. Twin(s) => Twin(Session(t))'
    BY <1>1, TwinStays DEF Session
  <2>3. Twin(s) \/ chosen = << >> \/ Hinted(list, chosen)
    <3>1. agents[p][s] = a \/ Twin(s)
      BY <1>2 DEF AgentInv, SameAgent
    <3>. HIDE DEF c, chosen, told, p, s, a
    <3>. QED BY <1>5, <1>8, <1>9, <3>1
  <2>. QED BY <2>1, <2>2, <2>3 DEF HintedOwn
<1>. HIDE DEF a, told, c, chosen
<1>. QED BY <1>6, <1>7, <1>10, <1>11, AddsHints DEF a

LEMMA CrashHints ==
    ASSUME TurnInv, HintInv, NEW p \in Processes, Crash(p), UNCHANGED ask
    PROVE  HintInv'
<1>1. /\ UNCHANGED <<context, under, agent>> /\ excuse \subseteq excuse'
      /\ \A d \in Turns : at'[d] = IF Process(d) = p /\ Open(d) THEN "down" ELSE at[d]
      /\ \A d \in Turns : Session(d)' = Session(d)
  BY DEF Crash, own, Session, TurnInv, CallTypes
<1>2. /\ \A s \in Sessions : injected'[p][s] = << >>
      /\ \A q \in Processes : q # p => injected'[q] = injected[q] /\ agents'[q] = agents[q]
  BY DEF Crash, TurnInv, SharedTypes
<1>3. (\A s : Twin(s) => Twin(s)') /\ (\A d : Overlapped(d) => Overlapped(d)')
  BY <1>1, TwinStays, OverlappedStays
<1>4. InjectedTold'
  <2>. SUFFICES ASSUME NEW q \in Processes, NEW r \in Sessions
                PROVE  \/ Twin(r)' \/ injected'[q][r] = << >>
                       \/ agents'[q][r] \in Turns /\ Hinted(context'[agents'[q][r]], injected'[q][r])
    BY DEF InjectedTold, Hinted, Hints, Filtered, HintOf
  <2>. QED BY <1>1, <1>2, <1>3 DEF HintInv, InjectedTold
<1>5. ASSUME NEW d \in Turns PROVE HintedOwn(d)'
  <2>1. at'[d] \in Replying => at[d] \in Replying
    BY <1>1 DEF Replying, InTool
  <2>. QED BY <1>1, <1>3, <2>1 DEF HintInv, HintedOwn
<1>. QED BY <1>4, <1>5 DEF HintInv

LEMMA HintNext == TurnInv /\ AgentInv /\ HarnessInv /\ HintInv /\ [Next]_vars => HintInv'
<1>. SUFFICES ASSUME TurnInv, AgentInv, HarnessInv, HintInv, [Next]_vars PROVE HintInv'
  OBVIOUS
<1>1. CASE UNCHANGED vars
  <2>1. UNCHANGED ask /\ ContextsSame /\ UNCHANGED <<agents, agent, at>>
    BY <1>1 DEF vars, shared, own, ghosts, ContextsSame
  <2>. QED BY <2>1, ContextsKept
<1>2. CASE Next
  BY <1>2, StepsOf, StartHints, RestoreHints, ElsewiseHints, RepliedHints, BuildInputsHints, CrashHints
<1>. QED BY <1>1, <1>2

LEMMA HintInit == Init => HintInv
<1>. SUFFICES ASSUME Init PROVE HintInv
  OBVIOUS
<1>1. /\ \A p \in Processes : \A s \in Sessions : injected[p][s] = << >>
      /\ \A t \in Turns : at[t] = "idle"
  BY DEF Init
<1>. QED BY <1>1 DEF HintInv, InjectedTold, HintedOwn, Replying, InTool

\* What the injection has left when there was something to tell.
LEMMA TellingTrue ==
    ASSUME TurnInv, ListsOnce, HintInv, NEW t \in Turns, at[t] \in Replying,
           ~Overlapped(t), ~Twin(Session(t)), ~ReadNothing(t)
    PROVE  LET hints == Hints(context[agent[t]])
               hint == Last(hints)[2]
               likes == Likes(under[t])
           IN  /\ hints # << >>
               /\ Range(Dislikes(under[t])) = Range(Dislikes(hint))
               /\ \A i \in DOMAIN likes : likes[i] \in Range(hint) <=> Len(likes) - i < TopK
<1>. DEFINE u == under[t]
<1>1. u \in Seq(Preference) /\ IsInjective(u) /\ u # << >> /\ ~(Dislikes(u) = << >> /\ TopK = 0)
  BY DEF TurnInv, GhostTypes, ListsOnce, ReadNothing
<1>2. Selected(u) # << >>
  <2>. HIDE DEF u
  <2>. QED BY <1>1, SelectedTells
<1>3. Hinted(context[agent[t]], Selected(u))
  BY <1>2 DEF HintInv, HintedOwn
<1>4. Hints(context[agent[t]]) # << >> /\ Last(Hints(context[agent[t]]))[2] = Selected(u)
  BY <1>3 DEF Hinted, HintOf
<1>. QED
  <2>. HIDE DEF u
  <2>. QED BY <1>1, <1>4, SelectedTells DEF u

\* What it has left when there was none: what the process injected last.
LEMMA BeforeTrue ==
    ASSUME TurnInv, AgentInv, HintInv, NEW t \in Turns, at[t] \in Replying, ~Twin(Session(t))
    PROVE  LET hints == Hints(context[agent[t]])
               before == injected[Process(t)][Session(t)]
           IN  before = << >> \/ (hints # << >> /\ Last(hints)[2] = before)
<1>1. Process(t) \in Processes /\ Session(t) \in Sessions
  BY IntentOf DEF TurnInv
<1>2. Served(t)
  BY DEF Served, Open, Replying, InTool
<1>3. agent[t] = agents[Process(t)][Session(t)]
  BY <1>2 DEF AgentInv, SameAgent
<1>. QED BY <1>1, <1>3 DEF HintInv, InjectedTold, Hinted, HintOf

LEMMA HintsTrue == TurnInv /\ AgentInv /\ ListsOnce /\ HintInv => DislikesInjected
<1>. SUFFICES ASSUME TurnInv, AgentInv, ListsOnce, HintInv, NEW t \in Turns,
                     at[t] \in {"asking", "calling", "falling", "checking", "acting"},
                     ~Overlapped(t), ~Twin(Session(t))
              PROVE  LET hints == Hints(context[agent[t]])
                         hint == Last(hints)[2]
                         before == injected[Process(t)][Session(t)]
                     IN  \/ ReadNothing(t) /\ (before = << >> \/ (hints # << >> /\ hint = before))
                         \/ /\ ~ReadNothing(t) /\ hints # << >>
                            /\ Range(Dislikes(under[t])) = Range(Dislikes(hint))
                            /\ LET likes == Likes(under[t]) IN
                               \A i \in DOMAIN likes : likes[i] \in Range(hint) <=> Len(likes) - i < TopK
  BY DEF DislikesInjected, Overlapped, Twin, Excusable
<1>1. at[t] \in Replying
  BY DEF Replying, InTool
<1>. QED BY <1>1, TellingTrue, BeforeTrue

(* A turn that read preferences is answered by an agent that was told every dislike and the
   newest likes of them, and no other like; one that read none, by an agent whose last hint
   is what the process injected last, withdrawn preferences included, if it injected any;
   unless its session overlaps or has two agents. *)
THEOREM HintsSafe == Spec => []DislikesInjected
BY TurnInit, TurnNext, RequestInit, RequestNext, HarnessInit, HarnessNext, AgentInit, AgentNext,
   ListsInit, ListsNext, HintInit, HintNext, HintsTrue, PTL DEF Spec
-----------------------------------------------------------------------------
(* What outlives the process: what each step leaves of the stores.           *)

Ordinary(t) ==
    \/ Start(t) \/ Check(t) \/ Dispatch(t) \/ Asking(t) \/ Replied(t) \/ ReplyRaises(t) \/ Dispatched(t)
    \/ \E o \in Outcomes : \/ Restore(t, o) \/ ReadScope(t, o) \/ Lookup(t, o) \/ BuildInputs(t, o)
                           \/ LoadEntries(t, o) \/ StoreEntries(t, o)
Prefers(t) == ReadFile(t) \/ OpenFile(t) \/ FillFile(t) \/ \E o \in Outcomes : Remembers(t, o)
Records(t) == AppendLine(t) \/ \E o \in Outcomes : ReadNumber(t, o) \/ InsertRow(t, o)

InFile == {"opening", "filling"}
InRow == {"question row", "reply row"}
InRecord == {"question", "reply"} \cup InRow
Early == Steps \ (InFile \cup InRecord \cup Dumped \cup {"saving", "end", "down"})

LEMMA StepKinds ==
    ASSUME Next
    PROVE  /\ UNCHANGED <<ask, storage>>
           /\ \/ \E t \in Turns : Runs(t) /\ (Ordinary(t) \/ Prefers(t) \/ Saves(t) \/ Records(t))
              \/ \E p \in Processes : Crash(p)
BY DEF Next, Awaited, AtOnce, Ordinary, Prefers, Saves, Records

LEMMA OrdinaryKeeps ==
    ASSUME TurnInv, NEW t \in Turns, Ordinary(t)
    PROVE  /\ UNCHANGED <<prefVars, saved, dump, rows, number>> /\ excuse \subseteq excuse'
           /\ at[t] \in Early /\ \E x \in Early : at' = [at EXCEPT ![t] = x]
           /\ \A d \in Turns : d # t => used'[d] = used[d]
<1>. DEFINE Kept == UNCHANGED <<prefVars, saved, dump, rows, number>> /\ excuse \subseteq excuse'
            Goes == at[t] \in Early /\ \E x \in Early : at' = [at EXCEPT ![t] = x]
            Elses == \A d \in Turns : d # t => used'[d] = used[d]
<1>0. used' = used => Elses
  OBVIOUS
<1>1. CASE Start(t)
  <2>1. Kept /\ used' = used
    BY <1>1 DEF Start, stores
  <2>2. at[t] = "idle" /\ \E x \in {"restoring", "scoping"} : at' = [at EXCEPT ![t] = x]
    BY <1>1 DEF Start, Step
  <2>. QED BY <2>1, <2>2 DEF Early, Steps, InFile, InRow, InRecord, Dumped
<1>2. CASE Check(t)
  <2>1. Kept
    BY <1>2 DEF Check, stores
  <2>2. Elses
    BY <1>2 DEF Check, TurnInv, OwnTypes
  <2>3. at[t] = "checking" /\ \E x \in {"acting"} : at' = [at EXCEPT ![t] = x]
    BY <1>2 DEF Check, Step
  <2>. QED BY <2>1, <2>2, <2>3 DEF Early, Steps, InFile, InRow, InRecord, Dumped
<1>3. CASE Dispatch(t) \/ Dispatched(t) \/ Asking(t)
  <2>1. Kept /\ used' = used
    BY <1>3 DEF Dispatch, Dispatched, Asking, stores, own, ghosts
  <2>2. /\ at[t] \in {"acting", "asking", "calling", "falling"}
        /\ \E x \in {"asking", "calling", "falling"} : at' = [at EXCEPT ![t] = x]
    <3>1. CASE at' = at /\ Asking(t)
      <4>1. at[t] = "calling" /\ at' = [at EXCEPT ![t] = at[t]]
        BY <3>1 DEF Asking, Acquire, Retry, TurnInv, CallTypes
      <4>. QED BY <4>1
    <3>2. CASE ~(at' = at /\ Asking(t))
      BY <1>3, <3>2 DEF Dispatch, Dispatched, Answered, Raises, Holding, Asking, Acquire, Retry, Step
    <3>. QED BY <3>1, <3>2
  <2>. QED BY <2>1, <2>2 DEF Early, Steps, InFile, InRow, InRecord, Dumped
<1>4. CASE Replied(t) \/ ReplyRaises(t)
  <2>1. Kept /\ used' = used
    BY <1>4 DEF Replied, ReplyRaises, stores, ghosts
  <2>2. /\ at[t] \in {"calling", "falling"}
        /\ \E x \in {"checking", "rescoping", "asking", "persisting"} : at' = [at EXCEPT ![t] = x]
    BY <1>4 DEF Replied, ReplyRaises, Answered, Raises, Holding
  <2>. QED BY <2>1, <2>2 DEF Early, Steps, InFile, InRow, InRecord, Dumped
<1>5. ASSUME NEW o \in Outcomes, Restore(t, o) \/ ReadScope(t, o) \/ BuildInputs(t, o) PROVE Kept /\ Goes /\ Elses
  <2>1. excuse \subseteq excuse'
    BY <1>5 DEF Restore, ReadScope, BuildInputs, MisreadIf, Excused
  <2>2. UNCHANGED <<prefVars, saved, dump, rows, number, used>>
    BY <1>5 DEF Restore, ReadScope, BuildInputs, stores, own
  <2>3. /\ at[t] \in {"restoring", "scoping", "rescoping", "building"}
        /\ \E x \in {"scoping", "looking", "building", "loading", "persisting", "asking"} : at' = [at EXCEPT ![t] = x]
    BY <1>5 DEF Restore, ReadScope, BuildInputs, Step
  <2>. QED BY <2>1, <2>2, <2>3 DEF Early, Steps, InFile, InRow, InRecord, Dumped
<1>6. ASSUME NEW o \in Outcomes, Lookup(t, o) \/ LoadEntries(t, o) \/ StoreEntries(t, o) PROVE Kept /\ Goes /\ Elses
  <2>1. excuse \subseteq excuse'
    BY <1>6 DEF Lookup, LoadEntries, StoreEntries, ghosts
  <2>2. UNCHANGED <<prefVars, saved, dump, rows, number, used>>
    BY <1>6 DEF Lookup, LoadEntries, StoreEntries, stores
  <2>3. /\ at[t] \in {"looking", "loading", "storing"}
        /\ \E x \in {"persisting", "building", "storing"} : at' = [at EXCEPT ![t] = x]
    BY <1>6 DEF Lookup, LoadEntries, StoreEntries, Step
  <2>. QED BY <2>1, <2>2, <2>3 DEF Early, Steps, InFile, InRow, InRecord, Dumped
<1>. QED BY <1>1, <1>2, <1>3, <1>4, <1>5, <1>6 DEF Ordinary

LEMMA PrefersKeeps ==
    ASSUME TurnInv, NEW t \in Turns, Prefers(t)
    PROVE  /\ UNCHANGED <<saved, dump, rows, context, agents, injected, own, based>> /\ excuse \subseteq excuse'
           /\ at[t] \in InFile \cup {"acting"}
           /\ \E x \in InFile \cup {"asking"} : at' = [at EXCEPT ![t] = x]
<1>1. CASE ReadFile(t)
  BY <1>1 DEF ReadFile, InFile
<1>2. CASE OpenFile(t) \/ FillFile(t)
  BY <1>2 DEF OpenFile, FillFile, Overwrite, Step, shared, InFile
<1>3. ASSUME NEW o \in Outcomes, Remembers(t, o)
      PROVE  /\ UNCHANGED <<saved, dump, rows, context, agents, injected, own, based>> /\ excuse \subseteq excuse'
             /\ at[t] = "acting" /\ at' = [at EXCEPT ![t] = "asking"]
  BY <1>3 DEF Remembers, Overwrite, Step
<1>. QED BY <1>1, <1>2, <1>3 DEF Prefers

LEMMA RecordsKeeps ==
    ASSUME TurnInv, NEW t \in Turns, Records(t)
    PROVE  /\ UNCHANGED <<prefVars, saved, dump, context, agents, agent, used, answer, based>> /\ excuse \subseteq excuse'
           /\ at[t] \in InRecord
           /\ \E x \in {"question row", "reply", "reply row", "end"} : at' = [at EXCEPT ![t] = x]
<1>1. CASE AppendLine(t)
  <2>1. UNCHANGED <<prefVars, saved, dump, context, agents, agent, used, answer, based, excuse>>
    BY <1>1 DEF AppendLine, own, ghosts
  <2>2. at[t] \in {"question", "reply"} /\ \E x \in {"reply", "end"} : at' = [at EXCEPT ![t] = x]
    BY <1>1 DEF AppendLine, EndTurn
  <2>. QED BY <2>1, <2>2 DEF InRecord
<1>2. ASSUME NEW o \in Outcomes, ReadNumber(t, o) \/ InsertRow(t, o)
      PROVE  /\ UNCHANGED <<prefVars, saved, dump, context, agents, agent, used, answer, based>> /\ excuse \subseteq excuse'
             /\ at[t] \in InRecord
             /\ \E x \in {"question row", "reply", "reply row", "end"} : at' = [at EXCEPT ![t] = x]
  <2>1. UNCHANGED <<prefVars, saved, dump, context, agents, agent, used, answer, based>>
    BY <1>2 DEF ReadNumber, InsertRow, stores
  <2>2. excuse \subseteq excuse'
    BY <1>2 DEF ReadNumber, InsertRow, Excused
  <2>3. /\ at[t] \in {"question", "reply", "question row", "reply row"}
        /\ \E x \in {"question row", "reply", "reply row", "end"} : at' = [at EXCEPT ![t] = x]
    BY <1>2 DEF ReadNumber, InsertRow, EndTurn
  <2>. QED BY <2>1, <2>2, <2>3 DEF InRecord, InRow
<1>. QED BY <1>1, <1>2 DEF Records
-----------------------------------------------------------------------------
(* The conversation: both rows of a turn, and one number for each.           *)

Crossed(s) == Excusable({"crossed"}, s)
Unrecorded(t) == Excusable({"unrecorded"}, t)

BuyerRow(t, n) == [by |-> t, role |-> "buyer", no |-> n]
AgentRow(t, n) == [by |-> t, role |-> "agent", no |-> n]

RowsOf(t) ==
    /\ at[t] \notin {"reply", "reply row", "end", "down"} => Recorded(t) = {}
    /\ at[t] \in {"reply", "reply row"} => \E n \in Nat : Recorded(t) = {BuyerRow(t, n)}
    /\ at[t] = "end" => Unrecorded(t) \/ \E n, m \in Nat : Recorded(t) = {BuyerRow(t, n), AgentRow(t, m)}

\* No number is given twice; of the turns of a session one at a time has read the last one.
NumbersOf(s) ==
    \/ Crossed(s)
    \/ /\ \A r, q \in rows[s] : r.no = q.no => r = q
       /\ \A t, d \in Turns : Session(t) = s /\ Session(d) = s /\ at[t] \in InRow /\ at[d] \in InRow => t = d
       /\ \A t \in Turns : Session(t) = s /\ at[t] \in InRow => \A r \in rows[s] : r.no <= number[t]

RowsInv ==
    /\ storage = "file" => \A t \in Turns : at[t] \notin InRow
    /\ \A t \in Turns : RowsOf(t)
    /\ \A s \in Sessions : NumbersOf(s)

LEMMA RowReasonsStay ==
    ASSUME excuse \subseteq excuse'
    PROVE  \A x : (Crossed(x) => Crossed(x)') /\ (Unrecorded(x) => Unrecorded(x)')
BY DEF Crossed, Unrecorded, Excusable

\* A step that writes no row.
LEMMA RowsKept ==
    ASSUME TurnInv, RowsInv, UNCHANGED <<ask, storage, rows, number>>, excuse \subseteq excuse',
           \A d \in Turns : \/ at'[d] = at[d] \/ at'[d] = "down"
                            \/ /\ at[d] \notin InRow \cup {"reply", "end", "down"}
                               /\ at'[d] \notin InRow \cup {"reply", "end", "down"}
    PROVE  RowsInv'
<1>1. \A x : (Crossed(x) => Crossed(x)') /\ (Unrecorded(x) => Unrecorded(x)')
  BY RowReasonsStay
<1>2. \A d \in Turns : Session(d)' = Session(d) /\ Recorded(d)' = Recorded(d) /\ (at'[d] \in InRow => at[d] \in InRow)
  BY DEF Session, Recorded, InRow
<1>3. ASSUME NEW d \in Turns PROVE RowsOf(d)'
  BY <1>1, <1>2 DEF RowsInv, RowsOf, BuyerRow, AgentRow, InRow
<1>4. ASSUME NEW s \in Sessions PROVE NumbersOf(s)'
  BY <1>1, <1>2 DEF RowsInv, NumbersOf
<1>. QED BY <1>2, <1>3, <1>4 DEF RowsInv

\* A turn goes on in its record; what it adds is a row of its own.
Adding(t, new) == rows' = [rows EXCEPT ![Session(t)] = @ \cup new] /\ \A r \in new : r.by = t

LEMMA AddingRows ==
    ASSUME TurnInv, RowsInv, NEW t \in Turns, NEW new, Adding(t, new), NEW x \in Steps, at' = [at EXCEPT ![t] = x],
           UNCHANGED ask, excuse \subseteq excuse', RowsOf(t)'
    PROVE  /\ \A d \in Turns : RowsOf(d)'
           /\ \A d \in Turns : Session(d)' = Session(d) /\ (d # t => at'[d] = at[d])
           /\ at'[t] = x
           /\ \A s \in Sessions : rows'[s] = IF s = Session(t) THEN rows[s] \cup new ELSE rows[s]
<1>1. \A x_1 : (Unrecorded(x_1) => Unrecorded(x_1)')
  BY RowReasonsStay
<1>2. /\ at'[t] = x /\ \A d \in Turns : Session(d)' = Session(d) /\ (d # t => at'[d] = at[d])
      /\ \A s \in Sessions : rows'[s] = IF s = Session(t) THEN rows[s] \cup new ELSE rows[s]
      /\ \A d \in Turns : Session(d) \in Sessions
  BY IntentOf DEF Session, Adding, TurnInv, CallTypes, StoreTypes
<1>3. ASSUME NEW d \in Turns, d # t PROVE RowsOf(d)'
  <2>1. Recorded(d)' = Recorded(d)
    BY <1>2, <1>3 DEF Recorded, Adding
  <2>. QED BY <1>1, <1>2, <1>3, <2>1 DEF RowsInv, RowsOf, BuyerRow, AgentRow
<1>. QED BY <1>2, <1>3

LEMMA RowFields ==
    ASSUME NEW t, NEW n
    PROVE  Row(t, n).by = t /\ Row(t, n).no = n
BY DEF Row

\* The row a turn writes, with the number n.
LEMMA RowWritten ==
    ASSUME TurnInv, RowsInv, NEW t \in Turns, NEW n \in Nat, at[t] \in InRecord,
           Adding(t, {Row(t, n)}), UNCHANGED ask, excuse \subseteq excuse',
           \/ at[t] \in {"question", "question row"} /\ at'[t] = "reply"
           \/ at[t] \in {"reply", "reply row"} /\ at'[t] = "end"
           \/ at'[t] = "end" /\ Unrecorded(t)'
    PROVE  RowsOf(t)'
<1>. DEFINE q == Row(t, n)
<1>1. Session(t)' = Session(t) /\ rows'[Session(t)] = rows[Session(t)] \cup {q} /\ q.by = t
  BY IntentOf DEF Session, Adding, TurnInv, StoreTypes, Row
<1>2. Recorded(t)' = Recorded(t) \cup {q}
  <2>. HIDE DEF q
  <2>. QED BY <1>1 DEF Recorded
<1>3. CASE at[t] \in {"question", "question row"} /\ at'[t] = "reply"
  <2>1. q = BuyerRow(t, n) /\ Recorded(t) = {}
    BY <1>3 DEF Row, BuyerRow, RowsInv, RowsOf
  <2>. HIDE DEF q
  <2>. QED BY <1>2, <1>3, <2>1 DEF RowsOf, BuyerRow
<1>4. CASE at[t] \in {"reply", "reply row"} /\ at'[t] = "end"
  <2>1. q = AgentRow(t, n)
    BY <1>4 DEF Row, AgentRow
  <2>2. PICK m \in Nat : Recorded(t) = {BuyerRow(t, m)}
    BY <1>4 DEF RowsInv, RowsOf
  <2>. HIDE DEF q
  <2>3. Recorded(t)' = {BuyerRow(t, m), AgentRow(t, n)}
    BY <1>2, <2>1, <2>2
  <2>. QED BY <1>4, <2>3 DEF RowsOf, BuyerRow, AgentRow
<1>. QED BY <1>3, <1>4 DEF RowsOf

LEMMA ReadNumberRows ==
    ASSUME TurnInv, RowsInv, NEW t \in Turns, NEW o \in Outcomes, ReadNumber(t, o), UNCHANGED <<ask, storage>>
    PROVE  RowsInv'
<1>. DEFINE s == Session(t)
<1>1. at[t] \in {"question", "reply"} /\ storage = "sql" /\ rows' = rows /\ excuse \subseteq excuse' /\ s \in Sessions
  BY IntentOf DEF ReadNumber, stores, Excused, TurnInv
<1>2. PICK x \in Steps : at' = [at EXCEPT ![t] = x] /\ (x = "end" \/ x = IF at[t] = "question" THEN "question row" ELSE "reply row")
  BY DEF ReadNumber, EndTurn, Steps
<1>3. Adding(t, {})
  BY <1>1 DEF Adding, TurnInv, StoreTypes
<1>4. x = "end" => Unrecorded(t)'
  BY <1>2 DEF ReadNumber, EndTurn, Excused, Unrecorded, Excusable, TurnInv, CallTypes
<1>5. RowsOf(t)'
  <2>1. at'[t] = x /\ Recorded(t)' = Recorded(t)
    BY <1>1, <1>2 DEF TurnInv, CallTypes, Recorded, Session
  <2>. QED BY <1>1, <1>2, <1>4, <2>1 DEF RowsInv, RowsOf, BuyerRow, AgentRow
<1>6. /\ \A d \in Turns : RowsOf(d)'
      /\ \A d \in Turns : Session(d)' = Session(d) /\ (d # t => at'[d] = at[d])
      /\ at'[t] = x
  BY <1>1, <1>2, <1>3, <1>5, AddingRows
<1>7. /\ x # "end" => number'[t] = LastNumber(s) /\ (Recording(t) = {} \/ Crossed(s)')
      /\ \A d \in Turns : d # t => number'[d] = number[d]
  <2>1. CASE o = "ok"
    BY <2>1 DEF ReadNumber, TurnInv, OwnTypes, Crossed, Excusable, Session
  <2>2. CASE o # "ok"
    BY <1>2, <2>2 DEF ReadNumber, EndTurn, TurnInv, CallTypes
  <2>. QED BY <2>1, <2>2
<1>8. ASSUME NEW r \in Sessions PROVE NumbersOf(r)'
  <2>1. CASE Crossed(r)
    BY <1>1, <2>1, RowReasonsStay DEF NumbersOf
  <2>2. CASE ~Crossed(r) /\ (r # s \/ x = "end")
    <3>1. \A d \in Turns : Session(d) = r /\ at'[d] \in InRow => d # t /\ at[d] \in InRow
      BY <1>6, <2>2 DEF InRow
    <3>. QED BY <1>1, <1>6, <1>7, <2>2, <3>1 DEF RowsInv, NumbersOf
  <2>3. CASE ~Crossed(r) /\ r = s /\ x # "end"
    <3>1. CASE Recording(t) = {}
      <4>1. \A d \in Turns : Session(d) = s /\ at'[d] \in InRow => d = t
        BY <1>6, <3>1 DEF Recording, InRow
      <4>2. \A q \in rows[s] : q.no <= number'[t]
        BY <1>1, <1>7, <2>3, LastNumberType
      <4>. QED BY <1>1, <1>6, <2>3, <4>1, <4>2 DEF RowsInv, NumbersOf
    <3>2. CASE Recording(t) # {}
      BY <1>7, <2>3, <3>2 DEF NumbersOf, Crossed, Excusable, Session
    <3>. QED BY <3>1, <3>2
  <2>. QED BY <2>1, <2>2, <2>3
<1>. QED BY <1>1, <1>6, <1>8 DEF RowsInv

LEMMA InsertRowRows ==
    ASSUME TurnInv, RowsInv, NEW t \in Turns, NEW o \in Outcomes, InsertRow(t, o), UNCHANGED <<ask, storage>>
    PROVE  RowsInv'
<1>. DEFINE s == Session(t)
            n == number[t] + 1
            new == IF Effect(o) THEN {Row(t, n)} ELSE {}
<1>1. /\ at[t] \in InRow /\ excuse \subseteq excuse' /\ s \in Sessions
      /\ number[t] \in Nat /\ n \in Nat
      /\ Ok(o) \/ Unrecorded(t)'
      /\ rows' = IF Effect(o) THEN [rows EXCEPT ![s] = @ \cup {Row(t, n)}] ELSE rows
      /\ \A d \in Turns : d # t => number'[d] = number[d]
  <2>1. at[t] \in InRow
    BY DEF InsertRow, InRow
  <2>2. excuse \subseteq excuse' /\ (Ok(o) \/ Unrecorded(t)')
    BY DEF InsertRow, Unrecorded, Excusable, Excused
  <2>3. s \in Sessions
    BY IntentOf DEF TurnInv
  <2>4. number \in [Turns -> Nat]
    BY DEF TurnInv, OwnTypes
  <2>5. rows' = IF Effect(o) THEN [rows EXCEPT ![s] = @ \cup {Row(t, n)}] ELSE rows
    BY DEF InsertRow
  <2>6. number' = [number EXCEPT ![t] = 0]
    BY DEF InsertRow
  <2>. QED BY <2>1, <2>2, <2>3, <2>4, <2>5, <2>6
<1>2. PICK x \in {"reply", "end"} :
          at' = [at EXCEPT ![t] = x] /\ (IF Ok(o) /\ at[t] = "question row" THEN x = "reply" ELSE x = "end")
  BY DEF InsertRow, EndTurn
<1>3. x \in Steps /\ at'[t] = x
  BY <1>2 DEF Steps, TurnInv, CallTypes
<1>4. Adding(t, new)
  <2>1. CASE Effect(o)
    <3>1. Row(t, n).by = t /\ new = {Row(t, n)} /\ rows' = [rows EXCEPT ![s] = @ \cup {Row(t, n)}]
      BY <1>1, <2>1, RowFields
    <3>. HIDE DEF n, new
    <3>. QED BY <3>1 DEF Adding
  <2>2. CASE ~Effect(o)
    <3>1. rows' = rows /\ new = {}
      BY <1>1, <2>2
    <3>. QED BY <3>1 DEF Adding, TurnInv, StoreTypes
  <2>. QED BY <2>1, <2>2
<1>5. RowsOf(t)'
  <2>1. CASE Effect(o)
    <3>1. Adding(t, {Row(t, n)})
      BY <1>4, <2>1
    <3>2. \/ at[t] \in {"question", "question row"} /\ at'[t] = "reply"
          \/ at[t] \in {"reply", "reply row"} /\ at'[t] = "end"
          \/ at'[t] = "end" /\ Unrecorded(t)'
      BY <1>1, <1>2, <1>3 DEF InRow
    <3>. HIDE DEF n
    <3>. QED BY <1>1, <3>1, <3>2, RowWritten DEF InRow, InRecord
  <2>2. CASE ~Effect(o)
    <3>1. at'[t] = "end" /\ Unrecorded(t)'
      BY <1>1, <1>2, <1>3, <2>2
    <3>. QED BY <3>1 DEF RowsOf
  <2>. QED BY <2>1, <2>2
<1>6. /\ \A d \in Turns : RowsOf(d)'
      /\ \A d \in Turns : Session(d)' = Session(d) /\ (d # t => at'[d] = at[d])
      /\ \A r \in Sessions : rows'[r] = IF r = s THEN rows[r] \cup new ELSE rows[r]
  <2>. HIDE DEF new
  <2>. QED BY <1>1, <1>2, <1>3, <1>4, <1>5, AddingRows
<1>7. \A d \in Turns : at'[d] \in InRow => d # t /\ at[d] \in InRow
  BY <1>2, <1>3, <1>6 DEF InRow
<1>8. ASSUME NEW r \in Sessions PROVE NumbersOf(r)'
  <2>1. CASE Crossed(r)
    BY <1>1, <2>1, RowReasonsStay DEF NumbersOf
  <2>2. CASE ~Crossed(r) /\ r # s
    <3>1. rows'[r] = rows[r]
      BY <1>6, <2>2
    <3>. QED BY <1>1, <1>6, <1>7, <2>2, <3>1 DEF RowsInv, NumbersOf
  <2>3. CASE ~Crossed(r) /\ r = s
    <3>1. \A d \in Turns : Session(d) = s => at'[d] \notin InRow
      BY <1>1, <1>7, <2>3 DEF RowsInv, NumbersOf
    <3>2. \A q \in rows[s] : q.no \in Nat /\ q.no <= number[t]
      BY <1>1, <2>3 DEF RowsInv, NumbersOf, TurnInv, StoreTypes, RowType
    <3>3. \A q \in rows[s] : q.no # n
      BY <1>1, <3>2
    <3>4. \A q \in new : q.no = n /\ q = Row(t, n)
      BY RowFields
    <3>5. \A q, w \in rows'[s] : q.no = w.no => q = w
      <4>1. rows'[s] = rows[s] \cup new
        BY <1>1, <1>6
      <4>2. \A q, w \in rows[s] : q.no = w.no => q = w
        BY <1>1, <2>3 DEF RowsInv, NumbersOf
      <4>. HIDE DEF new, n
      <4>. QED BY <3>3, <3>4, <4>1, <4>2
    <3>. QED BY <1>6, <2>3, <3>1, <3>5 DEF NumbersOf
  <2>. QED BY <2>1, <2>2, <2>3
<1>9. storage' = "file" => \A d \in Turns : at'[d] \notin InRow
  BY <1>7 DEF RowsInv
<1>. QED BY <1>6, <1>8, <1>9 DEF RowsInv

LEMMA AppendLineRows ==
    ASSUME TurnInv, RowsInv, NEW t \in Turns, AppendLine(t), UNCHANGED <<ask, storage>>
    PROVE  RowsInv'
<1>. DEFINE s == Session(t)
            n == LastNumber(s) + 1
<1>1. /\ at[t] \in {"question", "reply"} /\ storage = "file" /\ s \in Sessions /\ UNCHANGED <<number, excuse>>
      /\ rows' = [rows EXCEPT ![s] = @ \cup {Row(t, n)}]
  BY IntentOf DEF AppendLine, TurnInv, own, ghosts
<1>2. n \in Nat /\ \A q \in rows[s] : q.no \in Nat /\ q.no # n
  <2>1. LastNumber(s) \in Nat /\ \A q \in rows[s] : q.no <= LastNumber(s)
    BY <1>1, LastNumberType
  <2>2. \A q \in rows[s] : q.no \in Nat
    BY <1>1 DEF TurnInv, StoreTypes, RowType
  <2>. QED BY <2>1, <2>2
<1>3. PICK x \in {"reply", "end"} :
          at' = [at EXCEPT ![t] = x] /\ (IF at[t] = "question" THEN x = "reply" ELSE x = "end")
  BY DEF AppendLine, EndTurn
<1>4. x \in Steps /\ at'[t] = x
  BY <1>3 DEF Steps, TurnInv, CallTypes
<1>5. Adding(t, {Row(t, n)})
  <2>1. Row(t, n).by = t
    BY RowFields
  <2>. HIDE DEF n
  <2>. QED BY <1>1, <2>1 DEF Adding
<1>6. RowsOf(t)'
  <2>1. \/ at[t] \in {"question", "question row"} /\ at'[t] = "reply"
        \/ at[t] \in {"reply", "reply row"} /\ at'[t] = "end"
    BY <1>1, <1>3, <1>4
  <2>. HIDE DEF n
  <2>. QED BY <1>1, <1>2, <1>5, <2>1, RowWritten DEF InRecord
<1>7. /\ \A d \in Turns : RowsOf(d)'
      /\ \A d \in Turns : Session(d)' = Session(d) /\ (d # t => at'[d] = at[d])
      /\ \A r \in Sessions : rows'[r] = IF r = s THEN rows[r] \cup {Row(t, n)} ELSE rows[r]
  <2>1. excuse \subseteq excuse'
    BY <1>1
  <2>. DEFINE new == {Row(t, n)}
  <2>2. Adding(t, new) /\ RowsOf(t)'
    BY <1>5, <1>6
  <2>3. \A r \in Sessions : rows'[r] = IF r = s THEN rows[r] \cup new ELSE rows[r]
    <3>. HIDE DEF new
    <3>. QED BY <1>3, <1>4, <2>1, <2>2, AddingRows
  <2>4. /\ \A d \in Turns : RowsOf(d)'
        /\ \A d \in Turns : Session(d)' = Session(d) /\ (d # t => at'[d] = at[d])
    <3>. HIDE DEF new
    <3>. QED BY <1>3, <1>4, <2>1, <2>2, AddingRows
  <2>. QED BY <2>3, <2>4
<1>8. \A d \in Turns : at'[d] \notin InRow
  BY <1>1, <1>3, <1>4, <1>7 DEF RowsInv, InRow
<1>9. ASSUME NEW r \in Sessions PROVE NumbersOf(r)'
  <2>1. CASE Crossed(r)
    BY <1>1, <2>1, RowReasonsStay DEF NumbersOf
  <2>2. CASE ~Crossed(r) /\ r # s
    BY <1>7, <1>8, <2>2 DEF RowsInv, NumbersOf
  <2>3. CASE ~Crossed(r) /\ r = s
    <3>1. \A q, w \in rows'[s] : q.no = w.no => q = w
      <4>1. rows'[s] = rows[s] \cup {Row(t, n)} /\ Row(t, n).no = n
        BY <1>1, <1>7, RowFields
      <4>2. \A q, w \in rows[s] : q.no = w.no => q = w
        BY <1>1, <2>3 DEF RowsInv, NumbersOf
      <4>. HIDE DEF n
      <4>. QED BY <1>2, <4>1, <4>2
    <3>. QED BY <1>8, <2>3, <3>1 DEF NumbersOf
  <2>. QED BY <2>1, <2>2, <2>3
<1>. QED BY <1>7, <1>8, <1>9 DEF RowsInv
LEMMA CrashRows ==
    ASSUME TurnInv, RowsInv, NEW p \in Processes, Crash(p), UNCHANGED <<ask, storage>>
    PROVE  RowsInv'
<1>1. UNCHANGED <<rows, number>> /\ excuse \subseteq excuse'
  BY DEF Crash, stores, own
<1>2. \A d \in Turns : at'[d] = at[d] \/ at'[d] = "down"
  BY DEF Crash
<1>. QED BY <1>1, <1>2, RowsKept

LEMMA RowsInit ==
    ASSUME Init
    PROVE  RowsInv
<1>1. \A t \in Turns : at[t] = "idle"
  BY DEF Init
<1>2. \A s \in Sessions : rows[s] = {}
  BY DEF Init
<1>3. \A t \in Turns : Session(t) \in Sessions
  BY IntentOf, TurnInit DEF TurnInv
<1>. QED BY <1>1, <1>2, <1>3 DEF RowsInv, RowsOf, NumbersOf, Recorded, InRow

LEMMA RowsNext ==
    ASSUME TurnInv, RowsInv, [Next]_vars
    PROVE  RowsInv'
<1>1. CASE UNCHANGED vars
  <2>1. UNCHANGED <<ask, storage, at, rows, number, excuse>>
    BY <1>1 DEF vars, stores, own, ghosts
  <2>. QED BY <2>1, RowsKept
<1>2. ASSUME Next, NEW t \in Turns, Ordinary(t) \/ Prefers(t) \/ Saves(t) PROVE RowsInv'
  <2>1. UNCHANGED <<ask, storage>>
    BY <1>2, StepKinds
  <2>2. UNCHANGED <<rows, number>> /\ excuse \subseteq excuse'
    BY <1>2, OrdinaryKeeps, PrefersKeeps, SavesKeeps DEF own
  <2>3. \/ at[t] \in Early /\ \E x \in Early : at' = [at EXCEPT ![t] = x]
        \/ at[t] \in InFile \cup {"acting"} /\ \E x \in InFile \cup {"asking"} : at' = [at EXCEPT ![t] = x]
        \/ /\ at[t] \in InSave
           /\ \E x \in {"merging", "inserting", "updating", "saving", "question"} : at' = [at EXCEPT ![t] = x]
    BY <1>2, OrdinaryKeeps, PrefersKeeps, SavesKeeps
  <2>4. /\ at[t] \notin InRow \cup {"reply", "end", "down"}
        /\ \E x : at' = [at EXCEPT ![t] = x] /\ x \notin InRow \cup {"reply", "end", "down"}
    BY <2>3 DEF Early, InFile, InRow, InRecord, InSave, Dumped
  <2>5. at \in [Turns -> Steps]
    BY DEF TurnInv, CallTypes
  <2>. QED BY <2>1, <2>2, <2>4, <2>5, RowsKept
<1>3. ASSUME Next, NEW t \in Turns, Records(t) PROVE RowsInv'
  BY <1>3, StepKinds, ReadNumberRows, InsertRowRows, AppendLineRows DEF Records
<1>4. ASSUME Next, NEW p \in Processes, Crash(p) PROVE RowsInv'
  BY <1>4, StepKinds, CrashRows
<1>. QED BY <1>1, <1>2, <1>3, <1>4, StepKinds

LEMMA RowsTrue ==
    ASSUME TurnInv, RowsInv
    PROVE  ConversationKept
<1>1. ASSUME NEW t \in Turns, at[t] = "end" PROVE Unrecorded(t) \/ Cardinality(Recorded(t)) = 2
  <2>1. CASE Unrecorded(t)
    BY <2>1
  <2>2. ASSUME NEW n \in Nat, NEW m \in Nat, Recorded(t) = {BuyerRow(t, n), AgentRow(t, m)}
        PROVE  Cardinality(Recorded(t)) = 2
    <3>1. BuyerRow(t, n) # AgentRow(t, m)
      BY DEF BuyerRow, AgentRow
    <3>2. IsFiniteSet({BuyerRow(t, n)}) /\ Cardinality({BuyerRow(t, n)}) = 1
      BY FS_Singleton
    <3>3. Cardinality({BuyerRow(t, n)} \cup {AgentRow(t, m)}) = 2
      BY <3>1, <3>2, FS_AddElement
    <3>. QED BY <2>2, <3>3
  <2>. QED BY <1>1, <2>1, <2>2 DEF RowsInv, RowsOf
<1>2. ASSUME NEW s \in Sessions PROVE Crossed(s) \/ \A r, q \in rows[s] : r.no = q.no => r = q
  BY DEF RowsInv, NumbersOf
<1>. QED BY <1>1, <1>2 DEF ConversationKept, Unrecorded, Crossed
-----------------------------------------------------------------------------
(* The preferences: what the tools were to leave.                            *)

LEMMA InjectiveLength ==
    ASSUME NEW T, NEW list \in Seq(T), IsInjective(list)
    PROVE  Len(list) = Cardinality(Range(list))
<1>. DEFINE n == Len(list)
<1>1. n \in Nat /\ DOMAIN list = 1 .. n
  BY LenProperties
<1>2. list \in [1 .. n -> Range(list)]
  BY <1>1, LenProperties DEF Range
<1>3. list \in Bijection(1 .. n, Range(list))
  BY <1>1, <1>2 DEF Bijection, Injection, Surjection, IsInjective, Range
<1>4. ExistsBijection(1 .. n, Range(list))
  BY <1>3 DEF ExistsBijection
<1>. QED BY <1>1, <1>4, FS_CountingElements

Undone(b) == Excusable({"collided", "torn"}, b)

\* What the tool makes of a set of preferences.
Leaves(t, S) ==
    IF Wanted(t).tool = "remember" THEN S \cup {Wanted(t).pref}
    ELSE {p \in S : p.statement # Wanted(t).pref.statement}

\* One turn rewrites the list of a buyer, to what the promise will be once it is done.
PromiseOf(b) ==
    \/ Undone(b)
    \/ /\ \A t, d \in Rewriting(b) : t = d
       /\ (\A t \in Rewriting(b) : at[t] # "filling") => Range(prefs[b]) = promised[b]
       /\ \A t \in Rewriting(b) : Range(draft[t]) = Leaves(t, promised[b])

PromiseInv ==
    /\ storage = "sql" => \A t \in Turns : at[t] \notin InFile
    /\ \A b \in Buyers : PromiseOf(b)

LEMMA ChangedLeaves ==
    ASSUME TurnInv, NEW t \in Turns, at[t] \in InTool
    PROVE  Range(Changed(t)) = Leaves(t, Range(prefs[Buyer(t)]))
<1>. DEFINE list == prefs[Buyer(t)]
            pref == Wanted(t).pref
<1>1. pref \in Preference /\ list \in Seq(Preference)
  BY WantedType, IntentOf DEF TurnInv, StoreTypes
<1>2. Range(list) \subseteq Preference
  BY <1>1, RangeOfSeq
<1>. HIDE DEF list, pref
<1>3. Range(Appended(list, pref)) = Range(list) \cup {pref}
  BY <1>1, RangeAppend DEF Appended
<1>4. Range(Deleted(list, pref.statement)) = {p \in Range(list) : p.statement # pref.statement}
  <2>1. Range(Deleted(list, pref.statement)) = Range(list) \cap {p \in Preference : p.statement # pref.statement}
    BY <1>1, FilteredKeeps DEF Deleted
  <2>. QED BY <1>2, <2>1
<1>. QED BY <1>3, <1>4 DEF Changed, Remembered, Forgotten, Leaves, list, pref

LEMMA UndoneStays ==
    ASSUME excuse \subseteq excuse'
    PROVE  \A b : Undone(b) => Undone(b)'
BY DEF Undone, Excusable

\* A step that changes no list.
LEMMA PromiseKept ==
    ASSUME TurnInv, PromiseInv, UNCHANGED <<ask, storage, prefVars>>, excuse \subseteq excuse',
           \A d \in Turns : /\ at'[d] \in InFile => at'[d] = at[d] /\ used'[d] = used[d]
                            /\ at[d] = "filling" => at'[d] = at[d] \/ Undone(Buyer(d))'
    PROVE  PromiseInv'
<1>1. \A b : Undone(b) => Undone(b)'
  BY UndoneStays
<1>2. \A d \in Turns : Buyer(d)' = Buyer(d)
  BY DEF Buyer
<1>3. ASSUME NEW b \in Buyers, ~Undone(b)' PROVE PromiseOf(b)'
  <2>1. ~Undone(b)
    BY <1>1, <1>3
  <2>2. \A d \in Turns : d \in Rewriting(b)' => d \in Rewriting(b) /\ at'[d] = at[d] /\ used'[d] = used[d]
    BY <1>2 DEF Rewriting, InFile
  <2>3. \A d \in Turns : Buyer(d) = b /\ at[d] = "filling" => at'[d] = at[d]
    BY <1>2, <1>3 DEF Undone, Excusable
  <2>4. \A d \in Rewriting(b) : at[d] = "filling" => d \in Rewriting(b)' /\ at'[d] = "filling"
    BY <1>2, <2>3 DEF Rewriting
  <2>5. (\A d \in Rewriting(b)' : at'[d] # "filling") => \A d \in Rewriting(b) : at[d] # "filling"
    BY <2>4
  <2>6. Rewriting(b)' \subseteq Rewriting(b)
    BY <2>2 DEF Rewriting
  <2>7. \A d \in Rewriting(b)' : Leaves(d, promised[b])' = Leaves(d, promised[b])
    BY <2>2 DEF Leaves, Wanted, prefVars, Rewriting
  <2>. QED BY <2>1, <2>5, <2>6, <2>7 DEF PromiseInv, PromiseOf, prefVars
<1>4. storage' = "sql" => \A d \in Turns : at'[d] \notin InFile
  BY DEF PromiseInv
<1>. QED BY <1>3, <1>4 DEF PromiseInv, PromiseOf

\* A step of a turn that changes its buyer's list, or is about to.
LEMMA PromiseMoves ==
    ASSUME TurnInv, PromiseInv, NEW t \in Turns, UNCHANGED <<ask, storage, used>>, excuse \subseteq excuse',
           NEW x \in Steps, at' = [at EXCEPT ![t] = x], storage = "sql" => x \notin InFile,
           \E list : prefs' = [prefs EXCEPT ![Buyer(t)] = list],
           \E list : draft' = [draft EXCEPT ![t] = list],
           \E S : promised' = [promised EXCEPT ![Buyer(t)] = S],
           PromiseOf(Buyer(t))'
    PROVE  PromiseInv'
<1>1. \A b : Undone(b) => Undone(b)'
  BY UndoneStays
<1>2. \A d \in Turns : Buyer(d)' = Buyer(d)
  BY DEF Buyer
<1>3. /\ \A d \in Turns : d # t => at'[d] = at[d] /\ draft'[d] = draft[d]
      /\ at'[t] = x
      /\ \A b \in Buyers : b # Buyer(t) => prefs'[b] = prefs[b] /\ promised'[b] = promised[b]
  BY DEF TurnInv, CallTypes, StoreTypes
<1>4. ASSUME NEW b \in Buyers, b # Buyer(t) PROVE PromiseOf(b)'
  <2>1. Rewriting(b)' = Rewriting(b) /\ \A d \in Rewriting(b) : d # t /\ d \in Turns
    BY <1>2, <1>3, <1>4 DEF Rewriting
  <2>2. \A d \in Rewriting(b) : at'[d] = at[d] /\ draft'[d] = draft[d]
    BY <1>3, <2>1
  <2>3. \A d \in Rewriting(b) : Leaves(d, promised[b])' = Leaves(d, promised[b])
    BY <1>3, <1>4 DEF Leaves, Wanted
  <2>. QED BY <1>1, <1>3, <1>4, <2>1, <2>2, <2>3 DEF PromiseInv, PromiseOf
<1>5. storage' = "sql" => \A d \in Turns : at'[d] \notin InFile
  BY <1>3 DEF PromiseInv
<1>6. ASSUME NEW b \in Buyers, b = Buyer(t) PROVE PromiseOf(b)'
  <2>1. Buyer(t)' = b
    BY <1>6 DEF Buyer
  <2>2. Rewriting(Buyer(t))' = Rewriting(b)' /\ (Undone(Buyer(t))' <=> Undone(b)')
    BY <2>1 DEF Rewriting, Undone, Excusable
  <2>3. \A d \in Turns : Leaves(d, promised[Buyer(t)])' = Leaves(d, promised[b])'
    BY <2>1 DEF Leaves
  <2>4. Rewriting(b)' \subseteq Turns
    BY DEF Rewriting
  <2>. QED BY <2>1, <2>2, <2>3, <2>4 DEF PromiseOf
<1>. QED BY <1>4, <1>5, <1>6 DEF PromiseInv

LEMMA PromiseLeaves ==
    ASSUME TurnInv, NEW t \in Turns, at[t] \in InTool, Promise(t)
    PROVE  promised' = [promised EXCEPT ![Buyer(t)] = Leaves(t, promised[Buyer(t)])]
<1>1. Buyer(t) \in Buyers /\ promised \in [Buyers -> SUBSET Preference]
  BY IntentOf DEF TurnInv, StoreTypes
<1>2. CASE Wanted(t).tool = "remember"
  BY <1>1, <1>2 DEF Promise, Leaves
<1>3. CASE Wanted(t).tool # "remember"
  BY <1>1, <1>3 DEF Promise, Leaves
<1>. QED BY <1>2, <1>3

LEMMA RemembersPromise ==
    ASSUME TurnInv, PromiseInv, NEW t \in Turns, NEW o \in Outcomes, Remembers(t, o), UNCHANGED <<ask, storage>>
    PROVE  PromiseInv'
<1>. DEFINE b == Buyer(t)
<1>1. /\ at[t] = "acting" /\ at' = [at EXCEPT ![t] = "asking"] /\ storage = "sql" /\ b \in Buyers
      /\ UNCHANGED <<draft, used>> /\ excuse \subseteq excuse'
  <2>1. excuse \subseteq excuse'
    BY DEF Remembers, Overwrite
  <2>. QED BY <2>1, IntentOf DEF Remembers, Step, own, TurnInv
<1>2. CASE ~Effect(o)
  <2>1. UNCHANGED prefVars
    BY <1>1, <1>2 DEF Remembers, prefVars
  <2>2. at \in [Turns -> Steps]
    BY DEF TurnInv, CallTypes
  <2>. QED BY <1>1, <2>1, <2>2, PromiseKept DEF InFile
<1>3. CASE Effect(o)
  <2>1. /\ prefs' = [prefs EXCEPT ![b] = Changed(t)]
        /\ promised' = [promised EXCEPT ![b] = Leaves(t, promised[b])]
    BY <1>1, <1>3, PromiseLeaves DEF Remembers, Overwrite, InTool
  <2>2. draft' = [draft EXCEPT ![t] = draft[t]]
    BY <1>1 DEF TurnInv, StoreTypes
  <2>3. PromiseOf(b)'
    <3>1. Rewriting(b) = {} /\ Rewriting(b)' = {}
      BY <1>1 DEF PromiseInv, Rewriting, InFile, TurnInv, CallTypes
    <3>2. Undone(b) => Undone(b)'
      BY <1>1 DEF Undone, Excusable, Buyer
    <3>3. prefs'[b] = Changed(t) /\ promised'[b] = Leaves(t, promised[b])
      BY <1>1, <2>1 DEF TurnInv, StoreTypes
    <3>4. Range(Changed(t)) = Leaves(t, Range(prefs[b]))
      BY <1>1, ChangedLeaves DEF InTool
    <3>5. b' = b
      BY <1>1 DEF Buyer
    <3>. HIDE DEF b
    <3>. QED BY <1>1, <3>1, <3>2, <3>3, <3>4, <3>5 DEF PromiseInv, PromiseOf
  <2>. QED BY <1>1, <2>1, <2>2, <2>3, PromiseMoves DEF Steps, InFile
<1>. QED BY <1>2, <1>3

LEMMA ReadFilePromise ==
    ASSUME TurnInv, PromiseInv, NEW t \in Turns, Runs(t), ReadFile(t), UNCHANGED <<ask, storage>>
    PROVE  PromiseInv'
<1>. DEFINE b == Buyer(t)
<1>1. /\ at[t] = "acting" /\ storage = "file" /\ b \in Buyers /\ b' = b
      /\ UNCHANGED <<prefs, used>> /\ excuse \subseteq excuse'
  BY IntentOf DEF ReadFile, own, TurnInv, Buyer
<1>2. PICK x \in {"asking", "opening"} : at' = [at EXCEPT ![t] = x]
  BY DEF ReadFile
<1>3. at'[t] = x /\ (\A d \in Turns : d # t => at'[d] = at[d]) /\ x \in Steps
  BY <1>2 DEF TurnInv, CallTypes, Steps
<1>4. /\ prefs' = [prefs EXCEPT ![b] = prefs[b]]
      /\ \E list : draft' = [draft EXCEPT ![t] = list]
      /\ \E S : promised' = [promised EXCEPT ![b] = S]
  <2>1. prefs' = [prefs EXCEPT ![b] = prefs[b]]
    BY <1>1 DEF TurnInv, StoreTypes
  <2>2. CASE Changed(t) = prefs[Buyer(t)]
    <3>1. promised' = [promised EXCEPT ![b] = Leaves(t, promised[b])] /\ draft' = [draft EXCEPT ![t] = draft[t]]
      BY <1>1, <2>2, PromiseLeaves DEF ReadFile, TurnInv, StoreTypes, InTool
    <3>. QED BY <2>1, <3>1
  <2>3. CASE Changed(t) # prefs[Buyer(t)]
    <3>1. promised' = [promised EXCEPT ![b] = promised[b]] /\ draft' = [draft EXCEPT ![t] = Changed(t)]
      BY <1>1, <2>3 DEF ReadFile, TurnInv, StoreTypes
    <3>. QED BY <2>1, <3>1
  <2>. QED BY <2>2, <2>3
<1>5. PromiseOf(b)'
  <2>1. CASE Undone(b)'
    BY <1>1, <2>1 DEF PromiseOf, Undone, Excusable
  <2>2. CASE ~Undone(b)'
    <3>1. ~Undone(b) /\ Undone(b)' = Excusable({"collided", "torn"}, b)'
      BY <1>1, <2>2, UndoneStays DEF Undone
    <3>2. ~\E d \in Rewriting(b) : Process(d) # Process(t)
      <4>1. (\E d \in Rewriting(b) : Process(d) # Process(t)) => <<"collided", b>> \in excuse'
        BY DEF ReadFile
      <4>. QED BY <1>1, <2>2, <4>1 DEF Undone, Excusable
    <3>3. Rewriting(b) = {}
      <4>. SUFFICES ASSUME NEW d \in Rewriting(b) PROVE FALSE
        OBVIOUS
      <4>1. d \in Turns /\ at[d] \in {"opening", "filling"} /\ Process(d) = Process(t) /\ d # t
        BY <1>1, <3>2 DEF Rewriting
      <4>. QED BY <4>1 DEF Runs, Writing
    <3>4. Range(prefs[b]) = promised[b] /\ Range(Changed(t)) = Leaves(t, promised[b])
      <4>1. Range(prefs[b]) = promised[b]
        BY <1>1, <3>1, <3>3 DEF PromiseInv, PromiseOf
      <4>. QED BY <1>1, <4>1, ChangedLeaves DEF InTool
    <3>5. CASE Changed(t) = prefs[b]
      <4>1. promised' = [promised EXCEPT ![b] = Leaves(t, promised[b])] /\ x = "asking"
        BY <1>1, <1>2, <1>3, <3>5, PromiseLeaves DEF ReadFile, InTool, TurnInv, CallTypes
      <4>2. promised'[b] = Leaves(t, promised[b])
        BY <1>1, <4>1 DEF TurnInv, StoreTypes
      <4>3. Rewriting(b)' = {}
        BY <1>1, <1>3, <3>3, <4>1 DEF Rewriting, Buyer
      <4>. HIDE DEF b
      <4>. QED BY <1>1, <3>4, <3>5, <4>2, <4>3 DEF PromiseOf
    <3>6. CASE Changed(t) # prefs[b]
      <4>1. promised' = promised /\ draft' = [draft EXCEPT ![t] = Changed(t)] /\ x = "opening"
        BY <1>1, <1>2, <1>3, <3>6 DEF ReadFile, TurnInv, CallTypes
      <4>2. draft'[t] = Changed(t) /\ Leaves(t, promised[b])' = Leaves(t, promised[b])
        BY <1>1, <4>1 DEF TurnInv, StoreTypes, Leaves, Wanted
      <4>3. Rewriting(b)' = {t}
        BY <1>1, <1>3, <3>3, <4>1 DEF Rewriting, Buyer
      <4>. HIDE DEF b
      <4>. QED BY <1>1, <1>3, <3>4, <3>6, <4>1, <4>2, <4>3 DEF PromiseOf
    <3>. QED BY <3>5, <3>6
  <2>. QED BY <2>1, <2>2
<1>. QED BY <1>1, <1>2, <1>3, <1>4, <1>5, PromiseMoves
LEMMA WritesPromise ==
    ASSUME TurnInv, PromiseInv, NEW t \in Turns, OpenFile(t) \/ FillFile(t), UNCHANGED <<ask, storage>>
    PROVE  PromiseInv'
<1>. DEFINE b == Buyer(t)
<1>1. /\ at[t] \in InFile /\ t \in Rewriting(b) /\ storage = "file" /\ b \in Buyers /\ b' = b
      /\ UNCHANGED used /\ excuse \subseteq excuse'
  <2>1. at[t] \in InFile /\ UNCHANGED used /\ excuse \subseteq excuse'
    BY DEF OpenFile, FillFile, Overwrite, Step, own, InFile
  <2>2. storage = "file"
    BY <2>1 DEF PromiseInv, TurnInv, Asked
  <2>3. b \in Buyers /\ b' = b
    BY IntentOf DEF TurnInv, Buyer
  <2>. QED BY <2>1, <2>2, <2>3 DEF Rewriting, InFile
<1>2. Undone(b) => Undone(b)'
  BY <1>1 DEF Undone, Excusable, Buyer
<1>3. ~Undone(b) => /\ Rewriting(b) = {t} /\ Range(draft[t]) = Leaves(t, promised[b])
  BY <1>1 DEF PromiseInv, PromiseOf
<1>4. CASE OpenFile(t)
  <2>1. /\ at' = [at EXCEPT ![t] = "filling"] /\ prefs' = [prefs EXCEPT ![b] = << >>]
        /\ UNCHANGED <<draft, promised>>
    BY <1>4 DEF OpenFile, Overwrite, Step
  <2>2. /\ draft' = [draft EXCEPT ![t] = draft[t]] /\ promised' = [promised EXCEPT ![b] = promised[b]]
        /\ at'[t] = "filling" /\ \A d \in Turns : d # t => at'[d] = at[d]
    BY <1>1, <2>1 DEF TurnInv, StoreTypes, CallTypes
  <2>3. PromiseOf(b)'
    <3>1. CASE Undone(b)
      BY <1>1, <1>2, <3>1 DEF PromiseOf, Undone, Excusable
    <3>2. CASE ~Undone(b)
      <4>1. Rewriting(b)' = {t}
        BY <1>1, <1>3, <2>2, <3>2 DEF Rewriting, Buyer
      <4>2. Leaves(t, promised[b])' = Leaves(t, promised[b])
        BY <1>1, <2>1 DEF Leaves, Wanted
      <4>. HIDE DEF b
      <4>. QED BY <1>1, <1>3, <2>1, <2>2, <3>2, <4>1, <4>2 DEF PromiseOf
    <3>. QED BY <3>1, <3>2
  <2>4. "filling" \in Steps
    BY DEF Steps
  <2>. QED BY <1>1, <2>1, <2>2, <2>3, <2>4, PromiseMoves
<1>5. CASE FillFile(t)
  <2>1. /\ at' = [at EXCEPT ![t] = "asking"] /\ prefs' = [prefs EXCEPT ![b] = draft[t]]
        /\ promised' = [promised EXCEPT ![b] = Leaves(t, promised[b])]
        /\ draft' = [draft EXCEPT ![t] = << >>] /\ at[t] = "filling"
    BY <1>5, PromiseLeaves DEF FillFile, Overwrite, Step, InTool
  <2>2. /\ at'[t] = "asking" /\ \A d \in Turns : d # t => at'[d] = at[d]
        /\ prefs'[b] = draft[t] /\ promised'[b] = Leaves(t, promised[b])
    BY <1>1, <2>1 DEF TurnInv, StoreTypes, CallTypes
  <2>3. PromiseOf(b)'
    <3>1. CASE Undone(b)
      BY <1>1, <1>2, <3>1 DEF PromiseOf, Undone, Excusable
    <3>2. CASE ~Undone(b)
      <4>1. Rewriting(b)' = {}
        BY <1>1, <1>3, <2>2, <3>2 DEF Rewriting, Buyer
      <4>. HIDE DEF b
      <4>. QED BY <1>1, <1>3, <2>2, <3>2, <4>1 DEF PromiseOf
    <3>. QED BY <3>1, <3>2
  <2>4. "asking" \in Steps
    BY DEF Steps
  <2>. QED BY <1>1, <2>1, <2>2, <2>3, <2>4, PromiseMoves
<1>. QED BY <1>4, <1>5

LEMMA CrashPromise ==
    ASSUME TurnInv, PromiseInv, NEW p \in Processes, Crash(p), UNCHANGED <<ask, storage>>
    PROVE  PromiseInv'
<1>. DEFINE dead == {t \in Turns : Process(t) = p /\ Open(t)}
<1>1. /\ at' = [t \in Turns |-> IF t \in dead THEN "down" ELSE at[t]] /\ UNCHANGED <<prefVars, used>>
      /\ excuse \subseteq excuse' /\ \A t \in dead : at[t] = "filling" => <<"torn", Buyer(t)>> \in excuse'
  BY DEF Crash, stores, own
<1>2. ASSUME NEW d \in Turns
      PROVE  /\ at'[d] \in InFile => at'[d] = at[d] /\ used'[d] = used[d]
             /\ at[d] = "filling" => at'[d] = at[d] \/ Undone(Buyer(d))'
  BY <1>1 DEF InFile, Undone, Excusable, Buyer
<1>. QED BY <1>1, <1>2, PromiseKept

LEMMA PromiseInit == Init => PromiseInv
<1>. SUFFICES ASSUME Init PROVE PromiseInv
  OBVIOUS
<1>1. \A t \in Turns : at[t] = "idle"
  BY DEF Init
<1>2. \A b \in Buyers : promised[b] = Range(prefs[b])
  BY DEF Init
<1>3. \A b \in Buyers : Rewriting(b) = {}
  BY <1>1 DEF Rewriting
<1>. QED BY <1>1, <1>2, <1>3 DEF PromiseInv, PromiseOf, InFile

LEMMA PromiseNext == TurnInv /\ PromiseInv /\ [Next]_vars => PromiseInv'
<1>. SUFFICES ASSUME TurnInv, PromiseInv, [Next]_vars PROVE PromiseInv'
  OBVIOUS
<1>1. CASE UNCHANGED vars
  <2>1. UNCHANGED <<ask, storage, at, used, prefVars, excuse>>
    BY <1>1 DEF vars, stores, own, ghosts
  <2>. QED BY <2>1, PromiseKept
<1>2. ASSUME Next, NEW t \in Turns, Ordinary(t) \/ Saves(t) \/ Records(t) PROVE PromiseInv'
  <2>1. UNCHANGED <<ask, storage>>
    BY <1>2, StepKinds
  <2>2. UNCHANGED prefVars /\ excuse \subseteq excuse' /\ \A d \in Turns : d # t => used'[d] = used[d]
    BY <1>2, OrdinaryKeeps, SavesKeeps, RecordsKeeps DEF own
  <2>3. \/ at[t] \in Early /\ \E x \in Early : at' = [at EXCEPT ![t] = x]
        \/ /\ at[t] \in InSave
           /\ \E x \in {"merging", "inserting", "updating", "saving", "question"} : at' = [at EXCEPT ![t] = x]
        \/ /\ at[t] \in InRecord
           /\ \E x \in {"question row", "reply", "reply row", "end"} : at' = [at EXCEPT ![t] = x]
    BY <1>2, OrdinaryKeeps, SavesKeeps, RecordsKeeps
  <2>4. at[t] \notin InFile /\ \E x : at' = [at EXCEPT ![t] = x] /\ x \notin InFile
    BY <2>3 DEF Early, InFile, InRow, InRecord, InSave, Dumped
  <2>5. at \in [Turns -> Steps]
    BY DEF TurnInv, CallTypes
  <2>6. /\ \A d \in Turns : d # t => at'[d] = at[d]
        /\ at'[t] \notin InFile
    BY <2>4, <2>5
  <2>7. at[t] # "filling"
    BY <2>4 DEF InFile
  <2>. QED BY <2>1, <2>2, <2>6, <2>7, PromiseKept
<1>3. ASSUME Next, NEW t \in Turns, Runs(t), Prefers(t) PROVE PromiseInv'
  BY <1>3, StepKinds, RemembersPromise, ReadFilePromise, WritesPromise DEF Prefers
<1>4. ASSUME Next, NEW p \in Processes, Crash(p) PROVE PromiseInv'
  BY <1>4, StepKinds, CrashPromise
<1>. QED BY <1>1, <1>2, <1>3, <1>4, StepKinds

LEMMA PromiseTrue ==
    ASSUME TurnInv, ListsOnce, PromiseInv
    PROVE  PreferencesKept
<1>. SUFFICES ASSUME NEW b \in Buyers, ~Undone(b), \A t \in Rewriting(b) : at[t] # "filling"
              PROVE  Range(prefs[b]) = promised[b] /\ Len(prefs[b]) = Cardinality(promised[b])
  BY DEF PreferencesKept, Undone
<1>1. Range(prefs[b]) = promised[b]
  BY DEF PromiseInv, PromiseOf
<1>2. Len(prefs[b]) = Cardinality(Range(prefs[b]))
  BY InjectiveLength DEF ListsOnce, TurnInv, StoreTypes
<1>. QED BY <1>1, <1>2
-----------------------------------------------------------------------------
(* The snapshots: what an agent was asked and told is in what is saved of it. *)

Asks(c, t) == \E i \in DOMAIN c : c[i] = <<"asked", t>>
Tells(c, t) == \E i, j \in DOMAIN c : i < j /\ c[i] = <<"asked", t>> /\ c[j] = <<"told", t>>

LEMMA OneMore ==
    ASSUME NEW c \in Seq(Item), NEW x \in Item
    PROVE  /\ \A t : (Asks(c, t) => Asks(Append(c, x), t)) /\ (Tells(c, t) => Tells(Append(c, x), t))
           /\ \A t : x = <<"asked", t>> => Asks(Append(c, x), t)
           /\ \A t : x = <<"told", t>> /\ Asks(c, t) => Tells(Append(c, x), t)
<1>. DEFINE n == Len(c)
            more == Append(c, x)
<1>1. /\ n \in Nat /\ DOMAIN c = 1 .. n /\ DOMAIN more = 1 .. n + 1
      /\ more[n + 1] = x /\ \A i \in 1 .. n : more[i] = c[i]
  BY AppendProperties, LenProperties
<1>2. n + 1 \in 1 .. n + 1 /\ \A i \in 1 .. n : i \in 1 .. n + 1 /\ i < n + 1
  BY <1>1
<1>. HIDE DEF n, more
<1>3. ASSUME NEW t PROVE (Asks(c, t) => Asks(more, t)) /\ (Tells(c, t) => Tells(more, t))
  BY <1>1, <1>2 DEF Asks, Tells
<1>4. ASSUME NEW t, x = <<"asked", t>> PROVE Asks(more, t)
  BY <1>1, <1>2, <1>4 DEF Asks
<1>5. ASSUME NEW t, x = <<"told", t>>, Asks(c, t) PROVE Tells(more, t)
  <2>1. PICK i \in 1 .. n : c[i] = <<"asked", t>>
    BY <1>1, <1>5 DEF Asks
  <2>2. i \in DOMAIN more /\ n + 1 \in DOMAIN more /\ i < n + 1 /\ more[i] = <<"asked", t>> /\ more[n + 1] = <<"told", t>>
    BY <1>1, <1>2, <1>5, <2>1
  <2>. QED BY <2>2 DEF Tells
<1>. QED BY <1>3, <1>4, <1>5 DEF more

Settling == {"rescoping", "loading", "storing", "persisting", "saving"}
Past == InRecord \cup {"end"}
Lapsed(t) == Excusable({"unsaved"}, t) \/ Excusable({"stale", "overtaken", "twin", "torn"}, Session(t))

\* What a context was before it grew.
Within(c, d) == Len(c) <= Len(d) /\ \A i \in 1 .. Len(c) : c[i] = d[i]

LEMMA WithinOwn ==
    ASSUME NEW c \in Seq(Item), NEW x \in Item
    PROVE  Within(c, c) /\ Within(c, Append(c, x)) /\ Within(<< >>, c)
<1>1. Len(c) \in Nat /\ Len(Append(c, x)) = Len(c) + 1 /\ \A i \in 1 .. Len(c) : Append(c, x)[i] = c[i]
  BY AppendProperties, LenProperties
<1>. QED BY <1>1 DEF Within

LEMMA WithinMore ==
    ASSUME NEW b \in Seq(Item), NEW c \in Seq(Item), NEW d \in Seq(Item), Within(b, c), Within(c, d)
    PROVE  Within(b, d)
<1>1. Len(b) \in Nat /\ Len(c) \in Nat /\ Len(d) \in Nat
  BY LenProperties
<1>. QED BY <1>1 DEF Within

\* Of what one context was before, the shorter is within the longer.
LEMMA WithinBoth ==
    ASSUME NEW b \in Seq(Item), NEW c \in Seq(Item), NEW d \in Seq(Item), Within(b, d), Within(c, d), Len(b) <= Len(c)
    PROVE  Within(b, c)
<1>1. Len(b) \in Nat /\ Len(c) \in Nat /\ Len(d) \in Nat
  BY LenProperties
<1>. QED BY <1>1 DEF Within

LEMMA WithinTells ==
    ASSUME NEW c \in Seq(Item), NEW d \in Seq(Item), Within(c, d)
    PROVE  \A t : (Asks(c, t) => Asks(d, t)) /\ (Tells(c, t) => Tells(d, t))
<1>1. DOMAIN c = 1 .. Len(c) /\ DOMAIN d = 1 .. Len(d) /\ Len(c) \in Nat /\ Len(d) \in Nat
  BY LenProperties
<1>2. \A i \in DOMAIN c : i \in DOMAIN d /\ d[i] = c[i]
  BY <1>1 DEF Within
<1>. QED BY <1>2 DEF Asks, Tells

AskedOwn(t) == at[t] \in Replying => Asks(context[agent[t]], t)
ToldOwn(t) == at[t] \in Settling /\ answer[t] = "reply" => Tells(context[agent[t]], t)

\* The snapshot an agent knows of is what its context was.
Based == \A a \in Turns : Within(based[a], context[a])

\* So is a dump, and it has the reply of the turn that took it.
Dumps(t) ==
    at[t] \in Dumped =>
        LET a == dump[t].of IN
        /\ a \in Turns /\ at[a] \notin Unbuilt /\ Within(dump[t].state, context[a])
        /\ answer[t] = "reply" => Lapsed(t) \/ Tells(dump[t].state, t)

SavedTold(t) ==
    at[t] \in Past /\ answer[t] = "reply" =>
        \/ Lapsed(t) \/ Tells(saved[Session(t)], t)
        \/ \E d \in Turns : Session(d) = Session(t) /\ at[d] = "saving" /\ Tells(context[agent[d]], t)

SnapInv ==
    /\ storage = "sql" => \A t \in Turns : at[t] # "saving"
    /\ Based
    /\ \A t \in Turns : AskedOwn(t) /\ ToldOwn(t) /\ Dumps(t) /\ SavedTold(t)

\* The context of an agent that was built only grows.
Engaged == Replying \cup Settling
Growing ==
    /\ \A d \in Turns : at[d] \in Engaged => agent'[d] = agent[d]
    /\ \A a \in Turns : at[a] \notin Unbuilt => at'[a] \notin Unbuilt /\ Within(context[a], context'[a])

LEMMA LapsedStays ==
    ASSUME excuse \subseteq excuse', UNCHANGED ask
    PROVE  \A t : Lapsed(t) => Lapsed(t)'
BY DEF Lapsed, Excusable, Session

\* What a growing agent was asked and told it still was.
LEMMA GrowingTells ==
    ASSUME TurnInv, AgentInv, Growing, context' \in [Turns -> Seq(Item)], NEW d \in Turns, at[d] \in Engaged
    PROVE  \A x : /\ Asks(context[agent[d]], x) => Asks(context'[agent'[d]], x)
                  /\ Tells(context[agent[d]], x) => Tells(context'[agent'[d]], x)
<1>1. Served(d)
  BY DEF Engaged, Replying, Settling, InTool, Open, Served
<1>2. agent[d] \in Turns /\ at[agent[d]] \notin Unbuilt
  BY <1>1 DEF TurnInv, AgentsThere, AgentThere, Served, AgentInv, Owned, AgentOf
<1>3. /\ context[agent[d]] \in Seq(Item) /\ context'[agent[d]] \in Seq(Item)
      /\ agent'[d] = agent[d] /\ Within(context[agent[d]], context'[agent[d]])
  BY <1>2 DEF Growing, TurnInv, SharedTypes
<1>. QED BY <1>3, WithinTells

\* Where a turn comes to without saving, it owes no more than where it was, or has it.
Carries(d) ==
    /\ at'[d] \in Replying => at[d] \in Replying \/ AskedOwn(d)'
    /\ at'[d] \in Settling /\ answer'[d] = "reply" => (at[d] \in Settling /\ answer[d] = "reply") \/ ToldOwn(d)'
    /\ at'[d] \in Dumped => at[d] \in Dumped /\ answer'[d] = answer[d]
    /\ at'[d] \in Past /\ answer'[d] = "reply" => at[d] \in Past /\ answer[d] = "reply"
    /\ at[d] = "saving" => at'[d] = "saving" \/ <<"torn", Session(d)>> \in excuse'
    /\ at'[d] = "saving" => at[d] = "saving"

\* A step that saves nothing.
LEMMA SnapStays ==
    ASSUME TurnInv, AgentInv, SnapInv, UNCHANGED <<ask, storage, saved, dump>>, excuse \subseteq excuse', Growing,
           Based', context' \in [Turns -> Seq(Item)], \A d \in Turns : Carries(d)
    PROVE  SnapInv'
<1>1. /\ \A d : Session(d)' = Session(d)
      /\ \A d : Lapsed(d) => Lapsed(d)'
  BY LapsedStays DEF Session
<1>2. ASSUME NEW d \in Turns PROVE AskedOwn(d)' /\ ToldOwn(d)'
  <2>1. AskedOwn(d)'
    <3>. SUFFICES ASSUME at'[d] \in Replying, at[d] \in Replying PROVE Asks(context'[agent'[d]], d)
      BY DEF Carries, AskedOwn, Asks
    <3>. QED BY GrowingTells DEF SnapInv, AskedOwn, Engaged
  <2>2. ToldOwn(d)'
    <3>. SUFFICES ASSUME at'[d] \in Settling, at[d] \in Settling, answer[d] = "reply" PROVE Tells(context'[agent'[d]], d)
      BY DEF Carries, ToldOwn, Tells
    <3>. QED BY GrowingTells DEF SnapInv, ToldOwn, Engaged
  <2>. QED BY <2>1, <2>2
<1>3. ASSUME NEW d \in Turns PROVE Dumps(d)'
  <2>. DEFINE a == dump[d].of
  <2>. SUFFICES ASSUME at'[d] \in Dumped
                PROVE  /\ a \in Turns /\ at'[a] \notin Unbuilt /\ Within(dump[d].state, context'[a])
                       /\ answer'[d] = "reply" => Lapsed(d)' \/ Tells(dump[d].state, d)
    BY DEF Dumps, Within, Tells
  <2>1. at[d] \in Dumped /\ answer'[d] = answer[d]
    BY DEF Carries
  <2>2. /\ a \in Turns /\ at[a] \notin Unbuilt /\ Within(dump[d].state, context[a])
        /\ answer[d] = "reply" => Lapsed(d) \/ Tells(dump[d].state, d)
    BY <2>1 DEF SnapInv, Dumps
  <2>3. dump[d].state \in Seq(Item) /\ context[a] \in Seq(Item) /\ context'[a] \in Seq(Item)
    BY <2>2 DEF TurnInv, StoreTypes, SharedTypes
  <2>4. at'[a] \notin Unbuilt /\ Within(context[a], context'[a])
    BY <2>2 DEF Growing
  <2>. HIDE DEF a
  <2>. QED BY <1>1, <2>1, <2>2, <2>3, <2>4, WithinMore
<1>4. ASSUME NEW t \in Turns PROVE SavedTold(t)'
  <2>. SUFFICES ASSUME at'[t] \in Past, answer'[t] = "reply", ~Lapsed(t)'
                PROVE  \/ Tells(saved[Session(t)], t)
                       \/ \E d \in Turns : Session(d) = Session(t) /\ at'[d] = "saving" /\ Tells(context'[agent'[d]], t)
    BY <1>1 DEF SavedTold, Past, InRecord, InRow, Tells
  <2>1. at[t] \in Past /\ answer[t] = "reply" /\ ~Lapsed(t)
    BY <1>1 DEF Carries
  <2>2. CASE Tells(saved[Session(t)], t)
    BY <2>2
  <2>3. ASSUME NEW d \in Turns, Session(d) = Session(t), at[d] = "saving", Tells(context[agent[d]], t)
        PROVE  at'[d] = "saving" /\ Tells(context'[agent'[d]], t)
    <3>1. <<"torn", Session(d)>> \notin excuse'
      BY <1>1, <2>3 DEF Lapsed, Excusable
    <3>2. at[d] \in Engaged
      BY <2>3 DEF Engaged, Settling
    <3>. QED BY <2>3, <3>1, <3>2, GrowingTells DEF Carries
  <2>. QED BY <2>1, <2>2, <2>3 DEF SnapInv, SavedTold
<1>5. storage' = "sql" => \A d \in Turns : at'[d] # "saving"
  BY DEF SnapInv, Carries
<1>. QED BY <1>2, <1>3, <1>4, <1>5 DEF SnapInv

\* A step of one turn that leaves the contexts and the snapshots as they were.
LEMMA SnapStep ==
    ASSUME TurnInv, AgentInv, SnapInv, UNCHANGED <<ask, storage, saved, dump, context, based>>, excuse \subseteq excuse',
           NEW t \in Turns, NEW x \in Steps, at' = [at EXCEPT ![t] = x], at[t] # "saving", x # "saving",
           \A d \in Turns : /\ d # t => answer'[d] = answer[d]
                            /\ at[d] \in Engaged => agent'[d] = agent[d],
           x \in Unbuilt => at[t] \in Unbuilt, x \notin Dumped,
           x \in Replying => at[t] \in Replying,
           x \in Settling /\ answer'[t] = "reply" => at[t] \in Settling /\ answer[t] = "reply",
           x \in Past /\ answer'[t] = "reply" => at[t] \in Past /\ answer[t] = "reply"
    PROVE  SnapInv'
<1>1. at'[t] = x /\ \A d \in Turns : d # t => at'[d] = at[d]
  BY DEF TurnInv, CallTypes
<1>2. context \in [Turns -> Seq(Item)] /\ \A a \in Turns : Within(context[a], context[a])
  BY DEF Within, TurnInv, SharedTypes
<1>3. Growing
  BY <1>1, <1>2 DEF Growing
<1>4. Based'
  BY DEF SnapInv, Based, Within
<1>5. \A d \in Turns : Carries(d)
  BY <1>1 DEF Carries
<1>. QED BY <1>2, <1>3, <1>4, <1>5, SnapStays

\* The steps of a turn that is being answered, before its snapshot is saved.
Onward(t) ==
    \/ Check(t) \/ Dispatch(t) \/ Asking(t) \/ ReplyRaises(t) \/ Dispatched(t)
    \/ \E o \in Outcomes : ReadScope(t, o) \/ Lookup(t, o) \/ LoadEntries(t, o) \/ StoreEntries(t, o)

LEMMA OnwardSettles ==
    ASSUME TurnInv, NEW t \in Turns, Onward(t)
    PROVE  /\ UNCHANGED <<based, agent>> /\ \A d \in Turns : d # t => answer'[d] = answer[d]
           /\ at'[t] \in Settling /\ answer'[t] = "reply" => at[t] \in Settling /\ answer[t] = "reply"
<1>0. at \in [Turns -> Steps] /\ answer \in [Turns -> {"none", "reply", "cached", "error"}]
  BY DEF TurnInv, CallTypes, OwnTypes
<1>1. CASE Check(t) \/ Dispatch(t)
  BY <1>0, <1>1 DEF Check, Dispatch, Step, own, ghosts, Settling
<1>2. CASE Asking(t)
  <2>1. UNCHANGED <<based, agent, answer>>
    BY <1>2 DEF Asking, own, ghosts
  <2>2. at'[t] \in {"asking", "calling", "falling"}
    <3>1. CASE at' = at
      BY <1>0, <1>2, <3>1 DEF Asking, Acquire, Retry
    <3>2. CASE at' # at
      BY <1>0, <1>2, <3>2 DEF Asking, Acquire, Retry
    <3>. QED BY <3>1, <3>2
  <2>. QED BY <2>1, <2>2 DEF Settling
<1>3. CASE ReplyRaises(t)
  <2>1. UNCHANGED <<based, agent>>
    BY <1>3 DEF ReplyRaises, ghosts
  <2>2. \/ at' = [at EXCEPT ![t] = "asking"] /\ answer' = answer
        \/ answer' = [answer EXCEPT ![t] = "error"]
    BY <1>3 DEF ReplyRaises
  <2>. QED BY <1>0, <2>1, <2>2 DEF Settling
<1>4. CASE Dispatched(t)
  <2>1. UNCHANGED <<based, agent, answer>> /\ at' = [at EXCEPT ![t] = "asking"]
    BY <1>4 DEF Dispatched, own, ghosts
  <2>. QED BY <1>0, <2>1 DEF Settling
<1>5. ASSUME NEW o \in Outcomes, ReadScope(t, o)
      PROVE  /\ UNCHANGED <<based, agent>> /\ \A d \in Turns : d # t => answer'[d] = answer[d]
             /\ at'[t] \in Settling /\ answer'[t] = "reply" => at[t] \in Settling /\ answer[t] = "reply"
  <2>1. UNCHANGED <<based, agent, answer>>
    BY <1>5 DEF ReadScope
  <2>2. \/ at' = [at EXCEPT ![t] = "looking"] \/ at' = [at EXCEPT ![t] = "building"]
        \/ at[t] = "rescoping"
    BY <1>5 DEF ReadScope, Step
  <2>. QED BY <1>0, <2>1, <2>2 DEF Settling
<1>6. ASSUME NEW o \in Outcomes, Lookup(t, o)
      PROVE  /\ UNCHANGED <<based, agent>> /\ \A d \in Turns : d # t => answer'[d] = answer[d]
             /\ at'[t] \in Settling /\ answer'[t] = "reply" => at[t] \in Settling /\ answer[t] = "reply"
  <2>1. UNCHANGED <<based, agent>>
    BY <1>6 DEF Lookup, ghosts
  <2>2. \/ at' = [at EXCEPT ![t] = "building"] /\ answer' = answer
        \/ answer' = [answer EXCEPT ![t] = "cached"]
    BY <1>6 DEF Lookup
  <2>. QED BY <1>0, <2>1, <2>2 DEF Settling
<1>7. ASSUME NEW o \in Outcomes, LoadEntries(t, o) \/ StoreEntries(t, o)
      PROVE  /\ UNCHANGED <<based, agent>> /\ \A d \in Turns : d # t => answer'[d] = answer[d]
             /\ at'[t] \in Settling /\ answer'[t] = "reply" => at[t] \in Settling /\ answer[t] = "reply"
  <2>1. UNCHANGED <<based, agent, answer>> /\ at[t] \in {"loading", "storing"}
    BY <1>7 DEF LoadEntries, StoreEntries, Step, ghosts
  <2>. QED BY <2>1 DEF Settling
<1>. QED BY <1>1, <1>2, <1>3, <1>4, <1>5, <1>6, <1>7 DEF Onward

LEMMA OnwardSnap ==
    ASSUME TurnInv, AgentInv, SnapInv, NEW t \in Turns, Onward(t), UNCHANGED <<ask, storage>>
    PROVE  SnapInv'
<1>1. Ordinary(t) /\ Elsewise(t)
  BY DEF Onward, Ordinary, Elsewise
<1>2. /\ UNCHANGED <<saved, dump, context>> /\ excuse \subseteq excuse' /\ at[t] \in Early
      /\ \E x \in Early : at' = [at EXCEPT ![t] = x]
  BY <1>1, OrdinaryKeeps, ElsewiseGoesOn DEF ContextsSame
<1>3. PICK x \in Early : at' = [at EXCEPT ![t] = x]
  BY <1>2
<1>4. x \in Steps /\ x # "saving" /\ x \notin Past /\ x \notin Dumped /\ at[t] # "saving" /\ at'[t] = x
  BY <1>2, <1>3 DEF Early, Past, TurnInv, CallTypes
<1>5. (x \in Replying => at[t] \in Replying) /\ x \notin Unbuilt
  BY <1>1, <1>4, ElsewiseGoesOn DEF GoesOn, TurnInv, CallTypes
<1>. QED BY <1>2, <1>3, <1>4, <1>5, OnwardSettles, SnapStep

LEMMA StartSnap ==
    ASSUME TurnInv, AgentInv, SnapInv, NEW t \in Turns, Start(t), UNCHANGED <<ask, storage>>
    PROVE  SnapInv'
<1>1. /\ UNCHANGED <<saved, dump, context, based, answer>> /\ excuse \subseteq excuse'
      /\ at[t] = "idle" /\ \E a : agent' = [agent EXCEPT ![t] = a]
  BY DEF Start, Step, stores
<1>2. PICK x \in {"restoring", "scoping"} : at' = [at EXCEPT ![t] = x]
  BY DEF Start, Step
<1>3. x \in Steps /\ x # "saving" /\ x \notin Engaged /\ x \notin Past /\ x \notin Dumped /\ at[t] \in Unbuilt
  BY <1>1, <1>2 DEF Steps, Engaged, Replying, Settling, InTool, Past, InRecord, InRow, Dumped, Unbuilt
<1>4. \A d \in Turns : at[d] \in Engaged => agent'[d] = agent[d]
  <2>1. \A d \in Turns : at[d] \in Engaged => d # t
    BY <1>1 DEF Engaged, Replying, Settling, InTool
  <2>2. agent \in [Turns -> Turns \cup {NoTurn}]
    BY DEF TurnInv, OwnTypes
  <2>. QED BY <1>1, <2>1, <2>2
<1>. QED BY <1>1, <1>2, <1>3, <1>4, SnapStep DEF Engaged

LEMMA PrefersSnap ==
    ASSUME TurnInv, AgentInv, SnapInv, NEW t \in Turns, Prefers(t), UNCHANGED <<ask, storage>>
    PROVE  SnapInv'
<1>1. /\ UNCHANGED <<saved, dump, context, based, answer, agent>> /\ excuse \subseteq excuse'
      /\ at[t] \in InFile \cup {"acting"}
  BY PrefersKeeps DEF own
<1>2. PICK x \in InFile \cup {"asking"} : at' = [at EXCEPT ![t] = x]
  BY PrefersKeeps
<1>3. /\ x \in Steps /\ x # "saving" /\ x \notin Settling /\ x \notin Past
      /\ at[t] # "saving" /\ at[t] \in Replying /\ x \notin Dumped /\ x \notin Unbuilt
  BY <1>1, <1>2 DEF Steps, InFile, Replying, Settling, InTool, Past, InRecord, InRow, Dumped, Unbuilt
<1>. QED BY <1>1, <1>2, <1>3, SnapStep

LEMMA RecordsSnap ==
    ASSUME TurnInv, AgentInv, SnapInv, NEW t \in Turns, Records(t), UNCHANGED <<ask, storage>>
    PROVE  SnapInv'
<1>1. /\ UNCHANGED <<saved, dump, context, based, answer, agent>> /\ excuse \subseteq excuse' /\ at[t] \in InRecord
  BY RecordsKeeps
<1>2. PICK x \in {"question row", "reply", "reply row", "end"} : at' = [at EXCEPT ![t] = x]
  BY RecordsKeeps
<1>3. /\ x \in Steps /\ x # "saving" /\ x \notin Replying /\ x \notin Settling
      /\ at[t] # "saving" /\ at[t] \in Past /\ x \notin Dumped /\ x \notin Unbuilt
  BY <1>1, <1>2 DEF Steps, Replying, Settling, InTool, Past, InRecord, InRow, Dumped, Unbuilt
<1>. QED BY <1>1, <1>2, <1>3, SnapStep

LEMMA CrashSnap ==
    ASSUME TurnInv, AgentInv, SnapInv, NEW p \in Processes, Crash(p), UNCHANGED <<ask, storage>>
    PROVE  SnapInv'
<1>. DEFINE dead == {t \in Turns : Process(t) = p /\ Open(t)}
<1>1. /\ at' = [t \in Turns |-> IF t \in dead THEN "down" ELSE at[t]]
      /\ UNCHANGED <<saved, dump, context, based, answer, agent>>
      /\ excuse \subseteq excuse' /\ \A t \in dead : at[t] = "saving" => <<"torn", Session(t)>> \in excuse'
  BY DEF Crash, stores, own
<1>2. \A d \in Turns : at'[d] = at[d] \/ (d \in dead /\ at'[d] = "down")
  BY <1>1
<1>3. /\ "down" \notin Replying /\ "down" \notin Settling /\ "down" \notin Past
      /\ "down" \notin Dumped /\ "down" \notin Unbuilt
  BY DEF Replying, Settling, InTool, Past, InRecord, InRow, Dumped, Unbuilt
<1>. HIDE DEF dead
<1>4. context \in [Turns -> Seq(Item)] /\ \A a \in Turns : Within(context[a], context[a])
  BY DEF Within, TurnInv, SharedTypes
<1>5. Growing /\ Based'
  BY <1>1, <1>2, <1>3, <1>4 DEF Growing, SnapInv, Based, Within
<1>6. \A d \in Turns : Carries(d)
  BY <1>1, <1>2, <1>3 DEF Carries
<1>. QED BY <1>1, <1>4, <1>5, <1>6, SnapStays

LEMMA RestoreSnap ==
    ASSUME TurnInv, AgentInv, SnapInv, NEW t \in Turns, NEW o \in Outcomes, Restore(t, o), UNCHANGED <<ask, storage>>
    PROVE  SnapInv'
<1>1. /\ UNCHANGED <<saved, dump, answer>> /\ at[t] = "restoring" /\ at' = [at EXCEPT ![t] = "scoping"]
      /\ agent' = [agent EXCEPT ![t] = t]
      /\ \E c : context' = [context EXCEPT ![t] = c] /\ based' = [based EXCEPT ![t] = c]
  BY DEF Restore, Step, stores, Restored
<1>2. excuse \subseteq excuse'
  <2>1. IF agents[Process(t)][Session(t)] = NoTurn THEN UNCHANGED excuse ELSE Excused("twin", Session(t))
    BY DEF Restore
  <2>. QED BY <2>1 DEF Excused
<1>3. context' \in [Turns -> Seq(Item)]
  BY RestoreInv DEF TurnInv, SharedTypes
<1>4. \A c \in Seq(Item) : Within(c, c)
  BY DEF Within
<1>5. /\ \A d \in Turns : d # t => agent'[d] = agent[d] /\ context'[d] = context[d] /\ based'[d] = based[d] /\ at'[d] = at[d]
      /\ context'[t] = based'[t] /\ at'[t] = "scoping"
  BY <1>1 DEF TurnInv, CallTypes, OwnTypes, SharedTypes, GhostTypes
<1>6. Growing
  <2>1. \A d \in Turns : at[d] \in Engaged \/ at[d] \notin Unbuilt => d # t
    BY <1>1 DEF Engaged, Replying, Settling, InTool, Unbuilt
  <2>. QED BY <1>3, <1>4, <1>5, <2>1 DEF Growing
<1>7. Based'
  <2>1. \A a \in Turns : Within(based'[a], context'[a])
    BY <1>3, <1>4, <1>5 DEF SnapInv, Based
  <2>. QED BY <2>1 DEF Based, Within
<1>8. \A d \in Turns : Carries(d)
  <2>1. "scoping" \notin Replying /\ "scoping" \notin Settling /\ "scoping" \notin Past /\ "scoping" \notin Dumped
    BY DEF Replying, Settling, InTool, Past, InRecord, InRow, Dumped
  <2>. QED BY <1>1, <1>5, <2>1 DEF Carries
<1>. QED BY <1>1, <1>2, <1>3, <1>6, <1>7, <1>8, SnapStays

\* What a turn adds to the context of its agent.
LEMMA AddsSnap ==
    ASSUME TurnInv, AgentInv, SnapInv, NEW t \in Turns, Served(t), UNCHANGED <<ask, storage, saved, dump, based, agent>>,
           excuse \subseteq excuse',
           NEW list \in Seq(Item), context' = [context EXCEPT ![agent[t]] = list], Within(context[agent[t]], list),
           NEW x \in {"asking", "rescoping"}, at' = [at EXCEPT ![t] = x], at[t] # "saving",
           \A d \in Turns : d # t => answer'[d] = answer[d],
           x = "asking" => Asks(list, t), x = "rescoping" => Tells(list, t)
    PROVE  SnapInv'
<1>1. /\ at'[t] = x /\ \A d \in Turns : d # t => at'[d] = at[d]
      /\ x \notin Unbuilt /\ x \notin Dumped
  BY DEF TurnInv, CallTypes, Unbuilt, Dumped
<1>2. /\ agent[t] \in Turns /\ context'[agent[t]] = list /\ \A c \in Turns : c # agent[t] => context'[c] = context[c]
      /\ context' \in [Turns -> Seq(Item)]
  <2>1. agent[t] \in Turns
    BY AddsToOwn
  <2>. QED BY <2>1 DEF TurnInv, SharedTypes
<1>3. \A a \in Turns : Within(context[a], context'[a])
  <2>1. \A a \in Turns : context[a] \in Seq(Item) /\ Within(context[a], context[a])
    BY DEF Within, TurnInv, SharedTypes
  <2>. QED BY <1>2, <2>1
<1>4. Growing
  BY <1>1, <1>3 DEF Growing
<1>5. Based'
  <2>1. \A a \in Turns : Within(based[a], context'[a])
    <3>. SUFFICES ASSUME NEW a \in Turns PROVE Within(based[a], context'[a])
      OBVIOUS
    <3>1. based[a] \in Seq(Item) /\ context[a] \in Seq(Item) /\ context'[a] \in Seq(Item)
      BY <1>2 DEF TurnInv, SharedTypes, GhostTypes
    <3>. QED BY <1>3, <3>1, WithinMore DEF SnapInv, Based
  <2>. QED BY <2>1 DEF Based, Within
<1>6. ASSUME NEW d \in Turns PROVE Carries(d)
  <2>1. CASE d # t
    BY <1>1, <2>1 DEF Carries
  <2>2. CASE d = t
    <3>1. x # "saving" /\ x \notin Past /\ (x \in Replying => x = "asking") /\ (x \in Settling => x = "rescoping")
      BY DEF Past, InRecord, InRow, Replying, InTool, Settling
    <3>2. x = "asking" => AskedOwn(t)'
      BY <1>2 DEF AskedOwn, Asks
    <3>3. x = "rescoping" => ToldOwn(t)'
      BY <1>2 DEF ToldOwn, Tells
    <3>. QED BY <1>1, <2>2, <3>1, <3>2, <3>3 DEF Carries
  <2>. QED BY <2>1, <2>2
<1>. QED BY <1>2, <1>4, <1>5, <1>6, SnapStays

LEMMA RepliedSnap ==
    ASSUME TurnInv, AgentInv, SnapInv, NEW t \in Turns, Replied(t), UNCHANGED <<ask, storage>>
    PROVE  SnapInv'
<1>1. /\ at[t] \in {"calling", "falling"} /\ Served(t) /\ at[t] \in Replying /\ at[t] # "saving"
      /\ UNCHANGED <<agent, saved, dump, based, excuse>>
  BY DEF Replied, Answered, Holding, Open, Served, stores, Replying
<1>2. CASE used[t] < Len(Script(t))
  <2>1. at' = [at EXCEPT ![t] = "checking"] /\ UNCHANGED <<context, answer>>
    BY <1>2 DEF Replied, Script
  <2>2. /\ "checking" \in Steps /\ "checking" \notin Settling /\ "checking" \notin Past
        /\ "checking" \notin Dumped /\ "checking" \notin Unbuilt
    BY DEF Steps, Settling, Past, InRecord, InRow, Dumped, Unbuilt
  <2>. QED BY <1>1, <2>1, <2>2, SnapStep
<1>3. CASE ~(used[t] < Len(Script(t)))
  <2>. DEFINE list == Append(context[agent[t]], <<"told", t>>)
  <2>1. /\ at' = [at EXCEPT ![t] = "rescoping"] /\ context' = [context EXCEPT ![agent[t]] = list]
        /\ answer' = [answer EXCEPT ![t] = "reply"]
    BY <1>3 DEF Replied, Script
  <2>2. context[agent[t]] \in Seq(Item) /\ <<"told", t>> \in Item
    BY <1>1, AddsToOwn DEF TurnInv, SharedTypes, Said, Item
  <2>3. Asks(context[agent[t]], t)
    BY <1>1 DEF SnapInv, AskedOwn
  <2>4. list \in Seq(Item) /\ Within(context[agent[t]], list) /\ Tells(list, t)
    BY <2>2, <2>3, OneMore, WithinOwn, AppendProperties
  <2>5. \A d \in Turns : d # t => answer'[d] = answer[d]
    BY <2>1 DEF TurnInv, OwnTypes
  <2>. HIDE DEF list
  <2>. QED BY <1>1, <2>1, <2>4, <2>5, AddsSnap
<1>. QED BY <1>2, <1>3

LEMMA BuildInputsSnap ==
    ASSUME TurnInv, AgentInv, SnapInv, NEW t \in Turns, NEW o \in Outcomes, BuildInputs(t, o), UNCHANGED <<ask, storage>>
    PROVE  SnapInv'
<1>. DEFINE chosen == Selected(Listed(t, o))
            told == chosen # << >> /\ ~AlreadyInjected(t, chosen)
            c == context[agent[t]]
            asked == <<"asked", t>>
            more == IF told THEN Append(c, HintOf(chosen)) ELSE c
            list == Append(more, asked)
<1>1. /\ at[t] = "building" /\ at' = [at EXCEPT ![t] = "asking"] /\ UNCHANGED <<agent, answer, saved, dump, based>>
      /\ context' = [context EXCEPT ![agent[t]] = c \o (IF told THEN <<HintOf(chosen)>> ELSE << >>) \o <<asked>>]
  BY DEF BuildInputs, Step, own, stores
<1>2. excuse \subseteq excuse'
  BY DEF BuildInputs, MisreadIf, Excused
<1>3. Served(t) /\ agent[t] \in Turns
  <2>1. Served(t)
    BY <1>1 DEF Open, Served
  <2>. QED BY <2>1, AddsToOwn
<1>4. c \in Seq(Item) /\ asked \in Item /\ HintOf(chosen) \in Item
  BY <1>3, ListedType, SelectedType DEF TurnInv, SharedTypes, Said, Item, HintOf
<1>5. c \o (IF told THEN <<HintOf(chosen)>> ELSE << >>) \o <<asked>> = list /\ more \in Seq(Item)
  <2>. HIDE DEF c, asked, chosen, told
  <2>1. Append(c, asked) = c \o << >> \o <<asked>>
    BY <1>4, AppendIsConcat, ConcatEmptySeq
  <2>2. Append(c, HintOf(chosen)) = c \o <<HintOf(chosen)>> /\ Append(c, HintOf(chosen)) \in Seq(Item)
    BY <1>4, AppendIsConcat, AppendProperties
  <2>3. Append(Append(c, HintOf(chosen)), asked) = c \o <<HintOf(chosen)>> \o <<asked>>
    BY <1>4, <2>2, AppendIsConcat
  <2>. QED BY <1>4, <2>1, <2>2, <2>3
<1>6. list \in Seq(Item) /\ Within(c, list) /\ Asks(list, t)
  <2>1. Within(c, more)
    <3>. HIDE DEF c, chosen, told
    <3>. QED BY <1>4, WithinOwn
  <2>. HIDE DEF c, more
  <2>2. list \in Seq(Item) /\ Within(more, list) /\ Asks(list, t)
    BY <1>4, <1>5, WithinOwn, OneMore, AppendProperties
  <2>. QED BY <1>4, <1>5, <2>1, <2>2, WithinMore
<1>7. context' = [context EXCEPT ![agent[t]] = list]
  BY <1>1, <1>5
<1>. HIDE DEF list, more
<1>. QED BY <1>1, <1>2, <1>3, <1>6, <1>7, AddsSnap

\* What a step that saves changes: who was told is not who is asked, or being answered.
LEMMA SnapSaves ==
    ASSUME TurnInv, SnapInv, NEW t \in Turns, UNCHANGED <<ask, storage, context, agent, answer>>,
           excuse \subseteq excuse',
           NEW x \in {"merging", "inserting", "updating", "saving", "question"}, at' = [at EXCEPT ![t] = x],
           at[t] \in InSave, x = "saving" => at[t] = "persisting" /\ storage = "file",
           \A d \in Turns : d # t => dump'[d] = dump[d],
           x \in Dumped => dump'[t].of \in Turns /\ at[dump'[t].of] \notin Unbuilt
                           /\ Within(dump'[t].state, context[dump'[t].of])
                           /\ (answer[t] = "reply" => Lapsed(t) \/ Tells(dump'[t].state, t)),
           Based', \A d \in Turns : SavedTold(d)'
    PROVE  SnapInv'
<1>1. /\ at'[t] = x /\ \A d \in Turns : d # t => at'[d] = at[d]
      /\ x \notin Unbuilt /\ x \notin Replying /\ (x \in Settling => at[t] \in Settling)
  BY DEF TurnInv, CallTypes, Unbuilt, Replying, InTool, Settling
<1>2. /\ \A d : Session(d)' = Session(d)
      /\ \A d : Lapsed(d) => Lapsed(d)'
      /\ \A a \in Turns : at[a] \notin Unbuilt => at'[a] \notin Unbuilt
  BY <1>1, LapsedStays DEF Session
<1>3. ASSUME NEW d \in Turns PROVE AskedOwn(d)' /\ ToldOwn(d)'
  <2>1. AskedOwn(d)'
    BY <1>1 DEF SnapInv, AskedOwn, Asks
  <2>2. at'[d] \in Settling => at[d] \in Settling
    BY <1>1
  <2>3. ToldOwn(d)'
    BY <2>2 DEF SnapInv, ToldOwn, Tells
  <2>. QED BY <2>1, <2>3
<1>4. ASSUME NEW d \in Turns PROVE Dumps(d)'
  <2>. DEFINE a == dump'[d].of
  <2>. SUFFICES ASSUME at'[d] \in Dumped
                PROVE  /\ a \in Turns /\ at'[a] \notin Unbuilt /\ Within(dump'[d].state, context[a])
                       /\ answer[d] = "reply" => Lapsed(d)' \/ Tells(dump'[d].state, d)
    BY DEF Dumps, Within, Tells
  <2>1. CASE d = t
    BY <1>1, <1>2, <2>1
  <2>2. CASE d # t
    BY <1>1, <1>2, <2>2 DEF SnapInv, Dumps
  <2>. QED BY <2>1, <2>2
<1>5. storage' = "sql" => \A d \in Turns : at'[d] # "saving"
  BY <1>1 DEF SnapInv
<1>. QED BY <1>3, <1>4, <1>5 DEF SnapInv

\* The agent a turn saves was built, and is its own unless two were.
LEMMA OwnAgent ==
    ASSUME TurnInv, AgentInv, NEW t \in Turns, at[t] \in InSave
    PROVE  LET a == agents[Process(t)][Session(t)] IN
           /\ a \in Turns /\ at[a] \notin Unbuilt /\ (a = agent[t] \/ Lapsed(t)) /\ Session(t) \in Sessions
<1>1. Served(t)
  BY DEF Served, Open, InSave, Dumped
<1>2. agents[Process(t)][Session(t)] \in Turns
  BY <1>1 DEF TurnInv, AgentsThere, AgentThere, Served
<1>3. Twin(Session(t)) => Lapsed(t)
  BY DEF Twin, Lapsed, Excusable
<1>4. Process(t) \in Processes /\ Session(t) \in Sessions
  BY IntentOf DEF TurnInv
<1>. QED BY <1>1, <1>2, <1>3, <1>4 DEF AgentInv, Owned, AgentOf, SameAgent

\* All that is in the old snapshot is in the new one, or in what is to be written; or it is lost
\* for a named reason.
LEMMA SavedStays ==
    ASSUME TurnInv, SnapInv, NEW t \in Turns, UNCHANGED <<ask, storage, context, agent, answer>>,
           excuse \subseteq excuse',
           NEW x \in {"merging", "inserting", "updating", "saving", "question"}, at' = [at EXCEPT ![t] = x],
           at[t] \in InSave,
           NEW c, saved' = [saved EXCEPT ![Session(t)] = c],
           \A d \in Turns : Session(d) = Session(t) /\ ~Lapsed(d)' =>
               /\ Tells(saved[Session(t)], d) => Tells(c, d) \/ (x = "saving" /\ Tells(context[agent[t]], d))
               /\ at[t] = "saving" /\ Tells(context[agent[t]], d) => Tells(c, d),
           x = "question" /\ answer[t] = "reply" => Lapsed(t)' \/ Tells(c, t)
    PROVE  \A d \in Turns : SavedTold(d)'
<1>1. at'[t] = x /\ \A d \in Turns : d # t => at'[d] = at[d]
  BY DEF TurnInv, CallTypes
<1>2. /\ \A d : Session(d)' = Session(d)
      /\ \A d : Lapsed(d) => Lapsed(d)'
      /\ \A d \in Turns : Session(d) \in Sessions
  BY LapsedStays, IntentOf DEF Session, TurnInv
<1>3. /\ saved'[Session(t)] = c /\ \A s \in Sessions : s # Session(t) => saved'[s] = saved[s]
  BY <1>2 DEF TurnInv, StoreTypes
<1>4. SUFFICES ASSUME NEW d \in Turns, at'[d] \in Past, answer'[d] = "reply", ~Lapsed(d)'
               PROVE  \/ Tells(saved'[Session(d)], d)
                      \/ \E e \in Turns : Session(e) = Session(d) /\ at'[e] = "saving" /\ Tells(context'[agent'[e]], d)
  <2>1. \A d \in Turns : Tells(saved[Session(d)], d)' <=> Tells(saved'[Session(d)], d)
    BY <1>2 DEF Tells
  <2>2. \A d, e \in Turns : Tells(context[agent[e]], d)' <=> Tells(context'[agent'[e]], d)
    BY DEF Tells
  <2>. QED BY <1>2, <2>1, <2>2 DEF SavedTold, Past, InRecord, InRow
<1>5. CASE d = t
  <2>1. x = "question"
    BY <1>1, <1>4, <1>5 DEF Past, InRecord, InRow
  <2>. QED BY <1>3, <1>4, <1>5, <2>1
<1>6. CASE d # t
  <2>1. \/ Tells(saved[Session(d)], d)
        \/ \E e \in Turns : Session(e) = Session(d) /\ at[e] = "saving" /\ Tells(context[agent[e]], d)
    BY <1>1, <1>2, <1>4, <1>6 DEF SnapInv, SavedTold
  <2>2. CASE Tells(saved[Session(d)], d)
    <3>1. CASE Session(d) = Session(t)
      BY <1>1, <1>3, <1>4, <2>2, <3>1
    <3>2. CASE Session(d) # Session(t)
      BY <1>2, <1>3, <2>2, <3>2
    <3>. QED BY <3>1, <3>2
  <2>3. ASSUME NEW e \in Turns, Session(e) = Session(d), at[e] = "saving", Tells(context[agent[e]], d)
        PROVE  \/ Tells(saved'[Session(d)], d)
               \/ \E f \in Turns : Session(f) = Session(d) /\ at'[f] = "saving" /\ Tells(context[agent[f]], d)
    <3>1. CASE e = t
      BY <1>3, <1>4, <2>3, <3>1
    <3>2. CASE e # t
      BY <1>1, <2>3, <3>2
    <3>. QED BY <3>1, <3>2
  <2>. QED BY <2>1, <2>2, <2>3
<1>. QED BY <1>5, <1>6

\* A step that changes no snapshot.
LEMMA SavedSame ==
    ASSUME TurnInv, SnapInv, NEW t \in Turns, UNCHANGED <<ask, storage, context, agent, answer, saved>>,
           excuse \subseteq excuse',
           NEW x \in {"merging", "inserting", "updating", "question"}, at' = [at EXCEPT ![t] = x],
           at[t] \in InSave \ {"saving"},
           x = "question" /\ answer[t] = "reply" => Lapsed(t)' \/ Tells(saved[Session(t)], t)
    PROVE  \A d \in Turns : SavedTold(d)'
<1>. DEFINE c == saved[Session(t)]
<1>1. saved' = [saved EXCEPT ![Session(t)] = c]
  BY DEF TurnInv, StoreTypes
<1>. HIDE DEF c
<1>2. \A d \in Turns : Tells(saved[Session(t)], d) => Tells(c, d)
  BY DEF c
<1>3. x = "question" /\ answer[t] = "reply" => Lapsed(t)' \/ Tells(c, t)
  BY DEF c
<1>. QED BY <1>1, <1>2, <1>3, SavedStays

\* What an agent knows of is what is saved, or the snapshot is stale.
LEMMA KnownTold ==
    ASSUME TurnInv, SnapInv, NEW a \in Turns, NEW s \in Sessions, based[a] = saved[s]
    PROVE  \A d \in Turns : Tells(saved[s], d) => Tells(context[a], d)
BY WithinTells DEF SnapInv, Based, TurnInv, SharedTypes, GhostTypes

LEMMA DumpSnap ==
    ASSUME TurnInv, AgentInv, SnapInv, NEW t \in Turns, Dump(t), UNCHANGED <<ask, storage>>
    PROVE  SnapInv'
<1>. DEFINE a == agents[Process(t)][Session(t)]
<1>1. /\ at[t] = "persisting" /\ at' = [at EXCEPT ![t] = "merging"]
      /\ UNCHANGED <<context, agent, answer, saved, based, excuse>>
      /\ dump' = [dump EXCEPT ![t] = [of |-> a, state |-> context[a]]]
  BY DEF Dump, Step, shared, own, ghosts
<1>2. at[t] \in InSave \ {"saving"} /\ at[t] \in Settling
  BY <1>1 DEF InSave, Dumped, Settling
<1>3. a \in Turns /\ at[a] \notin Unbuilt /\ (a = agent[t] \/ Lapsed(t))
  BY <1>2, OwnAgent
<1>. HIDE DEF a
<1>4. /\ dump'[t].of = a /\ dump'[t].state = context[a]
      /\ \A d \in Turns : d # t => dump'[d] = dump[d]
  BY <1>1 DEF TurnInv, StoreTypes
<1>5. Within(context[a], context[a])
  BY <1>3 DEF Within, TurnInv, SharedTypes
<1>6. answer[t] = "reply" => Lapsed(t) \/ Tells(context[a], t)
  BY <1>2, <1>3 DEF SnapInv, ToldOwn
<1>7. Based'
  BY <1>1 DEF SnapInv, Based, Within
<1>8. \A d \in Turns : SavedTold(d)'
  BY <1>1, <1>2, SavedSame
<1>. QED BY <1>1, <1>2, <1>3, <1>4, <1>5, <1>6, <1>7, <1>8, SnapSaves

\* What a commit, or a merge that finds the dump in the row, leaves the agent to know of.
LEMMA BasedKnown ==
    ASSUME TurnInv, SnapInv, NEW t \in Turns, at[t] \in Dumped, UNCHANGED context, Known(t)
    PROVE  Based'
<1>1. dump[t].of \in Turns /\ Within(dump[t].state, context[dump[t].of])
  BY DEF SnapInv, Dumps
<1>2. \A b \in Turns : based'[b] = IF b = dump[t].of THEN dump[t].state ELSE based[b]
  BY <1>1 DEF Known, TurnInv, GhostTypes
<1>3. \A b \in Turns : Within(based'[b], context'[b])
  BY <1>1, <1>2 DEF SnapInv, Based
<1>. QED BY <1>3 DEF Based, Within

LEMMA MergeSnap ==
    ASSUME TurnInv, AgentInv, SnapInv, NEW t \in Turns, NEW o \in Outcomes, Merge(t, o), UNCHANGED <<ask, storage>>
    PROVE  SnapInv'
<1>1. at[t] = "merging" /\ at[t] \in Dumped /\ at[t] \in InSave \ {"saving"} /\ UNCHANGED <<context, agent, answer, saved>>
  BY DEF Merge, Step, shared, own, Dumped, InSave
<1>2. excuse \subseteq excuse'
  BY SavesKeeps DEF Saves
<1>3. /\ dump[t].of \in Turns /\ at[dump[t].of] \notin Unbuilt /\ Within(dump[t].state, context[dump[t].of])
      /\ answer[t] = "reply" => Lapsed(t) \/ Tells(dump[t].state, t)
  BY <1>1 DEF SnapInv, Dumps
<1>4. Finish(t) => \A d \in Turns : d # t => dump'[d] = dump[d]
  BY DEF Finish, TurnInv, StoreTypes
<1>5. UNCHANGED based => Based'
  BY <1>1 DEF SnapInv, Based, Within
<1>6. Lapsed(t) => Lapsed(t)'
  BY <1>2, LapsedStays
<1>7. CASE at' = [at EXCEPT ![t] = "question"] /\ Excused("unsaved", t) /\ Finish(t) /\ UNCHANGED based
  <2>1. Lapsed(t)'
    BY <1>7 DEF Excused, Lapsed, Excusable
  <2>2. \A d \in Turns : SavedTold(d)'
    BY <1>1, <1>2, <1>7, <2>1, SavedSame
  <2>3. "question" \notin Dumped
    BY DEF Dumped
  <2>. QED BY <1>1, <1>2, <1>4, <1>5, <1>7, <2>2, <2>3, SnapSaves
<1>8. CASE at' = [at EXCEPT ![t] = "question"] /\ saved[Session(t)] = dump[t].state /\ Known(t) /\ Finish(t)
  <2>1. Based'
    BY <1>1, <1>8, BasedKnown
  <2>2. \A d \in Turns : SavedTold(d)'
    BY <1>1, <1>2, <1>3, <1>6, <1>8, SavedSame
  <2>3. "question" \notin Dumped
    BY DEF Dumped
  <2>. QED BY <1>1, <1>2, <1>4, <1>8, <2>1, <2>2, <2>3, SnapSaves
<1>9. CASE /\ \E x \in {"inserting", "updating"} : at' = [at EXCEPT ![t] = x]
           /\ UNCHANGED <<dump, based>>
  <2>1. PICK x \in {"inserting", "updating"} : at' = [at EXCEPT ![t] = x]
    BY <1>9
  <2>2. \A d \in Turns : SavedTold(d)'
    BY <1>1, <1>2, <2>1, SavedSame
  <2>. QED BY <1>1, <1>2, <1>3, <1>5, <1>9, <2>1, <2>2, SnapSaves
<1>. QED BY <1>7, <1>8, <1>9 DEF Merge, Step

LEMMA PersistSnap ==
    ASSUME TurnInv, AgentInv, SnapInv, NEW t \in Turns, NEW o \in Outcomes, Persist(t, o), UNCHANGED <<ask, storage>>
    PROVE  SnapInv'
<1>. DEFINE s == Session(t)
            a == dump[t].of
            c == dump[t].state
<1>1. /\ at[t] \in Dumped /\ at[t] \in InSave \ {"saving"} /\ at' = [at EXCEPT ![t] = "question"]
      /\ UNCHANGED <<context, agent, answer>> /\ Finish(t)
  BY DEF Persist, shared, own, Dumped, InSave
<1>2. /\ \A d \in Turns : d # t => dump'[d] = dump[d]
      /\ excuse \subseteq excuse' /\ "question" \notin Dumped
      /\ s \in Sessions /\ \A d : Session(d)' = Session(d)
  BY <1>1, SavesKeeps, IntentOf DEF Finish, Saves, Session, Dumped, TurnInv, StoreTypes
<1>3. /\ a \in Turns /\ Within(c, context[a]) /\ (answer[t] = "reply" => Lapsed(t) \/ Tells(c, t))
      /\ c \in Seq(Item) /\ context[a] \in Seq(Item) /\ saved[s] \in Seq(Item)
  BY <1>1, <1>2 DEF SnapInv, Dumps, TurnInv, StoreTypes, SharedTypes
<1>4. CASE saved' = [saved EXCEPT ![s] = c] /\ Known(t) /\ Lost(t) \subseteq excuse'
  <2>1. Based'
    BY <1>1, <1>4, BasedKnown
  <2>2. ASSUME NEW d \in Turns, Session(d) = s, ~Lapsed(d)', Tells(saved[s], d) PROVE Tells(c, d)
    <3>1. <<"stale", s>> \notin excuse' /\ <<"overtaken", s>> \notin excuse'
      BY <1>2, <2>2 DEF Lapsed, Excusable
    <3>2. based[a] = saved[s] /\ ~(Len(saved[s]) > Len(c))
      BY <1>4, <3>1 DEF Lost
    <3>3. Within(saved[s], context[a])
      BY <1>3, <3>2 DEF SnapInv, Based
    <3>. HIDE DEF a, c, s
    <3>4. Len(saved[s]) <= Len(c)
      BY <1>3, <3>2, LenProperties
    <3>5. Within(saved[s], c)
      BY <1>3, <3>3, <3>4, WithinBoth
    <3>. QED BY <1>3, <2>2, <3>5, WithinTells
  <2>3. answer[t] = "reply" => Lapsed(t)' \/ Tells(c, t)
    BY <1>2, <1>3, LapsedStays
  <2>. HIDE DEF c
  <2>4. \A d \in Turns : SavedTold(d)'
    BY <1>1, <1>2, <1>4, <2>2, <2>3, SavedStays
  <2>. QED BY <1>1, <1>2, <2>1, <2>4, SnapSaves
<1>5. CASE Excused("unsaved", t) /\ UNCHANGED <<saved, based>>
  <2>1. Lapsed(t)'
    BY <1>5 DEF Excused, Lapsed, Excusable
  <2>2. Based'
    BY <1>1, <1>5 DEF SnapInv, Based, Within
  <2>3. \A d \in Turns : SavedTold(d)'
    BY <1>1, <1>2, <1>5, <2>1, SavedSame
  <2>. QED BY <1>1, <1>2, <2>2, <2>3, SnapSaves
<1>. QED BY <1>4, <1>5 DEF Persist, SaveSnapshot

LEMMA OpenSnapshotSnap ==
    ASSUME TurnInv, AgentInv, SnapInv, NEW t \in Turns, OpenSnapshot(t), UNCHANGED <<ask, storage>>
    PROVE  SnapInv'
<1>. DEFINE s == Session(t)
            a == agents[Process(t)][s]
<1>1. /\ at[t] = "persisting" /\ storage = "file" /\ at' = [at EXCEPT ![t] = "saving"]
      /\ UNCHANGED <<context, agent, answer, based, dump>> /\ at[t] \in InSave
      /\ saved' = [saved EXCEPT ![s] = << >>]
      /\ excuse \subseteq excuse' /\ (based[a] # saved[s] => <<"stale", s>> \in excuse')
  BY DEF OpenSnapshot, Step, SaveSnapshot, shared, own, InSave
<1>2. a \in Turns /\ (a = agent[t] \/ Lapsed(t)) /\ s \in Sessions
  BY <1>1, OwnAgent
<1>. HIDE DEF a
<1>3. Based' /\ "saving" \notin Dumped
  BY <1>1 DEF SnapInv, Based, Within, Dumped
<1>4. \A d : Session(d)' = Session(d) /\ (Lapsed(d) => Lapsed(d)')
  BY <1>1, LapsedStays DEF Session
<1>5. ASSUME NEW d \in Turns, Session(d) = s, ~Lapsed(d)', Tells(saved[s], d) PROVE Tells(context[agent[t]], d)
  <2>1. based[a] = saved[s]
    BY <1>1, <1>4, <1>5 DEF Lapsed, Excusable
  <2>2. Tells(context[a], d)
    BY <1>2, <1>5, <2>1, KnownTold
  <2>3. ~Twin(s)
    BY <1>4, <1>5 DEF Lapsed, Excusable, Twin
  <2>4. a = agent[t]
    <3>1. Served(t)
      BY <1>1 DEF Served, Open
    <3>. QED BY <2>3, <3>1 DEF AgentInv, SameAgent, a
  <2>. QED BY <2>2, <2>4
<1>6. \A d \in Turns : SavedTold(d)'
  BY <1>1, <1>5, SavedStays
<1>. QED BY <1>1, <1>3, <1>6, SnapSaves

LEMMA FillSnapshotSnap ==
    ASSUME TurnInv, AgentInv, SnapInv, NEW t \in Turns, FillSnapshot(t), UNCHANGED <<ask, storage>>
    PROVE  SnapInv'
<1>. DEFINE s == Session(t)
            a == agents[Process(t)][s]
<1>1. /\ at[t] = "saving" /\ at' = [at EXCEPT ![t] = "question"]
      /\ UNCHANGED <<context, agent, answer, dump>> /\ at[t] \in InSave
      /\ saved' = [saved EXCEPT ![s] = context[a]] /\ based' = [based EXCEPT ![a] = context[a]]
      /\ excuse \subseteq excuse' /\ (saved[s] # << >> => <<"stale", s>> \in excuse')
  BY DEF FillSnapshot, Step, SaveSnapshot, shared, own, InSave
<1>2. a \in Turns /\ (a = agent[t] \/ Lapsed(t)) /\ s \in Sessions
  BY <1>1, OwnAgent
<1>. HIDE DEF a
<1>3. Based' /\ "question" \notin Dumped
  <2>1. \A b \in Turns : (based'[b] = context[b] \/ based'[b] = based[b]) /\ Within(context[b], context[b])
    BY <1>1, <1>2 DEF Within, TurnInv, GhostTypes, SharedTypes
  <2>2. \A b \in Turns : Within(based'[b], context'[b])
    BY <1>1, <2>1 DEF SnapInv, Based
  <2>. QED BY <2>2 DEF Based, Within, Dumped
<1>4. \A d : Session(d)' = Session(d) /\ (Lapsed(d) => Lapsed(d)')
  BY <1>1, LapsedStays DEF Session
<1>5. ASSUME NEW d \in Turns, Session(d) = s, ~Lapsed(d)'
      PROVE  ~Tells(saved[s], d) /\ (Tells(context[agent[t]], d) => Tells(context[a], d))
  <2>1. saved[s] = << >>
    BY <1>1, <1>4, <1>5 DEF Lapsed, Excusable
  <2>2. ~Tells(saved[s], d)
    BY <2>1 DEF Tells
  <2>3. ~Twin(s)
    BY <1>4, <1>5 DEF Lapsed, Excusable, Twin
  <2>4. a = agent[t]
    <3>1. Served(t)
      BY <1>1 DEF Served, Open
    <3>. QED BY <2>3, <3>1 DEF AgentInv, SameAgent, a
  <2>. QED BY <2>2, <2>4
<1>6. answer[t] = "reply" => Lapsed(t)' \/ Tells(context[a], t)
  <2>1. answer[t] = "reply" => Tells(context[agent[t]], t)
    BY <1>1 DEF SnapInv, ToldOwn, Settling
  <2>. QED BY <1>2, <1>4, <2>1
<1>7. \A d \in Turns : SavedTold(d)'
  BY <1>1, <1>5, <1>6, SavedStays
<1>. QED BY <1>1, <1>3, <1>7, SnapSaves

LEMMA SnapInit == Init => SnapInv
<1>. SUFFICES ASSUME Init PROVE SnapInv
  OBVIOUS
<1>1. \A t \in Turns : at[t] = "idle" /\ Within(based[t], context[t])
  BY DEF Init, Within
<1>. QED BY <1>1 DEF SnapInv, Based, AskedOwn, ToldOwn, Dumps, SavedTold, Replying, InTool, Settling, Dumped,
                     Past, InRecord, InRow

LEMMA SnapNext == TurnInv /\ AgentInv /\ SnapInv /\ [Next]_vars => SnapInv'
<1>. SUFFICES ASSUME TurnInv, AgentInv, SnapInv, [Next]_vars PROVE SnapInv'
  OBVIOUS
<1>1. CASE UNCHANGED vars
  <2>1. UNCHANGED <<ask, storage, at, agent, answer, saved, dump, context, based, excuse>>
    BY <1>1 DEF vars, stores, shared, own, ghosts
  <2>2. context \in [Turns -> Seq(Item)] /\ \A a \in Turns : Within(context[a], context[a])
    BY DEF Within, TurnInv, SharedTypes
  <2>3. Growing /\ Based' /\ \A d \in Turns : Carries(d)
    BY <2>1, <2>2 DEF Growing, SnapInv, Based, Within, Carries
  <2>. QED BY <2>1, <2>2, <2>3, SnapStays
<1>2. ASSUME Next, NEW t \in Turns, Ordinary(t) PROVE SnapInv'
  BY <1>2, StepKinds, StartSnap, RestoreSnap, BuildInputsSnap, RepliedSnap, OnwardSnap DEF Ordinary, Onward
<1>3. ASSUME Next, NEW t \in Turns, Prefers(t) \/ Saves(t) \/ Records(t) PROVE SnapInv'
  BY <1>3, StepKinds, PrefersSnap, RecordsSnap, DumpSnap, MergeSnap, PersistSnap, OpenSnapshotSnap, FillSnapshotSnap
     DEF Saves
<1>4. ASSUME Next, NEW p \in Processes, Crash(p) PROVE SnapInv'
  BY <1>4, StepKinds, CrashSnap
<1>. QED BY <1>1, <1>2, <1>3, <1>4, StepKinds

LEMMA SnapTrue ==
    ASSUME SnapInv
    PROVE  SnapshotKept
<1>. SUFFICES ASSUME NEW t \in Turns, at[t] = "end", answer[t] = "reply", ~Lapsed(t)
              PROVE  Saved(t) \/ \E d \in Turns : Session(d) = Session(t) /\ at[d] = "saving"
  BY DEF SnapshotKept, Lapsed
<1>. QED BY DEF SnapInv, SavedTold, Past, InRecord, Saved, Tells

LEMMA MemoryTrue ==
    ASSUME TurnInv, ListsOnce, RowsInv, PromiseInv, SnapInv
    PROVE  MemoryKept
BY RowsTrue, PromiseTrue, SnapTrue DEF MemoryKept

(* What a turn leaves outlives it: its question and its reply in the snapshot, both its rows
   in the conversation with numbers of their own, and the preferences its tools were to leave;
   but for a failed write, a stale snapshot, an earlier dump saved over a later one, a second
   agent or a write cut short. *)
THEOREM MemorySafe == Spec => []MemoryKept
<1>1. RowsInv /\ TurnInv /\ [Next]_vars => RowsInv'
  BY RowsNext
<1>2. Init => RowsInv
  BY RowsInit
<1>3. TurnInv /\ ListsOnce /\ RowsInv /\ PromiseInv /\ SnapInv => MemoryKept
  BY MemoryTrue
<1>. QED BY TurnInit, TurnNext, AgentInit, AgentNext, ListsInit, ListsNext, <1>1, <1>2, <1>3,
            PromiseInit, PromiseNext, SnapInit, SnapNext, PTL DEF Spec
=============================================================================
