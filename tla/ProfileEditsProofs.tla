--------------------------- MODULE ProfileEditsProofs ---------------------------
(***************************************************************************)
(* Proofs about ProfileEdits, for any plans, executables and processes,    *)
(* any number of handlers, edits and searches, and any limits on profiles  *)
(* and processes.                                                          *)
(***************************************************************************)
EXTENDS ProfileEdits, FiniteSetTheorems, SequenceTheorems, TLAPS

-----------------------------------------------------------------------------
(* Facts about sets, sequences and identifiers.                            *)

\* A non-empty set of naturals has a least element.
LEMMA LeastNat ==
  ASSUME NEW T, T \subseteq Nat, T # {}
  PROVE  \E n \in T : \A m \in T : n <= m
<1> DEFINE R == OpToRel(<, Nat)
<1>1. \A x, y \in Nat : y < x => <<y, x>> \in R
  BY DEF OpToRel
<1>2. IsWellFoundedOn(R, Nat)
  BY NatLessThanWellFounded
<1> HIDE DEF R
<1>3. PICK x \in T : \A y \in T : <<y, x>> \notin R
  BY <1>2, WFMin
<1>4. ASSUME NEW m \in T PROVE x <= m
  <2>1. x \in Nat /\ m \in Nat /\ ~(m < x)
    BY <1>1, <1>3, Zenon
  <2>2. QED BY <2>1
<1>5. QED BY <1>4

\* Min picks an element of its set.
LEMMA MinIsIn ==
  ASSUME NEW T, T \subseteq Nat, T # {}
  PROVE  Min(T) \in T
<1>1. \E n \in T : \A m \in T : n <= m
  BY LeastNat
<1>2. QED BY <1>1, Zenon DEF Min

\* What Keep leaves of a sequence: an element per index, from different places of the sequence.
LEMMA KeepIs ==
  ASSUME NEW S, NEW seq \in Seq(S), NEW indices \in SUBSET DOMAIN seq
  PROVE  /\ Keep(seq, indices) \in Seq(S)
         /\ Len(Keep(seq, indices)) = Cardinality(indices)
         /\ Cardinality(indices) <= Len(seq)
         /\ \E index \in Injection(1..Cardinality(indices), indices) :
              \A n \in 1..Cardinality(indices) : Keep(seq, indices)[n] = seq[index[n]]
<1> DEFINE count == Cardinality(indices)
           upTo(i) == {j \in indices : j <= i}
           place == [i \in indices |-> Cardinality(upTo(i))]
           index == [n \in 1..count |-> CHOOSE i \in indices : Cardinality(upTo(i)) = n]
<1>1. /\ DOMAIN seq = 1..Len(seq) /\ Len(seq) \in Nat
      /\ IsFiniteSet(1..Len(seq)) /\ Cardinality(1..Len(seq)) = Len(seq)
  <2>1. DOMAIN seq = 1..Len(seq) /\ Len(seq) \in Nat
    OBVIOUS
  <2>2. IsFiniteSet(1..Len(seq)) /\ Cardinality(1..Len(seq)) = Len(seq)
    <3>1. Len(seq) \in Int /\ 1 \in Int /\ (IF 1 > Len(seq) THEN 0 ELSE Len(seq) - 1 + 1) = Len(seq)
      BY <2>1
    <3>2. QED BY <3>1, FS_Interval
  <2>3. QED BY <2>1, <2>2
<1>2. IsFiniteSet(indices) /\ count \in Nat /\ count <= Len(seq)
  BY <1>1, FS_Subset, FS_CardinalityType
<1>3. ASSUME NEW i \in indices
      PROVE  IsFiniteSet(upTo(i)) /\ Cardinality(upTo(i)) \in 1..count
  <2>1. upTo(i) \in SUBSET indices /\ i \in upTo(i)
    BY <1>1
  <2>2. IsFiniteSet(upTo(i)) /\ Cardinality(upTo(i)) <= count
    BY <2>1, <1>2, FS_Subset
  <2>3. Cardinality(upTo(i)) \in Nat /\ Cardinality(upTo(i)) # 0
    BY <2>1, <2>2, FS_CardinalityType, FS_EmptySet
  <2>4. QED BY <2>2, <2>3, <1>2
<1>4. ASSUME NEW i \in indices, NEW j \in indices, i < j
      PROVE  Cardinality(upTo(i)) # Cardinality(upTo(j))
  <2>1. upTo(i) \in SUBSET upTo(j) /\ j \in upTo(j) /\ j \notin upTo(i)
    BY <1>1, <1>4
  <2>2. QED BY <2>1, <1>3, FS_Subset
<1>5. place \in Injection(indices, 1..count)
  <2>1. place \in [indices -> 1..count]
    BY <1>3
  <2>2. ASSUME NEW i \in indices, NEW j \in indices, place[i] = place[j] PROVE i = j
    <3>1. i \in Nat /\ j \in Nat
      BY <1>1
    <3>2. Cardinality(upTo(i)) = Cardinality(upTo(j))
      BY <2>2
    <3>3. ~(i < j) /\ ~(j < i)
      BY <3>2, <1>4
    <3>4. QED BY <3>1, <3>3
  <2>3. QED BY <2>1, <2>2, Zenon DEF Injection, IsInjective
<1>6. place \in Surjection(indices, 1..count)
  BY <1>5, <1>2, FS_Injection, FS_Interval
<1>7. ASSUME NEW n \in 1..count
      PROVE  index[n] \in indices /\ Cardinality(upTo(index[n])) = n
  <2>1. \E i \in indices : Cardinality(upTo(i)) = n
    BY <1>6 DEF Surjection
  <2>2. QED BY <2>1
<1>8. index \in Injection(1..count, indices)
  <2>1. index \in [1..count -> indices]
    BY <1>7
  <2>2. ASSUME NEW m \in 1..count, NEW n \in 1..count, index[m] = index[n] PROVE m = n
    BY <2>2, <1>7
  <2> HIDE DEF index
  <2>3. QED BY <2>1, <2>2, Zenon DEF Injection, IsInjective
<1>9. Keep(seq, indices) = [n \in 1..count |-> seq[index[n]]]
  BY DEF Keep
<1>10. \A n \in 1..count : seq[index[n]] \in S
  <2>1. \A i \in indices : seq[i] \in S
    BY <1>1
  <2> HIDE DEF index
  <2>2. QED BY <2>1, <1>7
<1>11. Keep(seq, indices) \in Seq(S) /\ Len(Keep(seq, indices)) = count
  <2> HIDE DEF index
  <2>1. QED BY <1>9, <1>10, <1>2
<1>12. QED
  <2> HIDE DEF index
  <2>1. \A n \in 1..count : Keep(seq, indices)[n] = seq[index[n]]
    BY <1>9
  <2>2. QED BY <2>1, <1>11, <1>2, <1>8

\* uniqueProfileId finds an identifier that is not taken: of n + 1 suffixes, n identifiers cannot
\* take all.
LEMMA FreshId ==
  ASSUME NEW base \in Id, NEW ids, IsFiniteSet(ids)
  PROVE  UniqueId(base, ids) \in Id \ ids
<1> DEFINE With(n) == [base EXCEPT !.numbers = Append(@, n)]
           free == {n \in 2..(Cardinality(ids) + 2) : With(n) \notin ids}
           numbers == 2..(Cardinality(ids) + 2)
<1>1. CASE base \notin ids
  BY <1>1 DEF UniqueId
<1>2. CASE base \in ids
  <2>1. Cardinality(ids) \in Nat
    BY FS_CardinalityType
  <2>2. IsFiniteSet(numbers) /\ Cardinality(numbers) = Cardinality(ids) + 1
    BY <2>1, FS_Interval
  <2>3. ASSUME NEW n \in numbers PROVE With(n) \in Id
    <3>1. base.word \in STRING /\ base.numbers \in Seq(Nat) /\ n \in Nat
      BY <2>1 DEF Id
    <3>2. Append(base.numbers, n) \in Seq(Nat)
      BY <3>1
    <3>3. QED BY <3>1, <3>2 DEF Id
  <2>4. ASSUME NEW m \in numbers, NEW n \in numbers, With(m) = With(n) PROVE m = n
    <3>1. base.numbers \in Seq(Nat) /\ m \in Nat /\ n \in Nat
      BY <2>1 DEF Id
    <3>2. With(m).numbers = Append(base.numbers, m) /\ With(n).numbers = Append(base.numbers, n)
      BY DEF Id
    <3>3. /\ Append(base.numbers, m)[Len(base.numbers) + 1] = m
          /\ Append(base.numbers, n)[Len(base.numbers) + 1] = n
      BY <3>1
    <3>4. QED BY <3>2, <3>3, <2>4
  <2>5. free # {}
    <3>1. SUFFICES ASSUME free = {} PROVE FALSE
      OBVIOUS
    <3> DEFINE f == [n \in numbers |-> With(n)]
    <3>2. f \in [numbers -> ids]
      BY <3>1
    <3>3. PICK m, n \in numbers : m # n /\ f[m] = f[n]
      <4> HIDE DEF f
      <4>1. Cardinality(ids) < Cardinality(numbers)
        BY <2>1, <2>2
      <4>2. QED BY <4>1, <3>2, <2>2, FS_PigeonHole
    <3>4. QED BY <3>3, <2>4
  <2>6. Min(free) \in free
    <3>1. free \subseteq Nat
      BY <2>1
    <3>2. QED BY <3>1, <2>5, MinIsIn
  <2>7. UniqueId(base, ids) = With(Min(free))
    BY <1>2 DEF UniqueId
  <2> HIDE DEF With
  <2>8. QED BY <2>6, <2>7, <2>3
<1>3. QED BY <1>1, <1>2

-----------------------------------------------------------------------------
(* What makes a configuration fit to be saved.                             *)

\* What the window may ask for. A close behaviour that needs a plan has one.
Edits ==
  [op : {"add"}, app : Apps] \cup [op : {"settings"}, value : BOOLEAN]
    \cup [op : {"remove"}, id : Id] \cup [op : {"rename"}, id : Id, name : STRING]
    \cup [op : {"plan"}, id : Id, plan : Plan]
    \cup [op : {"close"}, id : Id, close : Closes \ {<<"specific_plan", "">>}]
    \cup [op : {"associate", "dissociate"}, id : Id, name : STRING]
    \cup [op : {"role"}, id : Id, name : STRING, role : Roles]

\* The edits of one profile, and what each makes of it.
Altering == {"rename", "plan", "close", "associate", "dissociate", "role"}

Altered(profile, edit, plans) ==
  CASE edit.op = "rename"     -> WithName(profile, edit.name)
    [] edit.op = "plan"       -> WithPlan(profile, edit.plan, plans)
    [] edit.op = "close"      -> [profile EXCEPT !.close = edit.close]
    [] edit.op = "associate"  -> Associated(profile, edit.name)
    [] edit.op = "dissociate" -> Dissociated(profile, edit.name)
    [] edit.op = "role"       -> WithRole(profile, edit.name, edit.role)

\* No two profiles have the same identifier.
Distinct(config) ==
  \A i, j \in DOMAIN config.profiles : config.profiles[i].id = config.profiles[j].id => i = j

\* The issues no user could understand: a profile of no executable, a close behaviour that
\* needs a plan and has none.
Sound(profile) == profile.isExe /\ profile.close # <<"specific_plan", "">>

Fit(config) == Distinct(config) /\ \A i \in DOMAIN config.profiles : Sound(config.profiles[i])

\* The issues that an edit may have.
Allowed == {"TooManyProfiles", "TooManyAssociatedProcesses", "EmptyProfileName"}

\* What powerPlans may hold.
Lists == {<<>>, Catalogue}

\* The priority of a profile is what its plan asks for.
Normal(profile, plans) == Priority(profile.plan, plans, profile.priority) = profile.priority

\* The plans that powercfg lists are plans.
LEMMA PlansAre == Range(Catalogue) \subseteq Plan
<1>1. \A i \in DOMAIN Catalogue : Catalogue[i] \in Plan
  BY InputsAssumption
<1>2. QED BY <1>1 DEF Range

\* priorityForPlan returns a priority, and applied to its own result returns it again.
LEMMA PriorityIs ==
  ASSUME NEW plan \in Plan, NEW plans, NEW fallback \in 0..100
  PROVE  /\ Priority(plan, plans, fallback) \in 0..100
         /\ Priority(plan, plans, Priority(plan, plans, fallback)) = Priority(plan, plans, fallback)
<1>1. Level(plan, plans) \in {"max", "high", "balanced", "none"}
  BY DEF Level, Plan
<1>2. QED BY <1>1 DEF Priority

\* preferredStartPlan returns a plan.
LEMMA PreferredIsPlan == PreferredPlan(Catalogue) \in Plan
<1> DEFINE I == {i \in 1..Len(Catalogue) : Catalogue[i].preferred}
<1>1. Catalogue \in Seq(Plan) /\ Catalogue # <<>>
  BY InputsAssumption, ProfileEditsAssumption
<1>2. \A i \in 1..Len(Catalogue) : Catalogue[i] \in Plan
  BY <1>1
<1>3. Head(Catalogue) \in Plan
  BY <1>1, <1>2
<1>4. CASE I = {}
  <2>1. SelectInSeq(Catalogue, LAMBDA plan : plan.preferred) = 0
    BY <1>4 DEF SelectInSeq
  <2>2. QED BY <2>1, <1>3 DEF PreferredPlan
<1>5. CASE I # {}
  <2>1. SelectInSeq(Catalogue, LAMBDA plan : plan.preferred) = Min(I)
    BY <1>5 DEF SelectInSeq
  <2>2. I \subseteq Nat
    BY <1>1
  <2>3. Min(I) \in I
    BY <1>5, <2>2, MinIsIn
  <2>4. Min(I) \in 1..Len(Catalogue) /\ Min(I) # 0
    BY <1>1, <2>3
  <2>5. QED BY <2>1, <2>4, <1>2 DEF PreferredPlan
<1>6. QED BY <1>4, <1>5

\* validate_config counts the identifiers: there are fewer than profiles when two are the same.
LEMMA IdsCounted ==
  ASSUME NEW config \in Config
  PROVE  /\ IsFiniteSet(Ids(config)) /\ Ids(config) \subseteq Id
         /\ Cardinality(Ids(config)) < Len(config.profiles) <=> ~Distinct(config)
<1> DEFINE S == DOMAIN config.profiles
           f == [i \in S |-> config.profiles[i].id]
<1>1. config.profiles \in Seq(Profile)
  BY DEF Config
<1>2. S = 1..Len(config.profiles) /\ Len(config.profiles) \in Nat
      /\ \A i \in S : config.profiles[i] \in Profile
  BY <1>1
<1>3. IsFiniteSet(S) /\ Cardinality(S) = Len(config.profiles)
  <2>1. Len(config.profiles) \in Int /\ 1 \in Int
        /\ (IF 1 > Len(config.profiles) THEN 0 ELSE Len(config.profiles) - 1 + 1)
             = Len(config.profiles)
    BY <1>2
  <2>2. QED BY <2>1, <1>2, FS_Interval
<1>4. f \in Surjection(S, Ids(config))
  BY DEF Ids, Surjection
<1>5. IsFiniteSet(Ids(config)) /\ Cardinality(Ids(config)) <= Cardinality(S)
      /\ (Cardinality(Ids(config)) = Cardinality(S) <=> f \in Injection(S, Ids(config)))
  <2> HIDE DEF f, S
  <2>1. QED BY <1>3, <1>4, FS_Surjection
<1>6. f \in Injection(S, Ids(config)) <=> Distinct(config)
  BY DEF Injection, IsInjective, Distinct, Ids
<1>7. Ids(config) \subseteq Id
  BY <1>2 DEF Ids, Profile
<1>8. Cardinality(Ids(config)) \in Nat
  BY <1>5, FS_CardinalityType
<1>9. QED
  <2> HIDE DEF f, S
  <2>1. QED BY <1>2, <1>3, <1>5, <1>6, <1>7, <1>8

\* What each issue of a profile tells of it. A typed priority is never out of range.
LEMMA ProfileIssuesAre ==
  ASSUME NEW profile \in Profile
  PROVE  /\ "EmptyProfileName" \in ProfileIssues(profile) <=> profile.name = ""
         /\ "InvalidExecutableName" \in ProfileIssues(profile) <=> ~profile.isExe
         /\ "MissingRestorePowerPlan" \in ProfileIssues(profile)
              <=> profile.close = <<"specific_plan", "">>
         /\ "InvalidPriority" \notin ProfileIssues(profile)
         /\ "TooManyAssociatedProcesses" \in ProfileIssues(profile)
              <=> Len(profile.processes) > MaxProcesses
         /\ ProfileIssues(profile) \subseteq
              {"EmptyProfileName", "InvalidExecutableName", "MissingRestorePowerPlan",
               "InvalidPriority", "TooManyAssociatedProcesses"}
<1>1. ~(profile.priority > 100)
  <2>1. profile.priority \in 0..100
    BY DEF Profile
  <2>2. QED BY <2>1
<1>2. QED BY <1>1 DEF ProfileIssues

\* A profile without issues is sound; a sound one has only issues the user can understand.
LEMMA SoundIssues ==
  ASSUME NEW profile \in Profile
  PROVE  /\ ProfileIssues(profile) = {} => Sound(profile)
         /\ Sound(profile) => ProfileIssues(profile) \subseteq Allowed
  BY ProfileIssuesAre DEF Sound, Allowed

\* The same of a whole configuration.
LEMMA FitIssues ==
  ASSUME NEW config \in Config
  PROVE  /\ Issues(config) = {} => Fit(config)
         /\ Fit(config) => Issues(config) \subseteq Allowed
<1> DEFINE P == config.profiles
           each == UNION {ProfileIssues(P[i]) : i \in DOMAIN P}
           many == {code \in {"TooManyProfiles"} : Len(P) > MaxProfiles}
           twice == {code \in {"DuplicateProfileId"} : Cardinality(Ids(config)) < Len(P)}
<1>1. \A i \in DOMAIN P : P[i] \in Profile
  BY DEF Config
<1>2. Issues(config) = each \cup many \cup twice
  BY DEF Issues
<1>3. \A i \in DOMAIN P : ProfileIssues(P[i]) \subseteq each
  OBVIOUS
<1>4. twice = {} <=> Distinct(config)
  BY IdsCounted
<1>5. many \subseteq Allowed
  BY DEF Allowed
<1>6. (\A i \in DOMAIN P : ProfileIssues(P[i]) \subseteq Allowed) => each \subseteq Allowed
  OBVIOUS
<1> HIDE DEF each, many, twice
<1>7. ASSUME Issues(config) = {} PROVE Fit(config)
  BY <1>1, <1>2, <1>3, <1>4, <1>7, SoundIssues DEF Fit
<1>8. ASSUME Fit(config) PROVE Issues(config) \subseteq Allowed
  BY <1>1, <1>2, <1>4, <1>5, <1>6, <1>8, SoundIssues DEF Fit
<1>9. QED BY <1>7, <1>8

-----------------------------------------------------------------------------
(* Edits of one profile.                                                   *)

\* removeAssociatedProcessFromProfile changes the processes of a profile, if anything.
LEMMA DissociatedIs ==
  ASSUME NEW profile \in Profile, NEW name
  PROVE  \/ Dissociated(profile, name) = profile
         \/ \E processes \in Seq(Process) :
              Dissociated(profile, name) = [profile EXCEPT !.processes = processes]
<1> DEFINE P == profile.processes
           I == {i \in DOMAIN P : P[i].name # name}
<1>1. P \in Seq(Process)
  BY DEF Profile
<1>2. I \in SUBSET DOMAIN P
  OBVIOUS
<1>3. Keep(P, I) \in Seq(Process)
  <2> HIDE DEF I, P
  <2>1. QED BY <1>1, <1>2, KeepIs
<1>4. Dissociated(profile, name) = IF name = profile.exe THEN profile
                                   ELSE [profile EXCEPT !.processes = Keep(P, I)]
  BY DEF Dissociated
<1>5. QED
  <2> HIDE DEF I, P
  <2>1. QED BY <1>3, <1>4

\* What an edit of a profile keeps: its type, its identifier, that it is sound, that its priority
\* follows from its plan.
LEMMA AlteredDoes ==
  ASSUME NEW profile \in Profile, NEW edit \in Edits, edit.op \in Altering, NEW plans
  PROVE  LET altered == Altered(profile, edit, plans)
         IN /\ altered \in Profile
            /\ altered.id = profile.id
            /\ Sound(profile) => Sound(altered)
            /\ Normal(profile, plans) => Normal(altered, plans)
<1> DEFINE altered == Altered(profile, edit, plans)
           Goal == /\ altered \in Profile
                   /\ altered.id = profile.id
                   /\ Sound(profile) => Sound(altered)
                   /\ Normal(profile, plans) => Normal(altered, plans)
<1> SUFFICES Goal
  OBVIOUS
<1>1. CASE edit.op = "rename"
  <2>1. edit.name \in STRING
    BY <1>1 DEF Edits
  <2>2. altered = WithName(profile, edit.name)
    BY <1>1 DEF Altered
  <2>3. QED BY <2>1, <2>2 DEF WithName, Profile, Sound, Normal
<1>2. CASE edit.op = "plan"
  <2>1. edit.plan \in Plan
    BY <1>2 DEF Edits
  <2>2. altered = WithPlan(profile, edit.plan, plans)
    BY <1>2 DEF Altered
  <2>3. profile.priority \in 0..100
    BY DEF Profile
  <2>4. CASE edit.plan = profile.plan
    <3>1. altered = profile
      BY <2>2, <2>4 DEF WithPlan, Profile
    <3>2. QED BY <3>1
  <2>5. CASE edit.plan # profile.plan
    <3> DEFINE priority == Priority(edit.plan, plans, profile.priority)
    <3>1. altered = [profile EXCEPT !.plan = edit.plan, !.priority = priority]
      BY <2>2, <2>5 DEF WithPlan, Profile
    <3>2. priority \in 0..100 /\ Priority(edit.plan, plans, priority) = priority
      BY <2>1, <2>3, PriorityIs
    <3> HIDE DEF priority
    <3>3. altered.plan = edit.plan /\ altered.priority = priority
      BY <3>1 DEF Profile
    <3>4. Normal(altered, plans)
      BY <3>2, <3>3 DEF Normal
    <3> HIDE DEF altered
    <3>5. QED BY <2>1, <3>1, <3>2, <3>4 DEF Profile, Sound
  <2>6. QED BY <2>4, <2>5
<1>3. CASE edit.op = "close"
  <2>1. edit.close \in Closes /\ edit.close # <<"specific_plan", "">>
    BY <1>3 DEF Edits
  <2>2. altered = [profile EXCEPT !.close = edit.close]
    BY <1>3 DEF Altered
  <2>3. QED BY <2>1, <2>2 DEF Profile, Sound, Normal
<1>4. CASE edit.op = "associate"
  <2>1. edit.name \in STRING
    BY <1>4 DEF Edits
  <2>2. altered = Associated(profile, edit.name)
    BY <1>4 DEF Altered
  <2>3. CASE altered = profile
    BY <2>3
  <2>4. CASE altered # profile
    <3> DEFINE processes == Append(profile.processes, [name |-> edit.name, role |-> "companion"])
    <3>1. altered = [profile EXCEPT !.processes = processes]
      BY <2>2, <2>4 DEF Associated
    <3>2. profile.processes \in Seq(Process)
      BY DEF Profile
    <3>3. processes \in Seq(Process)
      <4>1. [name |-> edit.name, role |-> "companion"] \in Process
        BY <2>1 DEF Process, Roles
      <4>2. QED BY <3>2, <4>1
    <3> HIDE DEF processes, altered
    <3>4. QED BY <3>1, <3>3 DEF Profile, Sound, Normal
  <2>5. QED BY <2>3, <2>4
<1>5. CASE edit.op = "dissociate"
  <2>1. altered = Dissociated(profile, edit.name)
    BY <1>5 DEF Altered
  <2>2. CASE altered = profile
    BY <2>2
  <2>3. ASSUME NEW processes \in Seq(Process), altered = [profile EXCEPT !.processes = processes]
        PROVE  Goal
    <3> HIDE DEF altered
    <3>1. QED BY <2>3 DEF Profile, Sound, Normal
  <2>4. QED BY <2>1, <2>2, <2>3, DissociatedIs
<1>6. CASE edit.op = "role"
  <2>1. edit.role \in Roles
    BY <1>6 DEF Edits
  <2> DEFINE P == profile.processes
             processes == [i \in DOMAIN P |-> IF P[i].name = edit.name
                                              THEN [P[i] EXCEPT !.role = edit.role] ELSE P[i]]
  <2>2. altered = [profile EXCEPT !.processes = processes]
    BY <1>6 DEF Altered, WithRole, Profile
  <2>3. processes \in Seq(Process)
    <3>1. P \in Seq(Process)
      BY DEF Profile
    <3>2. DOMAIN P = 1..Len(P) /\ Len(P) \in Nat /\ \A i \in DOMAIN P : P[i] \in Process
      BY <3>1
    <3>3. \A i \in DOMAIN P : processes[i] \in Process
      BY <2>1, <3>2 DEF Process
    <3> HIDE DEF P
    <3>4. processes = [i \in 1..Len(P) |-> processes[i]]
      BY <3>2
    <3> HIDE DEF processes
    <3>5. QED BY <3>2, <3>3, <3>4
  <2> HIDE DEF processes, altered
  <2>4. QED BY <2>2, <2>3 DEF Profile, Sound, Normal
<1>7. QED BY <1>1, <1>2, <1>3, <1>4, <1>5, <1>6 DEF Altering

\* Edited alters the profile that the edit names, and no other.
LEMMA EditedIs ==
  ASSUME NEW config \in Config, NEW edit \in Edits, edit.op \in Altering, NEW plans
  PROVE  Edited(config, edit, plans) =
           [config EXCEPT !.profiles =
              [i \in DOMAIN @ |-> IF @[i].id = edit.id THEN Altered(@[i], edit, plans) ELSE @[i]]]
<1>1. CASE edit.op = "rename"
  BY <1>1 DEF Edited, OnProfile, Altered
<1>2. CASE edit.op = "plan"
  BY <1>2 DEF Edited, OnProfile, Altered
<1>3. CASE edit.op = "close"
  BY <1>3 DEF Edited, OnProfile, Altered
<1>4. CASE edit.op = "associate"
  BY <1>4 DEF Edited, OnProfile, Altered
<1>5. CASE edit.op = "dissociate"
  BY <1>5 DEF Edited, OnProfile, Altered
<1>6. CASE edit.op = "role"
  BY <1>6 DEF Edited, OnProfile, Altered
<1>7. QED BY <1>1, <1>2, <1>3, <1>4, <1>5, <1>6 DEF Altering

-----------------------------------------------------------------------------
(* Edits of a configuration.                                               *)

\* What was fit and settled still is.
NoWorse(config, edited, plans) ==
  /\ edited \in Config
  /\ Fit(config) => Fit(edited)
  /\ (\A i \in DOMAIN config.profiles : Normal(config.profiles[i], plans))
       => \A i \in DOMAIN edited.profiles : Normal(edited.profiles[i], plans)

\* A configuration with other profiles.
LEMMA MadeOf ==
  ASSUME NEW config \in Config, NEW profiles \in Seq(Profile)
  PROVE  /\ [config EXCEPT !.profiles = profiles] \in Config
         /\ [config EXCEPT !.profiles = profiles].profiles = profiles
  BY DEF Config

\* The edits of a profile make no configuration worse.
LEMMA AlteringIsNoWorse ==
  ASSUME NEW config \in Config, NEW edit \in Edits, edit.op \in Altering, NEW plans
  PROVE  NoWorse(config, Edited(config, edit, plans), plans)
<1> DEFINE P == config.profiles
           A(i) == IF P[i].id = edit.id THEN Altered(P[i], edit, plans) ELSE P[i]
           Q == [i \in DOMAIN P |-> A(i)]
           edited == Edited(config, edit, plans)
<1>1. P \in Seq(Profile) /\ DOMAIN P = 1..Len(P) /\ Len(P) \in Nat
      /\ \A i \in DOMAIN P : P[i] \in Profile
  <2>1. P \in Seq(Profile)
    BY DEF Config
  <2> HIDE DEF P
  <2>2. QED BY <2>1
<1>2. ASSUME NEW i \in DOMAIN P
      PROVE  /\ Q[i] \in Profile /\ Q[i].id = P[i].id
             /\ Sound(P[i]) => Sound(Q[i])
             /\ Normal(P[i], plans) => Normal(Q[i], plans)
  <2>1. Q[i] = A(i) /\ P[i] \in Profile
    BY <1>1
  <2>2. CASE P[i].id = edit.id
    BY <2>1, <2>2, AlteredDoes
  <2>3. CASE P[i].id # edit.id
    BY <2>1, <2>3
  <2>4. QED BY <2>2, <2>3
<1>3. DOMAIN Q = DOMAIN P /\ Q \in Seq(Profile)
  <2>1. Q = [i \in 1..Len(P) |-> Q[i]] /\ DOMAIN Q = DOMAIN P
    BY <1>1
  <2> HIDE DEF Q, P
  <2>2. QED BY <1>1, <1>2, <2>1
<1>4. edited = [config EXCEPT !.profiles = Q]
  BY EditedIs DEF Config
<1>5. edited \in Config /\ edited.profiles = Q
  <2> HIDE DEF Q, edited
  <2>1. QED BY <1>3, <1>4, MadeOf
<1> HIDE DEF edited, Q, A
<1>6. Fit(config) => Fit(edited)
  BY <1>2, <1>3, <1>5 DEF Fit, Distinct
<1>7. (\A i \in DOMAIN P : Normal(P[i], plans)) => \A i \in DOMAIN Q : Normal(Q[i], plans)
  BY <1>2, <1>3
<1>8. QED BY <1>5, <1>6, <1>7 DEF NoWorse, edited

\* Nor does an edit of the settings.
LEMMA SettingsIsNoWorse ==
  ASSUME NEW config \in Config, NEW edit \in Edits, edit.op = "settings", NEW plans
  PROVE  NoWorse(config, Edited(config, edit, plans), plans)
<1>1. edit.value \in BOOLEAN
  BY DEF Edits
<1>2. Edited(config, edit, plans) = [config EXCEPT !.settings = edit.value]
  BY DEF Edited
<1> DEFINE edited == [config EXCEPT !.settings = edit.value]
<1>3. edited \in Config /\ edited.profiles = config.profiles
  BY <1>1 DEF Config
<1> HIDE DEF edited
<1>4. Fit(config) => Fit(edited)
  BY <1>3 DEF Fit, Distinct
<1>5. NoWorse(config, edited, plans)
  BY <1>3, <1>4 DEF NoWorse
<1>6. QED BY <1>2, <1>5 DEF edited

\* Nor does removing a profile: those that stay were different before.
LEMMA RemoveIsNoWorse ==
  ASSUME NEW config \in Config, NEW edit \in Edits, edit.op = "remove", NEW plans
  PROVE  NoWorse(config, Edited(config, edit, plans), plans)
<1> DEFINE P == config.profiles
           I == {i \in DOMAIN P : P[i].id # edit.id}
           K == Keep(P, I)
           edited == Edited(config, edit, plans)
<1>1. P \in Seq(Profile) /\ I \in SUBSET DOMAIN P
  BY DEF Config
<1>2. edited = [config EXCEPT !.profiles = K]
  BY DEF Edited, Config
<1>3. /\ K \in Seq(Profile) /\ Len(K) = Cardinality(I)
      /\ \E index \in Injection(1..Cardinality(I), I) :
           \A n \in 1..Cardinality(I) : K[n] = P[index[n]]
  <2> HIDE DEF P, I
  <2>1. QED BY <1>1, KeepIs
<1>4. PICK index \in Injection(1..Cardinality(I), I) :
        \A n \in 1..Cardinality(I) : K[n] = P[index[n]]
  BY <1>3
<1> HIDE DEF K, I
<1>5. DOMAIN K = 1..Cardinality(I)
  BY <1>3
<1>6. \A n \in DOMAIN K : index[n] \in DOMAIN P /\ K[n] = P[index[n]]
  BY <1>1, <1>4, <1>5 DEF Injection
<1>7. \A m, n \in DOMAIN K : index[m] = index[n] => m = n
  BY <1>4, <1>5 DEF Injection, IsInjective
<1>8. edited \in Config /\ edited.profiles = K
  <2> HIDE DEF edited
  <2>1. QED BY <1>2, <1>3, MadeOf
<1> HIDE DEF edited
<1>9. Distinct(config) => Distinct(edited)
  BY <1>6, <1>7, <1>8 DEF Distinct
<1>10. Fit(config) => Fit(edited)
  BY <1>6, <1>8, <1>9 DEF Fit
<1>11. QED BY <1>6, <1>8, <1>10 DEF NoWorse, edited

\* Nor does adding one: its identifier is new, and its priority that of its plan.
LEMMA AddIsNoWorse ==
  ASSUME NEW config \in Config, NEW edit \in Edits, edit.op = "add", NEW plans \in Lists,
         ~Refused(edit, plans)
  PROVE  NoWorse(config, Edited(config, edit, plans), plans)
<1> DEFINE P == config.profiles
           new == Created(edit.app, Ids(config), plans)
           Q == Append(P, new)
           edited == Edited(config, edit, plans)
<1>1. /\ edit.app \in Apps /\ edit.app.isExe = TRUE /\ plans = Catalogue
      /\ edit.app.exe \in STRING /\ edit.app.name \in STRING /\ edit.app.slug \in Id
  <2>1. edit.app \in Apps
    BY DEF Edits
  <2>2. edit.app \in [exe : STRING, name : STRING, slug : Id, isExe : BOOLEAN]
    BY <2>1, InputsAssumption
  <2>3. QED BY <2>1, <2>2 DEF Refused, Lists
<1>2. P \in Seq(Profile) /\ Len(P) \in Nat /\ \A i \in 1..Len(P) : P[i] \in Profile
  <2>1. P \in Seq(Profile)
    BY DEF Config
  <2> HIDE DEF P
  <2>2. QED BY <2>1
<1>3. IsFiniteSet(Ids(config))
  BY IdsCounted
<1>4. UniqueId(edit.app.slug, Ids(config)) \in Id \ Ids(config)
  BY <1>1, <1>3, FreshId
<1>5. /\ PreferredPlan(plans) \in Plan
      /\ Priority(PreferredPlan(plans), plans, 70) \in 0..100
      /\ Priority(PreferredPlan(plans), plans, Priority(PreferredPlan(plans), plans, 70))
           = Priority(PreferredPlan(plans), plans, 70)
  <2>1. PreferredPlan(plans) \in Plan
    BY <1>1, PreferredIsPlan
  <2>2. 70 \in 0..100
    OBVIOUS
  <2>3. QED BY <2>1, <2>2, PriorityIs
<1>6. new \in Profile /\ new.id \notin Ids(config) /\ Sound(new) /\ Normal(new, plans)
  <2>1. <<>> \in Seq(Process) /\ <<"previous_plan", "">> \in Closes
    BY DEF Closes
  <2>2. new \in Profile
    BY <1>1, <1>4, <1>5, <2>1 DEF Created, Profile
  <2>3. new.id \notin Ids(config)
    BY <1>4 DEF Created
  <2>4. Sound(new)
    BY <1>1 DEF Created, Sound
  <2>5. Normal(new, plans)
    BY <1>5 DEF Created, Normal
  <2>6. QED BY <2>2, <2>3, <2>4, <2>5
<1>7. edited = [config EXCEPT !.profiles = Q]
  BY DEF Edited, Config
<1> HIDE DEF new
<1>8. /\ Q \in Seq(Profile) /\ DOMAIN Q = 1..(Len(P) + 1) /\ Q[Len(P) + 1] = new
      /\ \A i \in 1..Len(P) : Q[i] = P[i]
  <2> HIDE DEF P
  <2>1. QED BY <1>2, <1>6
<1> HIDE DEF Q
<1>9. edited \in Config /\ edited.profiles = Q
  <2> HIDE DEF edited
  <2>1. QED BY <1>7, <1>8, MadeOf
<1> HIDE DEF edited
<1>10. \A i \in 1..Len(P) : P[i].id # new.id
  <2>1. DOMAIN P = 1..Len(P)
    BY <1>2
  <2>2. QED BY <2>1, <1>6 DEF Ids
<1>11. \A i \in DOMAIN Q : i \in 1..Len(P) \/ i = Len(P) + 1
  BY <1>2, <1>8
<1>12. DOMAIN P = 1..Len(P)
  BY <1>2
<1>13. Distinct(config) => Distinct(edited)
  BY <1>8, <1>9, <1>10, <1>11, <1>12 DEF Distinct
<1>14. Fit(config) => Fit(edited)
  BY <1>6, <1>8, <1>9, <1>11, <1>12, <1>13 DEF Fit
<1>15. (\A i \in DOMAIN P : Normal(P[i], plans)) => \A i \in DOMAIN Q : Normal(Q[i], plans)
  BY <1>6, <1>8, <1>11, <1>12
<1>16. QED BY <1>9, <1>14, <1>15 DEF NoWorse, edited

\* No edit that is not refused makes a configuration worse.
LEMMA EditedIsNoWorse ==
  ASSUME NEW config \in Config, NEW edit \in Edits, NEW plans \in Lists, ~Refused(edit, plans)
  PROVE  NoWorse(config, Edited(config, edit, plans), plans)
<1>1. edit.op \in {"add", "settings", "remove"} \cup Altering
  BY DEF Edits, Altering
<1>2. QED BY <1>1, AlteringIsNoWorse, SettingsIsNoWorse, RemoveIsNoWorse, AddIsNoWorse

-----------------------------------------------------------------------------
(* Priorities.                                                             *)

\* Every priority follows from its plan.
Settled(config, plans) == \A i \in DOMAIN config.profiles : Normal(config.profiles[i], plans)

\* normalizeProfilePriorities settles a configuration and leaves its issues what they were.
LEMMA NormalizedIs ==
  ASSUME NEW config \in Config, NEW plans
  PROVE  /\ Normalized(config, plans) \in Config
         /\ Issues(Normalized(config, plans)) = Issues(config)
         /\ Settled(Normalized(config, plans), plans)
<1> DEFINE P == config.profiles
           normal(p) == [p EXCEPT !.priority = Priority(p.plan, plans, p.priority)]
           Q == [i \in DOMAIN P |-> normal(P[i])]
           normalized == Normalized(config, plans)
<1>1. P \in Seq(Profile) /\ DOMAIN P = 1..Len(P) /\ Len(P) \in Nat
      /\ \A i \in DOMAIN P : P[i] \in Profile
  <2>1. P \in Seq(Profile)
    BY DEF Config
  <2> HIDE DEF P
  <2>2. QED BY <2>1
<1>2. ASSUME NEW i \in DOMAIN P
      PROVE  /\ Q[i] \in Profile /\ Normal(Q[i], plans)
             /\ Q[i].id = P[i].id /\ ProfileIssues(Q[i]) = ProfileIssues(P[i])
  <2> DEFINE p == P[i]
             priority == Priority(p.plan, plans, p.priority)
             q == [p EXCEPT !.priority = priority]
  <2>1. p \in Profile /\ p.plan \in Plan /\ p.priority \in 0..100
    BY <1>1 DEF Profile
  <2>2. priority \in 0..100 /\ Priority(p.plan, plans, priority) = priority
    BY <2>1, PriorityIs
  <2>3. Q[i] = q
    OBVIOUS
  <2> HIDE DEF priority, p
  <2>4. /\ q \in Profile /\ q.plan = p.plan /\ q.priority = priority /\ q.id = p.id
        /\ q.name = p.name /\ q.isExe = p.isExe /\ q.close = p.close
        /\ q.processes = p.processes
    BY <2>1, <2>2 DEF Profile
  <2> HIDE DEF q
  <2>5. Normal(q, plans)
    BY <2>2, <2>4 DEF Normal
  <2>6. ~(q.priority > 100) /\ ~(p.priority > 100)
    BY <2>1, <2>2, <2>4
  <2>7. ProfileIssues(q) = ProfileIssues(p)
    BY <2>4, <2>6 DEF ProfileIssues
  <2>8. QED BY <2>3, <2>4, <2>5, <2>7 DEF p
<1>3. DOMAIN Q = DOMAIN P /\ Q \in Seq(Profile) /\ Len(Q) = Len(P)
  <2>1. Q = [i \in 1..Len(P) |-> Q[i]] /\ DOMAIN Q = DOMAIN P
    BY <1>1
  <2> HIDE DEF Q, P
  <2>2. QED BY <1>1, <1>2, <2>1
<1>4. normalized = [config EXCEPT !.profiles = Q]
  BY DEF Normalized, Config
<1>5. normalized \in Config /\ normalized.profiles = Q
  <2> HIDE DEF Q, normalized
  <2>1. QED BY <1>3, <1>4, MadeOf
<1> HIDE DEF Q, normalized
<1>6. Settled(normalized, plans)
  BY <1>2, <1>3, <1>5 DEF Settled
<1>7. Ids(normalized) = Ids(config)
  BY <1>2, <1>3, <1>5 DEF Ids
<1>8. {ProfileIssues(Q[i]) : i \in DOMAIN Q} = {ProfileIssues(P[i]) : i \in DOMAIN P}
  BY <1>2, <1>3
<1>9. Issues(normalized) = Issues(config)
  BY <1>3, <1>5, <1>7, <1>8 DEF Issues
<1>10. QED BY <1>5, <1>6, <1>9 DEF normalized

\* The configurations that normalizeProfilePriorities leaves alone are the settled ones.
LEMMA SettledIs ==
  ASSUME NEW config \in Config, NEW plans
  PROVE  Normalized(config, plans) = config <=> Settled(config, plans)
<1>1. ASSUME Normalized(config, plans) = config
      PROVE  Settled(config, plans)
  BY <1>1, NormalizedIs
<1>2. ASSUME Settled(config, plans)
      PROVE  Normalized(config, plans) = config
  <2> DEFINE P == config.profiles
             normal(p) == [p EXCEPT !.priority = Priority(p.plan, plans, p.priority)]
             Q == [i \in DOMAIN P |-> normal(P[i])]
  <2>1. P \in Seq(Profile) /\ \A i \in DOMAIN P : P[i] \in Profile
    <3>1. P \in Seq(Profile)
      BY DEF Config
    <3> HIDE DEF P
    <3>2. QED BY <3>1
  <2>2. ASSUME NEW i \in DOMAIN P PROVE normal(P[i]) = P[i]
    <3>1. P[i] \in Profile /\ Priority(P[i].plan, plans, P[i].priority) = P[i].priority
      BY <1>2, <2>1 DEF Settled, Normal
    <3> HIDE DEF P
    <3>2. QED BY <3>1 DEF Profile
  <2>3. Q = P
    <3>1. Q = [i \in DOMAIN P |-> P[i]]
      BY <2>2
    <3>2. P = [i \in DOMAIN P |-> P[i]]
      <4> HIDE DEF P
      <4>1. QED BY <2>1
    <3>3. QED BY <3>1, <3>2
  <2>4. Normalized(config, plans) = [config EXCEPT !.profiles = Q]
    BY DEF Normalized, Config
  <2> HIDE DEF Q
  <2>5. QED BY <2>3, <2>4 DEF Config
<1>3. QED BY <1>1, <1>2

-----------------------------------------------------------------------------
(* The inductive invariant.                                                *)

\* Calls of the window. At first the queue holds two of the start-up.
Sources == Editors \cup {"startup", "detect"}
Whats == {"plans", "rest", "load", "save", "events"}
Calls == [from : Sources, what : Whats]
Opening == <<Call("startup", "plans"), Call("startup", "rest")>>

\* The locals of a handler across an await, and those of finishStartupRefresh.
EditorState == [at : {"idle", "load", "save", "events"}, edit : Edits \cup {NoEdit},
                base : Config \cup {NoConfig}, next : Config \cup {NoConfig}]
StartupState == [at : {"plans", "rest", "save", "done"},
                 base : Config \cup {NoConfig}, next : Config \cup {NoConfig}]

\* Handlers under way, and those that have computed an edit.
Active(e) == editor[e].at # "idle"
Pending(e) == editor[e].at \in {"save", "events"}
Resting == \A e \in Editors : ~Active(e)
Others(e) == \A f \in Editors : f # e => ~Active(f)
\* Nobody but autoDetectProfiles has two calls in a queue.
Single(q) == \A i, j \in DOMAIN q : q[i].from = q[j].from /\ q[i].from # "detect" => i = j

\* The variables keep their types.
TypeInv ==
  /\ disk \in Config
  /\ screen \in Config \cup {NoConfig}
  /\ screen = NoConfig => games = {}
  /\ games \subseteq Id
  /\ catalogue \in Lists
  /\ busy \in BOOLEAN
  /\ queue \in Seq(Calls)
  /\ editor \in [Editors -> EditorState]
  /\ startup \in StartupState
  /\ quirks \subseteq {"overlap", "unread", "unsaved"}
  /\ edits \in 0..MaxEdits

\* powerLoading lets one handler run at a time, and none before the plans are read.
BusyInv ==
  /\ ~busy => Resting
  /\ startup.at = "plans" => busy /\ Resting
  /\ \A e \in Editors : Active(e) => Others(e)

\* The queue holds the calls that the start-up and the handlers wait for.
QueueInv ==
  /\ startup.at = "plans" => queue = Opening
  /\ startup.at # "plans" => /\ Single(queue)
                             /\ \A call \in Range(queue) : call.from = "startup" =>
                                  startup.at # "done" /\ call.what = startup.at
  /\ \A call \in Range(queue) : call.from \in Editors =>
        Active(call.from) /\ call.what = editor[call.from].at
  /\ \A e \in Editors : Active(e) => \E call \in Range(queue) : call.from = e
  /\ quirks = {} => \A call \in Range(queue) : call.from # "detect"

\* Without an overlap, the window shows the files, or is reading the events of what it has
\* saved; and a save is of the configuration in the files.
DiskInv ==
  "overlap" \notin quirks =>
    /\ screen \in {disk, NoConfig} \/ \E e \in Editors : editor[e].at = "events"
    /\ \A e \in Editors : /\ editor[e].at = "save" => editor[e].base = disk
                          /\ editor[e].at = "events" => editor[e].next = disk
    /\ startup.at = "save" => startup.base = disk /\ Resting

\* The files and the screen hold valid configurations, from which no edit makes a worse one.
ValidInv ==
  /\ Issues(disk) = {}
  /\ screen # NoConfig => Issues(screen) = {}
  /\ \A e \in Editors :
       /\ Active(e) => editor[e].edit \in Edits
       /\ Pending(e) => /\ editor[e].base \in Config /\ Issues(editor[e].base) = {}
                        /\ NoWorse(editor[e].base, editor[e].next, catalogue)
       /\ editor[e].at = "events" => Issues(editor[e].next) = {}
  /\ startup.at = "save" => startup.next \in Config /\ Issues(startup.next) = {}

\* When nothing went wrong, edits are computed from the screen, and the start-up settles the
\* files.
FreshInv ==
  quirks = {} =>
    /\ screen # NoConfig
    /\ \A e \in Editors : editor[e].at # "load" /\ (Pending(e) => editor[e].base = screen)
    /\ startup.at = "save" => Settled(startup.next, catalogue)
    /\ startup.at = "done" /\ catalogue # <<>> => Settled(disk, catalogue)

Inv == TypeInv /\ BusyInv /\ QueueInv /\ DiskInv /\ ValidInv /\ FreshInv

\* currentConfig is not taken for a configuration while the window has none.
LEMMA NoConfigIsNone == NoConfig \notin Config
<1>1. \A config \in Config : "settings" \in DOMAIN config
  BY DEF Config
<1>2. "settings" \notin DOMAIN NoConfig
  BY DEF NoConfig
<1>3. QED BY <1>1, <1>2

\* A call that is served leaves the others in the queue.
LEMMA TailIs ==
  ASSUME NEW S, NEW q \in Seq(S), q # <<>>
  PROVE  /\ Tail(q) \in Seq(S) /\ Head(q) \in Range(q)
         /\ Range(Tail(q)) \subseteq Range(q)
         /\ Range(q) \subseteq Range(Tail(q)) \cup {Head(q)}
         /\ Single(q) => Single(Tail(q))
         /\ Single(q) /\ Head(q).from # "detect" =>
              \A call \in Range(Tail(q)) : call.from # Head(q).from
<1>1. /\ Tail(q) \in Seq(S) /\ Len(q) \in Nat \ {0} /\ DOMAIN q = 1..Len(q)
      /\ DOMAIN Tail(q) = 1..(Len(q) - 1) /\ Head(q) = q[1]
      /\ \A i \in DOMAIN Tail(q) : Tail(q)[i] = q[i + 1] /\ i + 1 \in DOMAIN q /\ i + 1 # 1
  OBVIOUS
<1>2. ASSUME NEW i \in DOMAIN q, i # 1
      PROVE  i - 1 \in DOMAIN Tail(q) /\ Tail(q)[i - 1] = q[i]
  <2>1. i - 1 \in DOMAIN Tail(q) /\ (i - 1) + 1 = i
    BY <1>1, <1>2
  <2>2. QED BY <1>1, <2>1
<1>3. 1 \in DOMAIN q
  BY <1>1
<1>4. Head(q) \in Range(q) /\ Range(Tail(q)) \subseteq Range(q)
  BY <1>1, <1>3 DEF Range
<1>5. Range(q) \subseteq Range(Tail(q)) \cup {Head(q)}
  BY <1>1, <1>2 DEF Range
<1>6. ASSUME Single(q) PROVE Single(Tail(q))
  <2>1. SUFFICES ASSUME NEW i \in DOMAIN Tail(q), NEW j \in DOMAIN Tail(q),
                        Tail(q)[i].from = Tail(q)[j].from, Tail(q)[i].from # "detect"
                 PROVE  i = j
    BY Zenon DEF Single
  <2>2. i + 1 = j + 1
    <3>1. /\ i + 1 \in DOMAIN q /\ j + 1 \in DOMAIN q
          /\ q[i + 1].from = q[j + 1].from /\ q[i + 1].from # "detect"
      BY <1>1, <2>1
    <3>2. QED BY <1>6, <3>1, Zenon DEF Single
  <2>3. QED BY <1>1, <2>2
<1>7. ASSUME Single(q), Head(q).from # "detect", NEW i \in DOMAIN Tail(q)
      PROVE  Tail(q)[i].from # Head(q).from
  BY <1>1, <1>3, <1>7 DEF Single
<1>8. QED BY <1>1, <1>4, <1>5, <1>6, <1>7, Zenon DEF Range

\* A call that is sent is the only one of its sender, if the sender had none in the queue.
LEMMA AppendIs ==
  ASSUME NEW S, NEW q \in Seq(S), NEW call \in S
  PROVE  /\ Append(q, call) \in Seq(S)
         /\ Range(Append(q, call)) = Range(q) \cup {call}
         /\ Single(q) /\ (call.from = "detect" \/ \A c \in Range(q) : c.from # call.from)
              => Single(Append(q, call))
<1>1. /\ Append(q, call) \in Seq(S) /\ Len(q) \in Nat /\ DOMAIN q = 1..Len(q)
      /\ DOMAIN Append(q, call) = 1..(Len(q) + 1) /\ Append(q, call)[Len(q) + 1] = call
      /\ \A i \in DOMAIN q : Append(q, call)[i] = q[i]
  OBVIOUS
<1>2. /\ \A i \in DOMAIN Append(q, call) : i \in DOMAIN q \/ i = Len(q) + 1
      /\ \A i \in DOMAIN q : i \in DOMAIN Append(q, call)
      /\ Len(q) + 1 \in DOMAIN Append(q, call)
  BY <1>1
<1>3. Range(Append(q, call)) = Range(q) \cup {call}
  BY <1>1, <1>2, Zenon DEF Range
<1>4. ASSUME Single(q), call.from = "detect" \/ \A c \in Range(q) : c.from # call.from
      PROVE  Single(Append(q, call))
  <2>1. \A i \in DOMAIN q : q[i].from # call.from \/ call.from = "detect"
    BY <1>4 DEF Range
  <2>2. QED BY <1>1, <1>2, <1>4, <2>1 DEF Single
<1>5. QED BY <1>1, <1>3, <1>4

-----------------------------------------------------------------------------
(* Steps of the handlers.                                                  *)

\* The queue without the call of an editor's.
Without(e, calls) ==
  /\ calls \in Seq(Calls) /\ Single(calls)
  /\ \A call \in Range(calls) : call \in Range(queue) /\ call.from # e

\* A handler that has not begun has no call in the queue.
LEMMA Waits ==
  ASSUME TypeInv, BusyInv, QueueInv, NEW e \in Editors, startup.at # "plans", ~Active(e)
  PROVE  Without(e, queue)
<1>1. \A call \in Range(queue) : call.from # e
  BY DEF QueueInv
<1>2. QED BY <1>1 DEF TypeInv, QueueInv, Without

\* A handler whose call is served is the only one under way, and waits for that call.
LEMMA HasTurn ==
  ASSUME TypeInv, BusyInv, QueueInv, NEW e \in Editors, NEW what, Turn(e, what)
  PROVE  /\ Active(e) /\ editor[e].at = what /\ Others(e) /\ busy = TRUE
         /\ startup.at # "plans" /\ Without(e, Tail(queue))
<1>1. queue \in Seq(Calls) /\ queue # <<>> /\ Head(queue) = Call(e, what)
  BY DEF TypeInv, Turn
<1>2. Head(queue) \in Range(queue)
  BY <1>1, TailIs
<1>3. Call(e, what).from = e /\ Call(e, what).what = what
  BY DEF Call
<1>4. Active(e) /\ editor[e].at = what
  BY <1>1, <1>2, <1>3 DEF QueueInv
<1>5. Others(e) /\ startup.at # "plans"
  BY <1>4 DEF BusyInv, Resting
<1>6. busy = TRUE
  BY <1>4 DEF BusyInv, Resting, TypeInv
<1>7. Single(queue) /\ e # "detect"
  BY <1>5, ProfileEditsAssumption DEF QueueInv
<1>8. /\ Tail(queue) \in Seq(Calls) /\ Range(Tail(queue)) \subseteq Range(queue)
      /\ Single(Tail(queue)) /\ \A call \in Range(Tail(queue)) : call.from # e
  BY <1>1, <1>3, <1>7, TailIs
<1>9. QED BY <1>4, <1>5, <1>6, <1>8 DEF Without

\* A step of an editor e, which is alone.
Moves(e, state, calls) ==
  /\ editor' = [editor EXCEPT ![e] = state]
  /\ IF state.at = "idle" THEN queue' = calls /\ busy' = FALSE
                          ELSE queue' = Append(calls, Call(e, state.at)) /\ busy' = TRUE

\* BusyInv and QueueInv hold after a step of a handler that is alone: it ends, or sends a call.
LEMMA MoveKeeps ==
  ASSUME TypeInv, BusyInv, QueueInv, NEW e \in Editors, NEW state \in EditorState, NEW calls,
         Others(e), Without(e, calls), Moves(e, state, calls),
         startup.at # "plans", UNCHANGED startup, quirks \subseteq quirks'
  PROVE  /\ BusyInv' /\ QueueInv'
         /\ queue' \in Seq(Calls) /\ editor' \in [Editors -> EditorState] /\ busy' \in BOOLEAN
         /\ editor'[e] = state
         /\ \A f \in Editors : f # e => editor'[f] = editor[f] /\ editor'[f].at = "idle"
<1> DEFINE sent == Call(e, state.at)
<1>1. /\ editor \in [Editors -> EditorState]
      /\ editor' = [editor EXCEPT ![e] = state]
  BY DEF TypeInv, Moves
<1>2. /\ editor' \in [Editors -> EditorState] /\ editor'[e] = state
      /\ \A f \in Editors : f # e => editor'[f] = editor[f] /\ editor'[f].at = "idle"
  BY <1>1 DEF Others, Active
<1>3. state.at \in {"idle", "load", "save", "events"}
  BY DEF EditorState
<1>4. BusyInv'
  <2>1. (~busy => Resting)'
    BY <1>2 DEF Moves, Resting, Active
  <2>2. (startup.at = "plans" => busy /\ Resting)'
    OBVIOUS
  <2>3. (\A f \in Editors : Active(f) => Others(f))'
    BY <1>2 DEF Others, Active
  <2>4. QED BY <2>1, <2>2, <2>3 DEF BusyInv
<1>5. (state.at # "idle" => sent \in Calls) /\ sent.from = e /\ sent.what = state.at
  BY <1>3 DEF Call, Calls, Sources, Whats
<1>6. /\ queue' \in Seq(Calls) /\ Single(queue') /\ busy' \in BOOLEAN
      /\ Range(queue') \subseteq Range(calls) \cup {sent}
      /\ state.at = "idle" => Range(queue') = Range(calls)
      /\ state.at # "idle" => sent \in Range(queue')
  <2>1. CASE state.at = "idle"
    BY <2>1 DEF Moves, Without
  <2>2. CASE state.at # "idle"
    <3>1. queue' = Append(calls, sent) /\ busy' = TRUE
      BY <2>2 DEF Moves
    <3>2. calls \in Seq(Calls) /\ Single(calls) /\ \A c \in Range(calls) : c.from # sent.from
      BY <1>5 DEF Without
    <3> HIDE DEF sent
    <3>3. /\ Append(calls, sent) \in Seq(Calls) /\ Single(Append(calls, sent))
          /\ Range(Append(calls, sent)) = Range(calls) \cup {sent}
      BY <1>5, <2>2, <3>2, AppendIs
    <3>4. QED BY <2>2, <3>1, <3>3
  <2>3. QED BY <2>1, <2>2
<1>7. e # "startup" /\ e # "detect"
  BY ProfileEditsAssumption
<1> HIDE DEF sent
<1>8. \A call \in Range(queue') :
        \/ call \in Range(queue) /\ call.from # e
        \/ call = sent /\ state.at # "idle"
  BY <1>6 DEF Without
<1>9. QueueInv'
  <2>1. (startup.at = "plans" => queue = Opening)'
    OBVIOUS
  <2>2. (\A call \in Range(queue) : call.from = "startup" =>
                                  startup.at # "done" /\ call.what = startup.at)'
    BY <1>5, <1>7, <1>8 DEF QueueInv
  <2>3. (\A call \in Range(queue) : call.from \in Editors =>
            Active(call.from) /\ call.what = editor[call.from].at)'
    <3>1. SUFFICES ASSUME NEW call \in Range(queue'), call.from \in Editors
                   PROVE  editor'[call.from].at # "idle" /\ call.what = editor'[call.from].at
      BY DEF Active
    <3>2. CASE call \in Range(queue) /\ call.from # e
      BY <1>2, <3>1, <3>2 DEF QueueInv, Others
    <3>3. CASE call = sent /\ state.at # "idle"
      BY <1>2, <1>5, <3>3
    <3>4. QED BY <1>8, <3>2, <3>3
  <2>4. (\A f \in Editors : Active(f) => \E call \in Range(queue) : call.from = f)'
    BY <1>2, <1>5, <1>6 DEF Active
  <2>5. (quirks = {} => \A call \in Range(queue) : call.from # "detect")'
    BY <1>5, <1>7, <1>8 DEF QueueInv
  <2>6. (Single(queue))'
    BY <1>6 DEF Single
  <2>7. QED BY <2>1, <2>2, <2>3, <2>4, <2>5, <2>6 DEF QueueInv
<1>10. QED BY <1>2, <1>4, <1>6, <1>9

\* Compute ends the handler, or has it save a configuration no worse than the one it began with.
LEMMA ComputeDoes ==
  ASSUME NEW e, NEW edit \in Edits, NEW config \in Config, NEW calls,
         catalogue \in Lists, Compute(e, edit, config, calls)
  PROVE  \/ \E next \in Config :
              /\ NoWorse(config, next, catalogue)
              /\ Moves(e, [at |-> "save", edit |-> edit, base |-> config, next |-> next], calls)
         \/ Moves(e, Idle, calls)
<1> DEFINE next == Edited(config, edit, catalogue)
<1>1. CASE ~Refused(edit, catalogue)
  <2>1. NoWorse(config, next, catalogue) /\ next \in Config
    BY <1>1, EditedIsNoWorse DEF NoWorse
  <2>2. \/ Become(e, "save", edit, config, next)
           /\ queue' = Append(calls, Call(e, "save")) /\ busy' = TRUE
        \/ Finish(e) /\ queue' = calls
    BY DEF Compute
  <2>3. CASE Become(e, "save", edit, config, next)
             /\ queue' = Append(calls, Call(e, "save")) /\ busy' = TRUE
    <3> HIDE DEF next
    <3>1. Moves(e, [at |-> "save", edit |-> edit, base |-> config, next |-> next], calls)
      BY <2>3 DEF Become, Moves
    <3>2. QED BY <2>1, <3>1
  <2>4. CASE Finish(e) /\ queue' = calls
    BY <2>4 DEF Finish, Moves, Idle
  <2>5. QED BY <2>2, <2>3, <2>4
<1>2. CASE Refused(edit, catalogue)
  <2>1. Finish(e) /\ queue' = calls
    BY <1>2 DEF Compute
  <2>2. QED BY <2>1 DEF Finish, Moves, Idle
<1>3. QED BY <1>1, <1>2

\* What the window offers are edits: no close behaviour without a plan among them.
LEMMA OfferedIsEdit ==
  ASSUME TypeInv
  PROVE  Offered \subseteq Edits
<1> DEFINE listed == {i \in DOMAIN screen.profiles : screen.profiles[i].id \in games}
           names(id) == UNION {Names(screen.profiles[i]) :
                                 i \in {j \in listed : screen.profiles[j].id = id}}
           options == IF catalogue = <<>> THEN FallbackPlans ELSE Range(catalogue)
           closes == {<<"previous_plan", "">>, <<"do_nothing", "">>}
                       \cup {<<"specific_plan", plan.id>> : plan \in options}
           value == screen # NoConfig /\ ~screen.settings
<1>1. options \subseteq Plan
  BY PlansAre, InputsAssumption DEF TypeInv, Lists
<1>2. closes \subseteq Closes \ {<<"specific_plan", "">>}
  <2>1. \A plan \in options : plan.id \in STRING /\ plan.id # ""
    BY <1>1 DEF Plan
  <2> HIDE DEF options
  <2>2. ASSUME NEW plan \in options
        PROVE  <<"specific_plan", plan.id>> \in Closes \ {<<"specific_plan", "">>}
    BY <2>1 DEF Closes
  <2>3. {<<"previous_plan", "">>, <<"do_nothing", "">>} \subseteq Closes \ {<<"specific_plan", "">>}
    BY DEF Closes
  <2>4. QED BY <2>2, <2>3
<1>3. games \subseteq Id
  BY DEF TypeInv
<1>4. ASSUME NEW id \in games PROVE names(id) \subseteq STRING
  <2>1. screen \in Config
    BY DEF TypeInv
  <2>2. \A i \in DOMAIN screen.profiles : screen.profiles[i] \in Profile
    BY <2>1 DEF Config
  <2>3. ASSUME NEW profile \in Profile PROVE Names(profile) \subseteq STRING
    <3>1. profile.processes \in Seq(Process)
      BY DEF Profile
    <3>2. \A i \in DOMAIN profile.processes : profile.processes[i] \in Process
      BY <3>1
    <3>3. QED BY <3>2 DEF Names, Process
  <2>4. QED BY <2>2, <2>3
<1>5. NewNames \subseteq STRING /\ Processes \subseteq STRING
  BY InputsAssumption
<1>6. value \in BOOLEAN
  OBVIOUS
<1>7. Offered = [op : {"add"}, app : Apps]
       \cup {[op |-> "settings", value |-> value]}
       \cup [op : {"remove"}, id : games]
       \cup [op : {"rename"}, id : games, name : NewNames]
       \cup [op : {"plan"}, id : games, plan : options]
       \cup [op : {"close"}, id : games, close : closes]
       \cup [op : {"associate"}, id : games, name : Processes]
       \cup UNION {[op : {"dissociate"}, id : {id}, name : names(id)]
                     \cup [op : {"role"}, id : {id}, name : names(id), role : Roles] : id \in games}
  BY DEF Offered
<1> HIDE DEF options, closes, names, value
<1>8. [op : {"add"}, app : Apps] \cup {[op |-> "settings", value |-> value]}
       \cup [op : {"remove"}, id : games] \subseteq Edits
  <2>1. [op |-> "settings", value |-> value] \in [op : {"settings"}, value : BOOLEAN]
    BY <1>6
  <2>2. [op : {"remove"}, id : games] \subseteq [op : {"remove"}, id : Id]
    BY <1>3
  <2>3. QED BY <2>1, <2>2, Zenon DEF Edits
<1>9. [op : {"rename"}, id : games, name : NewNames]
        \cup [op : {"plan"}, id : games, plan : options] \subseteq Edits
  BY <1>1, <1>3, <1>5 DEF Edits
<1>10. [op : {"close"}, id : games, close : closes]
        \cup [op : {"associate"}, id : games, name : Processes] \subseteq Edits
  BY <1>2, <1>3, <1>5 DEF Edits
<1>11. ASSUME NEW id \in games
       PROVE  [op : {"dissociate"}, id : {id}, name : names(id)]
                     \cup [op : {"role"}, id : {id}, name : names(id), role : Roles] \subseteq Edits
  <2>1. [op : {"dissociate"}, id : {id}, name : names(id)]
          \subseteq [op : {"associate", "dissociate"}, id : Id, name : STRING]
    BY <1>3, <1>4
  <2>2. [op : {"role"}, id : {id}, name : names(id), role : Roles]
          \subseteq [op : {"role"}, id : Id, name : STRING, role : Roles]
    BY <1>3, <1>4
  <2>3. QED BY <2>1, <2>2, Zenon DEF Edits
<1>12. QED BY <1>7, <1>8, <1>9, <1>10, <1>11

-----------------------------------------------------------------------------
(* Steps that begin an edit.                                               *)

\* A handler at rest.
LEMMA IdleIs == Idle \in EditorState /\ Idle.at = "idle"
  BY DEF Idle, EditorState

\* The invariant holds after a handler has ended, whichever way it ended.
LEMMA IdleKeeps ==
  ASSUME Inv, NEW e \in Editors, NEW calls, Others(e), Without(e, calls), Moves(e, Idle, calls),
         startup.at # "plans", UNCHANGED <<catalogue, startup>>,
         quirks \subseteq quirks', quirks' \subseteq {"overlap", "unread", "unsaved"},
         edits' \in 0..MaxEdits,
         disk' \in Config, Issues(disk') = {},
         screen' = NoConfig => games' = {},
         screen' # NoConfig => screen' \in Config /\ Issues(screen') = {},
         games' \subseteq Id,
         "overlap" \notin quirks' =>
           screen' \in {disk', NoConfig} /\ (disk' = disk \/ startup.at # "save"),
         quirks' = {} =>
           /\ screen' # NoConfig
           /\ startup.at = "done" /\ catalogue # <<>> => Settled(disk', catalogue)
  PROVE  Inv'
<1>1. /\ BusyInv' /\ QueueInv' /\ queue' \in Seq(Calls)
      /\ editor' \in [Editors -> EditorState] /\ busy' \in BOOLEAN
      /\ \A f \in Editors : editor'[f].at = "idle"
  <2>1. TypeInv /\ BusyInv /\ QueueInv
    BY DEF Inv
  <2>2. QED BY <2>1, IdleIs, MoveKeeps
<1>2. TypeInv'
  BY <1>1 DEF Inv, TypeInv
<1>3. DiskInv'
  <2>1. SUFFICES ASSUME "overlap" \notin quirks'
                 PROVE  /\ screen' \in {disk', NoConfig}
                        /\ startup.at = "save" => startup.base = disk'
    BY <1>1 DEF DiskInv, Resting, Active
  <2>2. "overlap" \notin quirks
    BY <2>1
  <2>3. QED BY <2>1, <2>2 DEF Inv, DiskInv
<1>4. ValidInv'
  BY <1>1 DEF Inv, ValidInv, Pending, Active
<1>5. FreshInv'
  <2>1. SUFFICES ASSUME quirks' = {}
                 PROVE  startup.at = "save" => Settled(startup.next, catalogue)
    BY <1>1 DEF FreshInv, Pending
  <2>2. quirks = {}
    BY <2>1
  <2>3. QED BY <2>2 DEF Inv, FreshInv
<1>6. QED BY <1>1, <1>2, <1>3, <1>4, <1>5 DEF Inv

\* The invariant holds after an edit has been computed.
LEMMA ComputeKeeps ==
  ASSUME Inv, NEW e \in Editors, NEW edit \in Edits, NEW config \in Config, NEW calls,
         Issues(config) = {}, editor[e].at \in {"idle", "load"},
         Others(e), Without(e, calls), Compute(e, edit, config, calls),
         startup.at # "plans", UNCHANGED <<disk, screen, games, catalogue, startup>>,
         quirks \subseteq quirks', quirks' \subseteq {"overlap", "unread", "unsaved"},
         edits' \in 0..MaxEdits,
         "overlap" \notin quirks' => config = disk /\ startup.at # "save",
         quirks' = {} => config = screen
  PROVE  Inv'
<1>1. /\ disk \in Config /\ Issues(disk) = {} /\ catalogue \in Lists /\ games \subseteq Id
      /\ screen = NoConfig => games = {}
      /\ screen # NoConfig => screen \in Config /\ Issues(screen) = {}
  BY DEF Inv, TypeInv, ValidInv
<1>2. "overlap" \notin quirks' => screen \in {disk, NoConfig}
  BY DEF Inv, DiskInv, Others, Active
<1>3. quirks' = {} =>
        screen # NoConfig /\ (startup.at = "done" /\ catalogue # <<>> => Settled(disk, catalogue))
  BY DEF Inv, FreshInv
<1>4. CASE Moves(e, Idle, calls)
  BY <1>1, <1>2, <1>3, <1>4, IdleKeeps
<1>5. ASSUME NEW next \in Config, NoWorse(config, next, catalogue),
             Moves(e, [at |-> "save", edit |-> edit, base |-> config, next |-> next], calls)
      PROVE  Inv'
  <2> DEFINE state == [at |-> "save", edit |-> edit, base |-> config, next |-> next]
  <2>1. /\ state \in EditorState /\ state.at = "save" /\ state.edit = edit
        /\ state.base = config /\ state.next = next
    BY DEF EditorState
  <2> HIDE DEF state
  <2>2. /\ BusyInv' /\ QueueInv' /\ queue' \in Seq(Calls)
        /\ editor' \in [Editors -> EditorState] /\ busy' \in BOOLEAN /\ editor'[e] = state
        /\ \A f \in Editors : f # e => editor'[f].at = "idle"
    <3>1. TypeInv /\ BusyInv /\ QueueInv /\ Moves(e, state, calls)
      BY <1>5 DEF Inv, state
    <3>2. QED BY <2>1, <3>1, MoveKeeps
  <2>3. TypeInv'
    BY <2>2 DEF Inv, TypeInv
  <2>4. DiskInv'
    BY <1>2, <2>1, <2>2 DEF DiskInv
  <2>5. ValidInv'
    <3>1. \A f \in Editors :
            /\ editor'[f].at # "idle" => editor'[f].edit \in Edits
            /\ editor'[f].at \in {"save", "events"} =>
                 /\ editor'[f].base \in Config /\ Issues(editor'[f].base) = {}
                 /\ NoWorse(editor'[f].base, editor'[f].next, catalogue)
            /\ editor'[f].at # "events"
      BY <1>5, <2>1, <2>2
    <3>2. QED BY <1>1, <3>1 DEF Inv, ValidInv, Pending, Active
  <2>6. FreshInv'
    BY <1>3, <2>1, <2>2 DEF Inv, FreshInv, Pending
  <2>7. QED BY <2>2, <2>3, <2>4, <2>5, <2>6 DEF Inv
<1>6. QED BY <1>1, <1>4, <1>5, ComputeDoes

\* Edit keeps the invariant.
LEMMA EditKeeps ==
  ASSUME Inv, NEW e \in Editors, Edit(e)
  PROVE  Inv'
<1>1. /\ ~busy /\ editor[e].at = "idle" /\ edits' \in 0..MaxEdits
      /\ UNCHANGED <<disk, screen, games, catalogue, startup>>
  <2>1. edits \in 0..MaxEdits /\ edits < MaxEdits /\ edits' = edits + 1
    BY DEF Edit, Inv, TypeInv
  <2>2. QED BY <2>1, ProfileEditsAssumption DEF Edit
<1>2. TypeInv /\ BusyInv /\ QueueInv
  BY DEF Inv
<1>3. Resting /\ Others(e) /\ ~Active(e) /\ startup.at # "plans"
  BY <1>1, <1>2 DEF BusyInv, Resting, Others
<1>4. Without(e, queue)
  BY <1>2, <1>3, Waits
<1>5. /\ quirks \subseteq quirks' /\ quirks' \subseteq {"overlap", "unread", "unsaved"}
      /\ "overlap" \notin quirks' => startup.at # "save"
  BY <1>2 DEF Edit, TypeInv
<1>6. PICK edit \in Offered :
        \/ screen # NoConfig /\ Compute(e, edit, screen, queue)
        \/ /\ screen = NoConfig
           /\ Become(e, "load", edit, NoConfig, NoConfig)
           /\ queue' = Append(queue, Call(e, "load"))
           /\ busy' = TRUE
  BY DEF Edit
<1>7. edit \in Edits
  BY <1>2, OfferedIsEdit
<1>8. "overlap" \notin quirks' => screen \in {disk, NoConfig}
  BY <1>3, <1>5 DEF Inv, DiskInv, Resting, Active
<1>9. CASE screen # NoConfig /\ Compute(e, edit, screen, queue)
  <2>1. screen \in Config /\ Issues(screen) = {}
    BY <1>2, <1>9 DEF TypeInv, Inv, ValidInv
  <2>2. QED BY <1>1, <1>3, <1>4, <1>5, <1>7, <1>8, <1>9, <2>1, ComputeKeeps
<1>10. CASE /\ screen = NoConfig
            /\ Become(e, "load", edit, NoConfig, NoConfig)
            /\ queue' = Append(queue, Call(e, "load"))
            /\ busy' = TRUE
  <2> DEFINE state == [at |-> "load", edit |-> edit, base |-> NoConfig, next |-> NoConfig]
  <2>1. state \in EditorState /\ state.at = "load" /\ state.edit = edit
    BY <1>7 DEF EditorState
  <2>2. Moves(e, state, queue)
    BY <1>10 DEF Become, Moves
  <2> HIDE DEF state
  <2>3. /\ BusyInv' /\ QueueInv' /\ queue' \in Seq(Calls)
        /\ editor' \in [Editors -> EditorState] /\ busy' \in BOOLEAN /\ editor'[e] = state
        /\ \A f \in Editors : f # e => editor'[f].at = "idle"
    BY <1>1, <1>2, <1>3, <1>4, <1>5, <2>1, <2>2, MoveKeeps
  <2>4. TypeInv'
    BY <1>1, <1>5, <2>3 DEF Inv, TypeInv
  <2>5. DiskInv'
    BY <1>1, <1>5, <1>10, <2>1, <2>3 DEF DiskInv
  <2>6. ValidInv'
    BY <1>1, <1>7, <2>1, <2>3 DEF Inv, ValidInv, Pending, Active
  <2>7. FreshInv'
    <3>1. quirks # {}
      BY <1>10 DEF Inv, FreshInv
    <3>2. QED BY <1>5, <3>1 DEF FreshInv
  <2>8. QED BY <2>3, <2>4, <2>5, <2>6, <2>7 DEF Inv
<1>11. QED BY <1>6, <1>9, <1>10

\* Load keeps the invariant.
LEMMA LoadKeeps ==
  ASSUME Inv, NEW e \in Editors, Load(e)
  PROVE  Inv'
<1>1. /\ Turn(e, "load")
      /\ UNCHANGED <<disk, screen, games, catalogue, startup, quirks, edits>>
      /\ \/ Compute(e, editor[e].edit, disk, Tail(queue))
         \/ Finish(e) /\ queue' = Tail(queue)
  BY DEF Load
<1>2. TypeInv /\ BusyInv /\ QueueInv
  BY DEF Inv
<1>3. /\ Active(e) /\ editor[e].at = "load" /\ Others(e)
      /\ startup.at # "plans" /\ Without(e, Tail(queue))
  BY <1>1, <1>2, HasTurn
<1>4. /\ disk \in Config /\ Issues(disk) = {} /\ games \subseteq Id
      /\ editor[e].edit \in Edits /\ edits \in 0..MaxEdits
      /\ screen = NoConfig => games = {}
      /\ screen # NoConfig => screen \in Config /\ Issues(screen) = {}
      /\ quirks \subseteq {"overlap", "unread", "unsaved"}
  BY <1>3 DEF Inv, TypeInv, ValidInv
<1>5. quirks # {}
  BY <1>3 DEF Inv, FreshInv
<1>6. "overlap" \notin quirks => startup.at # "save" /\ screen \in {disk, NoConfig}
  BY <1>3 DEF Inv, DiskInv, Resting, Others, Active
<1>7. CASE Compute(e, editor[e].edit, disk, Tail(queue))
  BY <1>1, <1>3, <1>4, <1>5, <1>6, <1>7, ComputeKeeps
<1>8. CASE Finish(e) /\ queue' = Tail(queue)
  <2>1. Moves(e, Idle, Tail(queue))
    BY <1>8 DEF Finish, Moves, Idle
  <2>2. QED BY <1>1, <1>3, <1>4, <1>5, <1>6, <2>1, IdleKeeps
<1>9. QED BY <1>1, <1>7, <1>8

-----------------------------------------------------------------------------
(* Steps that save it.                                                     *)

\* The identifiers of a configuration.
LEMMA IdsAre ==
  ASSUME NEW config \in Config
  PROVE  Ids(config) \subseteq Id /\ config # NoConfig
  BY IdsCounted, NoConfigIsNone

\* What the queue and the editors have in common at the save, or the events, of an editor.
\* What is known when a save, or the reading of the events, of a handler is served.
LEMMA PendingIs ==
  ASSUME Inv, NEW e \in Editors, NEW what \in {"save", "events"}, Turn(e, what)
  PROVE  /\ editor[e].at = what /\ Others(e) /\ startup.at # "plans" /\ Without(e, Tail(queue))
         /\ editor[e] \in EditorState /\ editor[e].edit \in Edits
         /\ editor[e].base \in Config /\ Issues(editor[e].base) = {}
         /\ editor[e].next \in Config /\ NoWorse(editor[e].base, editor[e].next, catalogue)
         /\ disk \in Config /\ Issues(disk) = {} /\ games \subseteq Id /\ edits \in 0..MaxEdits
         /\ screen = NoConfig => games = {}
         /\ screen # NoConfig => screen \in Config /\ Issues(screen) = {}
         /\ quirks \subseteq {"overlap", "unread", "unsaved"}
         /\ "overlap" \notin quirks => startup.at # "save"
<1>1. TypeInv /\ BusyInv /\ QueueInv
  BY DEF Inv
<1>2. /\ Active(e) /\ editor[e].at = what /\ Others(e) /\ startup.at # "plans"
      /\ Without(e, Tail(queue))
  BY <1>1, HasTurn
<1>3. Pending(e) /\ editor[e].edit \in Edits
  BY <1>2 DEF Pending, Inv, ValidInv
<1>4. /\ editor[e].base \in Config /\ Issues(editor[e].base) = {}
      /\ NoWorse(editor[e].base, editor[e].next, catalogue)
  BY <1>3 DEF Inv, ValidInv
<1>5. editor[e].next \in Config
  BY <1>4 DEF NoWorse
<1>6. "overlap" \notin quirks => startup.at # "save"
  BY <1>2 DEF Inv, DiskInv, Resting
<1>7. editor[e] \in EditorState
  BY <1>1 DEF TypeInv
<1>8. QED BY <1>2, <1>3, <1>4, <1>5, <1>6, <1>7 DEF Inv, TypeInv, ValidInv

\* SaveFails keeps the invariant.
LEMMA SaveFailsKeeps ==
  ASSUME Inv, NEW e \in Editors, SaveFails(e)
  PROVE  Inv'
<1> DEFINE base == editor[e].base
<1>1. /\ Turn(e, "save") /\ queue' = Tail(queue) /\ Finish(e)
      /\ UNCHANGED <<disk, catalogue, startup, quirks, edits>>
      /\ \/ screen' = base /\ games' = Ids(base)
         \/ UNCHANGED <<screen, games>>
  BY DEF SaveFails, Show
<1>2. Moves(e, Idle, Tail(queue))
  BY <1>1 DEF Finish, Moves, Idle
<1>3. /\ editor[e].at = "save" /\ Others(e) /\ startup.at # "plans" /\ Without(e, Tail(queue))
      /\ base \in Config /\ Issues(base) = {}
      /\ disk \in Config /\ Issues(disk) = {} /\ games \subseteq Id /\ edits \in 0..MaxEdits
      /\ screen = NoConfig => games = {}
      /\ screen # NoConfig => screen \in Config /\ Issues(screen) = {}
      /\ quirks \subseteq {"overlap", "unread", "unsaved"}
  BY <1>1, PendingIs
<1>4. Ids(base) \subseteq Id /\ base # NoConfig
  BY <1>3, IdsAre
<1>5. "overlap" \notin quirks => base = disk /\ screen \in {disk, NoConfig}
  BY <1>3 DEF Inv, DiskInv, Others, Active
<1>6. quirks = {} =>
        screen # NoConfig /\ (startup.at = "done" /\ catalogue # <<>> => Settled(disk, catalogue))
  BY DEF Inv, FreshInv
<1> HIDE DEF base
<1>7. CASE screen' = base /\ games' = Ids(base)
  BY <1>1, <1>2, <1>3, <1>4, <1>5, <1>6, <1>7, IdleKeeps
<1>8. CASE UNCHANGED <<screen, games>>
  BY <1>1, <1>2, <1>3, <1>5, <1>6, <1>8, IdleKeeps
<1>9. QED BY <1>1, <1>7, <1>8

\* A save does not unsettle the files.
LEMMA SavedIsSettled ==
  ASSUME Inv, NEW e \in Editors, editor[e].at = "save",
         NoWorse(editor[e].base, editor[e].next, catalogue)
  PROVE  quirks = {} =>
           /\ screen # NoConfig
           /\ startup.at = "done" /\ catalogue # <<>> => Settled(editor[e].next, catalogue)
<1>1. quirks = {} => editor[e].base = disk
  BY DEF Inv, DiskInv
<1>2. QED BY <1>1 DEF Inv, FreshInv, NoWorse, Settled

\* Save keeps the invariant.
LEMMA SaveKeeps ==
  ASSUME Inv, NEW e \in Editors, Save(e)
  PROVE  Inv'
<1> DEFINE next == editor[e].next
           state == [editor[e] EXCEPT !.at = "events"]
<1>1. /\ Turn(e, "save") /\ Issues(next) = {} /\ disk' = next
      /\ UNCHANGED <<catalogue, startup, quirks, edits>>
      /\ \/ Applied(e) /\ queue' = Tail(queue)
         \/ /\ editor' = [editor EXCEPT ![e].at = "events"]
            /\ queue' = Append(Tail(queue), Call(e, "events"))
            /\ UNCHANGED <<screen, games, busy>>
  BY DEF Save
<1>2. /\ editor[e].at = "save" /\ Others(e) /\ startup.at # "plans" /\ Without(e, Tail(queue))
      /\ editor[e] \in EditorState /\ editor[e].edit \in Edits
      /\ editor[e].base \in Config /\ Issues(editor[e].base) = {}
      /\ next \in Config /\ NoWorse(editor[e].base, next, catalogue)
      /\ games \subseteq Id /\ edits \in 0..MaxEdits
      /\ screen = NoConfig => games = {}
      /\ screen # NoConfig => screen \in Config /\ Issues(screen) = {}
      /\ quirks \subseteq {"overlap", "unread", "unsaved"}
      /\ "overlap" \notin quirks => startup.at # "save"
  BY <1>1, PendingIs
<1>3. Ids(next) \subseteq Id /\ next # NoConfig
  BY <1>2, IdsAre
<1>4. quirks = {} => /\ screen # NoConfig
                     /\ startup.at = "done" /\ catalogue # <<>> => Settled(next, catalogue)
  BY <1>2, SavedIsSettled
<1>5. CASE Applied(e) /\ queue' = Tail(queue)
  <2>1. Moves(e, Idle, Tail(queue))
    BY <1>5 DEF Applied, Finish, Moves, Idle
  <2>2. screen' = next /\ games' \subseteq Id
    BY <1>2, <1>3, <1>5 DEF Applied
  <2> HIDE DEF next
  <2>3. QED BY <1>1, <1>2, <1>3, <1>4, <2>1, <2>2, IdleKeeps
<1>6. CASE /\ editor' = [editor EXCEPT ![e].at = "events"]
           /\ queue' = Append(Tail(queue), Call(e, "events"))
           /\ UNCHANGED <<screen, games, busy>>
  <2>1. TypeInv /\ BusyInv /\ QueueInv /\ busy = TRUE
    <3>1. TypeInv /\ BusyInv /\ QueueInv
      BY DEF Inv
    <3>2. QED BY <1>1, <3>1, HasTurn
  <2>2. /\ state \in EditorState /\ state.at = "events" /\ state.edit = editor[e].edit
        /\ state.base = editor[e].base /\ state.next = next
    BY <1>2 DEF EditorState
  <2>3. Moves(e, state, Tail(queue))
    BY <1>6, <2>1, <2>2 DEF Moves, TypeInv
  <2> HIDE DEF state
  <2>4. /\ BusyInv' /\ QueueInv' /\ queue' \in Seq(Calls)
        /\ editor' \in [Editors -> EditorState] /\ busy' \in BOOLEAN /\ editor'[e] = state
        /\ \A f \in Editors : f # e => editor'[f].at = "idle"
    BY <1>1, <1>2, <2>1, <2>2, <2>3, MoveKeeps
  <2>5. TypeInv'
    BY <1>1, <1>2, <1>6, <2>4 DEF Inv, TypeInv
  <2>6. DiskInv'
    BY <1>1, <1>2, <2>2, <2>4 DEF DiskInv
  <2>7. ValidInv'
    <3>1. \A f \in Editors :
            /\ editor'[f].at # "idle" => editor'[f].edit \in Edits
            /\ editor'[f].at \in {"save", "events"} =>
                 /\ editor'[f].base \in Config /\ Issues(editor'[f].base) = {}
                 /\ NoWorse(editor'[f].base, editor'[f].next, catalogue)
            /\ editor'[f].at = "events" => Issues(editor'[f].next) = {}
      BY <1>1, <1>2, <2>2, <2>4
    <3>2. startup.at = "save" => startup.next \in Config /\ Issues(startup.next) = {}
      BY DEF Inv, ValidInv
    <3>3. QED BY <1>1, <1>2, <1>6, <3>1, <3>2 DEF ValidInv, Pending, Active
  <2>8. FreshInv'
    <3>1. quirks = {} => editor[e].base = screen
      BY <1>2 DEF Inv, FreshInv, Pending
    <3>2. quirks = {} /\ startup.at = "save" => Settled(startup.next, catalogue)
      BY DEF Inv, FreshInv
    <3>3. QED BY <1>1, <1>4, <1>6, <2>2, <2>4, <3>1, <3>2 DEF FreshInv, Pending
  <2>9. QED BY <2>4, <2>5, <2>6, <2>7, <2>8 DEF Inv
<1>7. QED BY <1>1, <1>5, <1>6

\* Events keeps the invariant.
LEMMA EventsKeeps ==
  ASSUME Inv, NEW e \in Editors, Events(e)
  PROVE  Inv'
<1> DEFINE next == editor[e].next
<1>1. /\ Turn(e, "events") /\ queue' = Tail(queue) /\ Applied(e)
      /\ UNCHANGED <<disk, catalogue, startup, quirks, edits>>
  BY DEF Events
<1>2. /\ editor[e].at = "events" /\ Others(e) /\ startup.at # "plans" /\ Without(e, Tail(queue))
      /\ next \in Config
      /\ disk \in Config /\ Issues(disk) = {} /\ games \subseteq Id /\ edits \in 0..MaxEdits
      /\ quirks \subseteq {"overlap", "unread", "unsaved"}
  BY <1>1, PendingIs
<1>3. Ids(next) \subseteq Id /\ next # NoConfig
  BY <1>2, IdsAre
<1>4. Issues(next) = {} /\ ("overlap" \notin quirks => next = disk)
  BY <1>2 DEF Inv, ValidInv, DiskInv
<1>5. quirks = {} => (startup.at = "done" /\ catalogue # <<>> => Settled(disk, catalogue))
  BY DEF Inv, FreshInv
<1>6. Moves(e, Idle, Tail(queue))
  BY <1>1 DEF Applied, Finish, Moves, Idle
<1>7. screen' = next /\ games' \subseteq Id
  BY <1>1, <1>2, <1>3 DEF Applied
<1> HIDE DEF next
<1>8. QED BY <1>1, <1>2, <1>3, <1>4, <1>5, <1>6, <1>7, IdleKeeps

-----------------------------------------------------------------------------
(* The start of the window, and its searches for profiles.                 *)

\* The invariant holds when the window starts.
LEMMA InitHolds == Init => Inv
<1> SUFFICES ASSUME Init PROVE Inv
  OBVIOUS
<1>1. /\ disk \in Config /\ Issues(disk) = {} /\ Ids(disk) \subseteq Id /\ disk # NoConfig
  BY ConfigsAssumption, IdsAre DEF Init
<1>2. \A e \in Editors : editor[e] = Idle /\ editor[e].at = "idle"
  BY IdleIs DEF Init
<1>3. startup.at = "plans" /\ startup \in StartupState
  BY DEF Init, StartupState
<1>4. /\ queue = Opening /\ queue \in Seq(Calls)
      /\ Range(queue) = {Call("startup", "plans"), Call("startup", "rest")}
  <2>1. queue = Opening
    BY DEF Init, Opening
  <2>2. Call("startup", "plans") \in Calls /\ Call("startup", "rest") \in Calls
    BY DEF Call, Calls, Sources, Whats
  <2>3. /\ DOMAIN queue = {1, 2}
        /\ queue[1] = Call("startup", "plans") /\ queue[2] = Call("startup", "rest")
    BY <2>1 DEF Opening
  <2>4. Range(queue) = {Call("startup", "plans"), Call("startup", "rest")}
    BY <2>3 DEF Range
  <2>5. QED BY <2>1, <2>2, <2>4 DEF Opening
<1>5. TypeInv
  <2>1. /\ screen = disk \/ screen = NoConfig
        /\ screen = NoConfig => games = {}
        /\ games \subseteq Id
        /\ quirks \subseteq {"overlap", "unread", "unsaved"}
    BY <1>1 DEF Init
  <2>2. editor \in [Editors -> EditorState]
    BY IdleIs DEF Init
  <2>3. 0 \in 0..MaxEdits
    BY ProfileEditsAssumption
  <2>4. QED BY <1>1, <1>3, <1>4, <2>1, <2>2, <2>3 DEF Init, TypeInv, Lists
<1>6. BusyInv
  BY <1>2 DEF Init, BusyInv, Resting, Active
<1>7. QueueInv
  <2>1. \A call \in Range(queue) : call.from = "startup"
    BY <1>4 DEF Call
  <2>2. QED BY <1>2, <1>3, <1>4, <2>1, ProfileEditsAssumption DEF QueueInv, Active
<1>8. DiskInv /\ ValidInv /\ FreshInv
  <2>1. DiskInv
    BY <1>2, <1>3 DEF Init, DiskInv
  <2>2. ValidInv
    BY <1>1, <1>2, <1>3 DEF Init, ValidInv, Active, Pending
  <2>3. FreshInv
    BY <1>1, <1>2, <1>3 DEF Init, FreshInv, Pending
  <2>4. QED BY <2>1, <2>2, <2>3
<1>9. QED BY <1>5, <1>6, <1>7, <1>8 DEF Inv

\* Detect keeps the invariant.
LEMMA DetectKeeps ==
  ASSUME Inv, Detect
  PROVE  Inv'
<1> DEFINE sent == Call("detect", "load")
<1>1. /\ ~busy /\ screen = NoConfig /\ edits < MaxEdits /\ edits' = edits + 1
      /\ queue' = Append(queue, sent)
      /\ UNCHANGED <<disk, screen, games, catalogue, busy, editor, startup, quirks>>
  BY DEF Detect, window
<1>2. TypeInv /\ BusyInv /\ QueueInv
  BY DEF Inv
<1>3. startup.at # "plans" /\ Single(queue) /\ queue \in Seq(Calls)
  BY <1>1, <1>2 DEF BusyInv, QueueInv, TypeInv
<1>4. sent \in Calls /\ sent.from = "detect"
  BY DEF Call, Calls, Sources, Whats
<1> HIDE DEF sent
<1>5. queue' \in Seq(Calls) /\ Range(queue') = Range(queue) \cup {sent} /\ Single(queue')
  BY <1>1, <1>3, <1>4, AppendIs
<1>6. quirks # {}
  BY <1>1 DEF Inv, FreshInv
<1>7. TypeInv'
  <2>1. edits' \in 0..MaxEdits
    BY <1>1, <1>2, ProfileEditsAssumption DEF TypeInv
  <2>2. QED BY <1>1, <1>2, <1>5, <2>1 DEF TypeInv
<1>8. BusyInv'
  BY <1>1, <1>2 DEF BusyInv, Resting, Active, Others
<1>9. QueueInv'
  <2>1. Single(queue)'
    BY <1>5 DEF Single
  <2>2. \A call \in Range(queue') : call \in Range(queue) \/ call.from = "detect"
    BY <1>4, <1>5
  <2>3. "detect" \notin Editors /\ Range(queue) \subseteq Range(queue')
    BY <1>5, ProfileEditsAssumption
  <2>4. QED BY <1>1, <1>2, <1>3, <1>6, <2>1, <2>2, <2>3 DEF QueueInv, Active
<1>10. DiskInv' /\ ValidInv' /\ FreshInv'
  <2>1. DiskInv'
    BY <1>1 DEF Inv, DiskInv, Resting, Active
  <2>2. ValidInv'
    BY <1>1 DEF Inv, ValidInv, Pending, Active
  <2>3. FreshInv'
    BY <1>1 DEF Inv, FreshInv, Pending
  <2>4. QED BY <2>1, <2>2, <2>3
<1>11. QED BY <1>7, <1>8, <1>9, <1>10 DEF Inv

\* A step that serves a call no editor has sent.
\* What is known when a call that no handler has sent is served.
LEMMA ServedKeeps ==
  ASSUME TypeInv, QueueInv, startup.at # "plans", NEW from \in {"startup", "detect"}, NEW what,
         Turn(from, what)
  PROVE  /\ from = "startup" => startup.at = what
         /\ quirks = {} => from = "startup"
         /\ Tail(queue) \in Seq(Calls) /\ Single(Tail(queue))
         /\ Range(Tail(queue)) \subseteq Range(queue)
         /\ \A call \in Range(Tail(queue)) : from = "startup" => call.from # "startup"
         /\ \A call \in Range(queue) : call.from \in Editors => call \in Range(Tail(queue))
<1>1. queue \in Seq(Calls) /\ queue # <<>> /\ Head(queue) = Call(from, what)
  BY DEF TypeInv, Turn
<1>2. Call(from, what).from = from /\ Call(from, what).what = what /\ from \notin Editors
  BY ProfileEditsAssumption DEF Call
<1>3. Single(queue)
  BY DEF QueueInv
<1>4. /\ Tail(queue) \in Seq(Calls) /\ Single(Tail(queue)) /\ Head(queue) \in Range(queue)
      /\ Range(Tail(queue)) \subseteq Range(queue)
      /\ Range(queue) \subseteq Range(Tail(queue)) \cup {Head(queue)}
      /\ from = "startup" => \A call \in Range(Tail(queue)) : call.from # "startup"
  BY <1>1, <1>2, <1>3, TailIs
<1>5. QED BY <1>1, <1>2, <1>4 DEF QueueInv

\* DetectLoad keeps the invariant.
LEMMA DetectLoadKeeps ==
  ASSUME Inv, DetectLoad
  PROVE  Inv'
<1>1. /\ Turn("detect", "load") /\ screen' \in {disk, screen} /\ queue' = Tail(queue)
      /\ UNCHANGED <<disk, games, catalogue, busy, editor, startup, quirks, edits>>
  BY DEF DetectLoad
<1>2. TypeInv /\ BusyInv /\ QueueInv
  BY DEF Inv
<1>3. startup.at # "plans"
  <2>1. startup.at = "plans" => Head(queue) = Call("startup", "plans")
    BY <1>2 DEF QueueInv, Opening
  <2>2. QED BY <1>1, <2>1 DEF Turn, Call
<1>4. /\ quirks # {} /\ queue' \in Seq(Calls) /\ Single(queue')
      /\ Range(queue') \subseteq Range(queue)
      /\ \A call \in Range(queue) : call.from \in Editors => call \in Range(queue')
  BY <1>1, <1>2, <1>3, ServedKeeps
<1>5. disk \in Config /\ disk # NoConfig /\ Issues(disk) = {}
  BY <1>2, NoConfigIsNone DEF TypeInv, Inv, ValidInv
<1>6. TypeInv'
  BY <1>1, <1>2, <1>4, <1>5 DEF TypeInv
<1>7. BusyInv'
  BY <1>1, <1>2 DEF BusyInv, Resting, Active, Others
<1>8. QueueInv'
  <2>1. Single(queue)'
    BY <1>4 DEF Single
  <2>2. (\A e \in Editors : Active(e) => \E call \in Range(queue) : call.from = e)'
    BY <1>1, <1>2, <1>4 DEF QueueInv, Active
  <2>3. (\A call \in Range(queue) : call.from \in Editors =>
            Active(call.from) /\ call.what = editor[call.from].at)'
    BY <1>1, <1>2, <1>4 DEF QueueInv, Active
  <2>4. QED BY <1>1, <1>2, <1>3, <1>4, <2>1, <2>2, <2>3 DEF QueueInv
<1>9. DiskInv'
  BY <1>1 DEF Inv, DiskInv, Resting, Active
<1>10. ValidInv'
  BY <1>1, <1>5 DEF Inv, ValidInv, Pending, Active
<1>11. FreshInv'
  BY <1>1, <1>4 DEF FreshInv
<1>12. QED BY <1>6, <1>7, <1>8, <1>9, <1>10, <1>11 DEF Inv

\* ReadPlans keeps the invariant.
LEMMA ReadPlansKeeps ==
  ASSUME Inv, ReadPlans
  PROVE  Inv'
<1>1. /\ Turn("startup", "plans") /\ queue' = Tail(queue) /\ catalogue' \in Lists /\ busy' = FALSE
      /\ startup' = [startup EXCEPT !.at = "rest"]
      /\ UNCHANGED <<disk, screen, games, editor, quirks, edits>>
  BY DEF ReadPlans, Lists
<1>2. TypeInv /\ BusyInv /\ QueueInv
  BY DEF Inv
<1>3. startup.at = "plans"
  BY <1>1, <1>2, ServedKeeps
<1>4. Resting /\ Resting'
  BY <1>1, <1>2, <1>3 DEF BusyInv, Resting, Active
<1>5. startup' \in StartupState /\ startup'.at = "rest"
  BY <1>1, <1>2 DEF TypeInv, StartupState
<1> DEFINE rest == Call("startup", "rest")
<1>6. queue' = <<rest>> /\ rest.from = "startup" /\ rest.what = "rest" /\ rest \in Calls
  <2>1. queue = Opening
    BY <1>2, <1>3 DEF QueueInv
  <2>2. QED BY <1>1, <2>1 DEF Opening, Call, Calls, Sources, Whats
<1> HIDE DEF rest
<1>7. queue' \in Seq(Calls) /\ Range(queue') = {rest} /\ Single(queue)'
  <2>1. DOMAIN queue' = {1} /\ queue'[1] = rest /\ queue' \in Seq(Calls)
    BY <1>6
  <2>2. QED BY <2>1, Zenon DEF Range, Single
<1>8. TypeInv'
  BY <1>1, <1>2, <1>5, <1>7 DEF TypeInv
<1>9. BusyInv'
  BY <1>4, <1>5 DEF BusyInv, Resting, Active
<1>10. QueueInv'
  BY <1>4, <1>5, <1>6, <1>7, ProfileEditsAssumption DEF QueueInv, Resting
<1>11. DiskInv'
  BY <1>1, <1>4, <1>5 DEF Inv, DiskInv, Resting, Active
<1>12. ValidInv'
  BY <1>1, <1>4, <1>5 DEF Inv, ValidInv, Resting, Pending, Active
<1>13. FreshInv'
  BY <1>1, <1>4, <1>5 DEF Inv, FreshInv, Resting, Pending, Active
<1>14. QED BY <1>8, <1>9, <1>10, <1>11, <1>12, <1>13 DEF Inv

-----------------------------------------------------------------------------
(* The start-up's own save, and the theorems.                              *)

\* After the plans, the calls of the start-up are served one by one.
\* After the plans, BusyInv and QueueInv hold through the calls of the start-up.
LEMMA StartupKeeps ==
  ASSUME Inv, NEW what \in {"rest", "save"}, Turn("startup", what),
         startup' \in StartupState,
         \/ startup'.at = "done" /\ queue' = Tail(queue)
         \/ startup'.at = "save" /\ queue' = Append(Tail(queue), Call("startup", "save")),
         quirks \subseteq quirks', UNCHANGED <<busy, editor>>
  PROVE  startup.at = what /\ BusyInv' /\ QueueInv' /\ queue' \in Seq(Calls)
<1> DEFINE sent == Call("startup", "save")
<1>1. TypeInv /\ BusyInv /\ QueueInv
  BY DEF Inv
<1>2. startup.at # "plans"
  <2>1. startup.at = "plans" => Head(queue) = Call("startup", "plans")
    BY <1>1 DEF QueueInv, Opening
  <2>2. QED BY <2>1 DEF Turn, Call
<1>3. /\ startup.at = what
      /\ Tail(queue) \in Seq(Calls) /\ Single(Tail(queue))
      /\ Range(Tail(queue)) \subseteq Range(queue)
      /\ \A call \in Range(Tail(queue)) : call.from # "startup"
      /\ \A call \in Range(queue) : call.from \in Editors => call \in Range(Tail(queue))
  BY <1>1, <1>2, ServedKeeps
<1>4. sent \in Calls /\ sent.from = "startup" /\ sent.what = "save"
  BY DEF Call, Calls, Sources, Whats
<1> HIDE DEF sent
<1>5. /\ queue' \in Seq(Calls) /\ Single(queue')
      /\ \A call \in Range(queue') :
           call \in Range(Tail(queue)) \/ (call = sent /\ startup'.at = "save")
      /\ Range(Tail(queue)) \subseteq Range(queue')
  <2>1. CASE startup'.at = "done" /\ queue' = Tail(queue)
    BY <1>3, <2>1
  <2>2. CASE startup'.at = "save" /\ queue' = Append(Tail(queue), sent)
    <3>1. /\ Append(Tail(queue), sent) \in Seq(Calls) /\ Single(Append(Tail(queue), sent))
          /\ Range(Append(Tail(queue), sent)) = Range(Tail(queue)) \cup {sent}
      <4> DEFINE calls == Tail(queue)
      <4>1. /\ calls \in Seq(Calls) /\ Single(calls)
            /\ \A call \in Range(calls) : call.from # sent.from
        BY <1>3, <1>4
      <4> HIDE DEF calls
      <4>2. /\ Append(calls, sent) \in Seq(Calls) /\ Single(Append(calls, sent))
            /\ Range(Append(calls, sent)) = Range(calls) \cup {sent}
        BY <1>4, <4>1, AppendIs
      <4>3. QED BY <4>2 DEF calls
    <3>2. QED BY <2>2, <3>1
  <2>3. QED BY <2>1, <2>2 DEF sent
<1>6. startup'.at \in {"save", "done"} /\ "startup" \notin Editors
  BY ProfileEditsAssumption
<1>7. BusyInv'
  BY <1>1, <1>6 DEF BusyInv, Resting, Active, Others
<1>8. QueueInv'
  <2>1. Single(queue)'
    BY <1>5 DEF Single
  <2>2. (\A call \in Range(queue) : call.from = "startup" =>
            startup.at # "done" /\ call.what = startup.at)'
    BY <1>3, <1>4, <1>5
  <2>3. (\A call \in Range(queue) : call.from \in Editors =>
            Active(call.from) /\ call.what = editor[call.from].at)'
    BY <1>1, <1>3, <1>4, <1>5, <1>6 DEF QueueInv, Active
  <2>4. (\A e \in Editors : Active(e) => \E call \in Range(queue) : call.from = e)'
    BY <1>1, <1>3, <1>5 DEF QueueInv, Active
  <2>5. (quirks = {} => \A call \in Range(queue) : call.from # "detect")'
    BY <1>1, <1>3, <1>4, <1>5 DEF QueueInv
  <2>6. QED BY <1>6, <2>1, <2>2, <2>3, <2>4, <2>5 DEF QueueInv
<1>9. QED BY <1>3, <1>5, <1>7, <1>8

\* Synchronize keeps the invariant. If it does not save because the screen is settled, the files
\* are, too, even if they are ahead of the screen.
LEMMA SynchronizeKeeps ==
  ASSUME Inv, Synchronize
  PROVE  Inv'
<1> DEFINE next == Normalized(screen, catalogue)
           due == screen # NoConfig /\ catalogue # <<>> /\ next # screen
<1>1. /\ Turn("startup", "rest")
      /\ UNCHANGED <<disk, screen, games, catalogue, busy, editor, edits>>
  BY DEF Synchronize, window
<1>2. TypeInv /\ BusyInv /\ QueueInv
  BY DEF Inv
<1>3. \/ /\ due
         /\ startup' = [at |-> "save", base |-> screen, next |-> next]
         /\ queue' = Append(Tail(queue), Call("startup", "save"))
         /\ quirks' = quirks \cup (IF \E e \in Editors : editor[e].at # "idle"
                                   THEN {"overlap"} ELSE {})
      \/ /\ ~due
         /\ startup' = [startup EXCEPT !.at = "done"]
         /\ queue' = Tail(queue)
         /\ UNCHANGED quirks
  BY DEF Synchronize
<1>4. screen # NoConfig => /\ screen \in Config /\ Issues(screen) = {}
                           /\ next \in Config /\ Issues(next) = {} /\ Settled(next, catalogue)
                           /\ next = screen <=> Settled(screen, catalogue)
  BY <1>2, NormalizedIs, SettledIs DEF TypeInv, Inv, ValidInv
<1> HIDE DEF next
<1>5. CASE /\ due
           /\ startup' = [at |-> "save", base |-> screen, next |-> next]
           /\ queue' = Append(Tail(queue), Call("startup", "save"))
           /\ quirks' = quirks \cup (IF \E e \in Editors : editor[e].at # "idle"
                                     THEN {"overlap"} ELSE {})
  <2>1. /\ startup' \in StartupState /\ startup'.at = "save"
        /\ startup'.base = screen /\ startup'.next = next
    BY <1>4, <1>5 DEF StartupState
  <2>2. quirks \subseteq quirks' /\ quirks' \subseteq {"overlap", "unread", "unsaved"}
        /\ ("overlap" \notin quirks' => Resting /\ "overlap" \notin quirks)
    BY <1>2, <1>5 DEF TypeInv, Resting, Active
  <2>3. BusyInv' /\ QueueInv' /\ queue' \in Seq(Calls)
    BY <1>1, <1>5, <2>1, <2>2, StartupKeeps
  <2>4. TypeInv'
    BY <1>1, <1>2, <2>1, <2>2, <2>3 DEF TypeInv
  <2>5. DiskInv'
    BY <1>1, <1>5, <2>1, <2>2 DEF Inv, DiskInv, Resting, Active
  <2>6. ValidInv'
    BY <1>1, <1>4, <1>5, <2>1 DEF Inv, ValidInv, Pending, Active
  <2>7. FreshInv'
    <3>1. quirks' = {} => quirks = {}
      BY <2>2
    <3>2. QED BY <1>1, <1>4, <1>5, <2>1, <3>1 DEF Inv, FreshInv, Pending
  <2>8. QED BY <2>3, <2>4, <2>5, <2>6, <2>7 DEF Inv
<1>6. CASE /\ ~due
           /\ startup' = [startup EXCEPT !.at = "done"]
           /\ queue' = Tail(queue)
           /\ UNCHANGED quirks
  <2>1. startup' \in StartupState /\ startup'.at = "done"
    BY <1>2, <1>6 DEF TypeInv, StartupState
  <2>2. BusyInv' /\ QueueInv' /\ queue' \in Seq(Calls)
    BY <1>1, <1>6, <2>1, StartupKeeps
  <2>3. TypeInv'
    BY <1>1, <1>2, <1>6, <2>1, <2>2 DEF TypeInv
  <2>4. DiskInv'
    BY <1>1, <1>6, <2>1 DEF Inv, DiskInv, Resting, Active
  <2>5. ValidInv'
    BY <1>1, <2>1 DEF Inv, ValidInv, Pending, Active
  <2>6. FreshInv'
    <3>1. ASSUME quirks = {}, catalogue # <<>> PROVE Settled(disk, catalogue)
      <4>1. screen # NoConfig /\ Settled(screen, catalogue)
        BY <1>4, <1>6, <3>1 DEF Inv, FreshInv
      <4>2. CASE screen = disk
        BY <4>1, <4>2
      <4>3. CASE \E e \in Editors : editor[e].at = "events"
        <5>1. PICK e \in Editors : editor[e].at = "events"
          BY <4>3
        <5>2. /\ editor[e].base = screen /\ editor[e].next = disk
              /\ NoWorse(editor[e].base, editor[e].next, catalogue)
          BY <3>1, <5>1 DEF Inv, FreshInv, DiskInv, ValidInv, Pending
        <5>3. QED BY <4>1, <5>2 DEF NoWorse, Settled
      <4>4. QED BY <3>1, <4>1, <4>2, <4>3 DEF Inv, DiskInv
    <3>2. QED BY <1>1, <1>6, <2>1, <3>1 DEF Inv, FreshInv, Pending
  <2>7. QED BY <2>2, <2>3, <2>4, <2>5, <2>6 DEF Inv
<1>7. QED BY <1>3, <1>5, <1>6

\* SaveNormalized keeps the invariant.
LEMMA SaveNormalizedKeeps ==
  ASSUME Inv, SaveNormalized
  PROVE  Inv'
<1> DEFINE next == startup.next
<1>1. /\ Turn("startup", "save") /\ queue' = Tail(queue)
      /\ startup' = [startup EXCEPT !.at = "done"]
      /\ \/ /\ disk' = next /\ screen' = next /\ games' = Ids(next)
            /\ UNCHANGED quirks
         \/ /\ quirks' = quirks \cup {"unsaved"}
            /\ UNCHANGED <<disk, screen, games>>
      /\ UNCHANGED <<catalogue, busy, editor, edits>>
  BY DEF SaveNormalized, Show
<1>2. TypeInv /\ BusyInv /\ QueueInv
  BY DEF Inv
<1>3. startup' \in StartupState /\ startup'.at = "done"
  BY <1>1, <1>2 DEF TypeInv, StartupState
<1>4. quirks \subseteq quirks' /\ quirks' \subseteq {"overlap", "unread", "unsaved"}
  BY <1>1, <1>2 DEF TypeInv
<1>5. startup.at = "save" /\ BusyInv' /\ QueueInv' /\ queue' \in Seq(Calls)
  BY <1>1, <1>3, <1>4, StartupKeeps
<1>6. /\ next \in Config /\ Issues(next) = {} /\ Ids(next) \subseteq Id /\ next # NoConfig
  BY <1>5, IdsAre DEF Inv, ValidInv
<1>7. CASE /\ disk' = next /\ screen' = next /\ games' = Ids(next)
           /\ UNCHANGED quirks
  <2>1. "overlap" \notin quirks => Resting
    BY <1>5 DEF Inv, DiskInv
  <2>2. quirks = {} => Settled(next, catalogue)
    BY <1>5 DEF Inv, FreshInv
  <2> HIDE DEF next
  <2>3. TypeInv'
    BY <1>1, <1>2, <1>3, <1>5, <1>6, <1>7 DEF TypeInv
  <2>4. DiskInv'
    BY <1>1, <1>3, <1>7, <2>1 DEF DiskInv, Resting, Active
  <2>5. ValidInv'
    BY <1>1, <1>3, <1>6, <1>7 DEF Inv, ValidInv, Pending, Active
  <2>6. FreshInv'
    BY <1>1, <1>3, <1>6, <1>7, <2>1, <2>2 DEF FreshInv, Resting, Pending, Active
  <2>7. QED BY <1>5, <2>3, <2>4, <2>5, <2>6 DEF Inv
<1>8. CASE /\ quirks' = quirks \cup {"unsaved"}
           /\ UNCHANGED <<disk, screen, games>>
  <2>1. TypeInv'
    BY <1>1, <1>2, <1>3, <1>4, <1>5, <1>8 DEF TypeInv
  <2>2. DiskInv'
    BY <1>1, <1>3, <1>8 DEF Inv, DiskInv, Resting, Active
  <2>3. ValidInv'
    BY <1>1, <1>3, <1>8 DEF Inv, ValidInv, Pending, Active
  <2>4. FreshInv'
    BY <1>8 DEF FreshInv
  <2>5. QED BY <1>5, <2>1, <2>2, <2>3, <2>4 DEF Inv
<1>9. QED BY <1>1, <1>7, <1>8

\* The invariant is inductive.
LEMMA InvHolds == Spec => []Inv
<1>1. Init => Inv
  BY InitHolds
<1>2. Inv /\ [Next]_vars => Inv'
  <2> SUFFICES ASSUME Inv, [Next]_vars PROVE Inv'
    OBVIOUS
  <2>1. CASE ReadPlans
    BY <2>1, ReadPlansKeeps
  <2>2. CASE Synchronize
    BY <2>2, SynchronizeKeeps
  <2>3. CASE SaveNormalized
    BY <2>3, SaveNormalizedKeeps
  <2>4. CASE DetectLoad
    BY <2>4, DetectLoadKeeps
  <2>5. ASSUME NEW e \in Editors, Load(e) PROVE Inv'
    BY <2>5, LoadKeeps
  <2>6. ASSUME NEW e \in Editors, Save(e) PROVE Inv'
    BY <2>6, SaveKeeps
  <2>7. ASSUME NEW e \in Editors, SaveFails(e) PROVE Inv'
    BY <2>7, SaveFailsKeeps
  <2>8. ASSUME NEW e \in Editors, Events(e) PROVE Inv'
    BY <2>8, EventsKeeps
  <2>9. CASE Detect
    BY <2>9, DetectKeeps
  <2>10. ASSUME NEW e \in Editors, Edit(e) PROVE Inv'
    BY <2>10, EditKeeps
  <2>11. CASE UNCHANGED vars
    <3>1. TypeInv'
      BY <2>11 DEF vars, window, Inv, TypeInv
    <3>2. BusyInv'
      BY <2>11 DEF vars, window, Inv, BusyInv, Resting, Others, Active
    <3>3. QueueInv'
      BY <2>11 DEF vars, window, Inv, QueueInv, Single, Active
    <3>4. DiskInv'
      BY <2>11 DEF vars, window, Inv, DiskInv, Resting, Active
    <3>5. ValidInv'
      BY <2>11 DEF vars, window, Inv, ValidInv, Pending, Active
    <3>6. FreshInv'
      BY <2>11 DEF vars, window, Inv, FreshInv, Pending
    <3>7. QED BY <3>1, <3>2, <3>3, <3>4, <3>5, <3>6 DEF Inv
  <2>12. QED
    BY <2>1, <2>2, <2>3, <2>4, <2>5, <2>6, <2>7, <2>8, <2>9, <2>10, <2>11 DEF Next, Serve
<1>3. QED BY <1>1, <1>2, PTL DEF Spec

\* The type invariant follows; a handler that waits has one call in the queue.
LEMMA InvIsTyped == Inv => TypeOK
<1> SUFFICES ASSUME Inv PROVE TypeOK
  OBVIOUS
<1>1. TypeInv /\ QueueInv /\ BusyInv
  BY DEF Inv
<1>2. \A i \in DOMAIN queue : queue[i].what \in {"plans", "rest", "load", "save", "events"}
  <2>1. \A i \in DOMAIN queue : queue[i] \in Calls
    BY <1>1 DEF TypeInv
  <2>2. QED BY <2>1 DEF Calls, Whats
<1>3. ASSUME NEW e \in Editors
      PROVE  Cardinality({i \in DOMAIN queue : queue[i].from = e})
               = IF editor[e].at = "idle" THEN 0 ELSE 1
  <2> DEFINE I == {i \in DOMAIN queue : queue[i].from = e}
  <2>1. CASE editor[e].at = "idle"
    <3>1. I = {}
      BY <1>1, <2>1 DEF QueueInv, Range, Active
    <3>2. QED BY <2>1, <3>1, FS_EmptySet
  <2>2. CASE editor[e].at # "idle"
    <3>1. startup.at # "plans" /\ e # "detect"
      BY <1>1, <2>2, ProfileEditsAssumption DEF BusyInv, Resting, Active
    <3>2. Single(queue)
      BY <1>1, <3>1 DEF QueueInv
    <3>3. PICK i \in DOMAIN queue : queue[i].from = e
      BY <1>1, <2>2 DEF QueueInv, Range, Active
    <3>4. I = {i}
      BY <3>1, <3>2, <3>3 DEF Single
    <3>5. QED BY <2>2, <3>4, FS_Singleton
  <2>3. QED BY <2>1, <2>2
<1>4. ASSUME NEW e \in Editors
      PROVE  /\ editor[e].at \in {"idle", "load", "save", "events"}
             /\ editor[e].at \in {"save", "events"} =>
                  editor[e].base \in Config /\ editor[e].next \in Config
  BY <1>1 DEF TypeInv, EditorState, Inv, ValidInv, Pending, NoWorse
<1>5. startup.at \in {"plans", "rest", "save", "done"}
  BY <1>1 DEF TypeInv, StartupState
<1>6. QED BY <1>1, <1>2, <1>3, <1>4, <1>5 DEF TypeInv, Lists, TypeOK

\* The type invariant: a handler that waits has exactly one call in the queue of the main thread,
\* and one that does not has none (App.vue:514).
THEOREM TypeCorrect == Spec => []TypeOK
  BY InvHolds, InvIsTyped, PTL

\* Whatever is added, renamed, associated and removed, in whichever order, the window only sends
\* configurations whose identifiers are unique and whose profiles are sound (configApi.ts:523).
THEOREM EditsValid == Spec => []EditsStayValid
<1>1. Inv => EditsStayValid
  <2> SUFFICES ASSUME Inv PROVE EditsStayValid
    OBVIOUS
  <2>1. ASSUME NEW e \in Editors, editor[e].at \in {"save", "events"}
        PROVE  Issues(editor[e].next) \subseteq
                 {"TooManyProfiles", "TooManyAssociatedProcesses", "EmptyProfileName"}
    <3>1. /\ editor[e].base \in Config /\ Issues(editor[e].base) = {}
          /\ NoWorse(editor[e].base, editor[e].next, catalogue)
      BY <2>1 DEF Inv, ValidInv, Pending
    <3>2. editor[e].next \in Config /\ Fit(editor[e].next)
      BY <3>1, FitIssues DEF NoWorse
    <3>3. QED BY <3>2, FitIssues DEF Allowed
  <2>2. startup.at = "save" => Issues(startup.next) = {}
    BY DEF Inv, ValidInv
  <2>3. QED BY <2>1, <2>2 DEF EditsStayValid
<1>2. QED BY <1>1, InvHolds, PTL

\* Once the start-up is over, the priorities in the files follow from the plans, with the
\* exceptions the property names (configApi.ts:163).
THEOREM PrioritiesFollow == Spec => []PriorityFollowsPlan
<1>1. Inv => PriorityFollowsPlan
  <2>1. Inv => disk \in Config
    BY DEF Inv, TypeInv
  <2>2. QED BY <2>1, SettledIs DEF Inv, FreshInv, PriorityFollowsPlan
<1>2. QED BY <1>1, InvHolds, PTL

\* Every save replaces the configuration it was computed from, unless the start-up's save and an
\* edit overlap (App.vue:514, 905).
THEOREM EditsAreKept == Spec => NoEditIsLost
<1> DEFINE Kept == disk' # disk =>
                     \/ \E e \in Editors : editor[e].base = disk /\ disk' = editor[e].next
                     \/ startup.base = disk /\ disk' = startup.next
                     \/ "overlap" \in quirks'
<1>1. Inv /\ [Next]_vars => [Kept]_vars
  <2> SUFFICES ASSUME Inv, Next, disk' # disk PROVE Kept
    BY DEF vars
  <2>1. ASSUME NEW e \in Editors, Save(e) PROVE Kept
    <3>1. /\ Turn(e, "save") /\ disk' = editor[e].next /\ UNCHANGED quirks
      BY <2>1 DEF Save
    <3>2. editor[e].at = "save"
      BY <3>1, PendingIs
    <3>3. "overlap" \notin quirks => editor[e].base = disk
      BY <3>2 DEF Inv, DiskInv
    <3>4. QED BY <3>1, <3>3
  <2>2. CASE SaveNormalized
    <3>1. Turn("startup", "save") /\ disk' = startup.next /\ UNCHANGED quirks
      BY <2>2 DEF SaveNormalized
    <3>2. startup.at = "save"
      <4>1. startup.at = "plans" => Head(queue) = Call("startup", "plans")
        BY DEF Inv, QueueInv, Opening
      <4>2. startup.at # "plans"
        BY <3>1, <4>1 DEF Turn, Call
      <4>3. QED BY <3>1, <4>2, ServedKeeps DEF Inv
    <3>3. QED BY <3>1, <3>2 DEF Inv, DiskInv
  <2>3. QED
    BY <2>1, <2>2 DEF Next, Serve, ReadPlans, Synchronize, DetectLoad, Load, SaveFails, Events,
                      Detect, Edit
<1>2. QED BY <1>1, InvHolds, PTL DEF Spec, NoEditIsLost

=============================================================================
