---------------------------- MODULE CommandProofs ----------------------------
(***************************************************************************)
(* Theorems about TransformCommand and what it is built from (Catalog,     *)
(* FileInputs, Budgets), and about the MemoryPool of its pipeline, for     *)
(* any parts of a program, command lines, objects, machines and consumers. *)
(*                                                                         *)
(* The invariants build on each other: what was checked of the parts on    *)
(* the way to the present stage (CatalogInv), that what is chosen was      *)
(* accepted and that nothing is done for it before (ChosenInv), that       *)
(* found, grouped and read files are in order and that what was read of    *)
(* them holds (InputsInv), that the budget is that of a machine            *)
(* (BudgetInv), that the orders are those of the command line (OrderInv),  *)
(* that, where the order of the input is preserved, what is left to do and *)
(* what was done for it is at most one (WorkInv), and that the files found *)
(* are all of the operands done, each in a group of its kind (GatherInv).  *)
(***************************************************************************)
EXTENDS TransformCommand, MemoryPool, DataLemmas

commandState == <<catalogVars, inputVars, commandVars>>

(* What was checked on the way to a stage was found in order. *)
Started == stage \in {"services", "assembly", "assembled", "bound"}
Loaded == stage \in {"assembly", "assembled", "bound"}
Ready == stage \in {"assembled", "bound"}
CatalogInv ==
  /\ parts \in Parts
  /\ Started => FirstError(FormatErrors(parts.formats)) = None
  /\ Loaded => InputsBuild(parts) /\ OutputsBuild(parts)
  /\ Ready => FirstError(AssemblyErrors(parts)) = None

-----------------------------------------------------------------------------
(* Checks *)

(* The first error of a chain of checks is the error of one that failed. *)
LEMMA FirstErrorIs ==
  ASSUME NEW n \in Nat, NEW checks, DOMAIN checks = 1..n,
         NEW i \in 1..n, checks[i].when
  PROVE  \E j \in 1..n : checks[j].when /\ FirstError(checks) = checks[j].error
<1> DEFINE failing == {k \in 1..n : checks[k].when}
<1>1. failing \subseteq Nat /\ failing # {}
  OBVIOUS
<1>2. \E j \in failing : \A k \in failing : j <= k
  BY <1>1, LeastNumber
<1> DEFINE j == CHOOSE j \in failing : \A k \in failing : j <= k
<1>3. j \in failing
  BY <1>2
<1>4. FirstError(checks) = checks[j].error
  BY <1>1 DEF FirstError
<1> QED BY <1>3, <1>4

(* A registry of formats is made when nothing is declared twice. *)
LEMMA FormatsAreDistinct ==
  ASSUME NEW F, FirstError(FormatErrors(F)) = None
  PROVE  ~Clashes(NamesOf(F)) /\ ~Clashes(ExtensionsOf(F))
<1> DEFINE checks == FormatErrors(F)
<1>1. /\ DOMAIN checks = 1..3
      /\ checks[1].error = "DuplicateName" /\ checks[2].error = "DuplicateExtension"
      /\ checks[3].error = "DuplicateCliArgument"
      /\ checks[1].when = Clashes(NamesOf(F)) /\ checks[2].when = Clashes(ExtensionsOf(F))
  BY DEF FormatErrors
<1> HIDE DEF checks
<1>2. \A i \in 1..3 : checks[i].error # None
  BY <1>1, CatalogAssumption
<1>3. \A i \in 1..3 : ~checks[i].when
  <2> SUFFICES ASSUME NEW i \in 1..3, checks[i].when PROVE FALSE
    OBVIOUS
  <2>1. \E j \in 1..3 : checks[j].when /\ FirstError(checks) = checks[j].error
    BY <1>1, FirstErrorIs
  <2> QED BY <1>2, <2>1 DEF checks
<1> QED BY <1>1, <1>3

(* A program is assembled when no scheme has two owners. *)
LEMMA SchemesAreDistinct ==
  ASSUME NEW p, FirstError(AssemblyErrors(p)) = None
  PROVE  ~InputSchemesClash(p) /\ ~OutputSchemesClash(p)
<1> DEFINE checks == AssemblyErrors(p)
<1>1. /\ DOMAIN checks = 1..5
      /\ checks[1].error = "DuplicateServiceInputName"
      /\ checks[2].error = "DuplicateServiceOutputName"
      /\ checks[3].error = "InputSchemeClaimConflict"
      /\ checks[4].error = "OutputSchemeClaimConflict"
      /\ checks[5].error = "CliKeyClaimConflict"
      /\ checks[3].when = InputSchemesClash(p) /\ checks[4].when = OutputSchemesClash(p)
  BY DEF AssemblyErrors
<1> HIDE DEF checks
<1>2. \A i \in 1..5 : checks[i].error # None
  BY <1>1, CatalogAssumption
<1>3. \A i \in 1..5 : ~checks[i].when
  <2> SUFFICES ASSUME NEW i \in 1..5, checks[i].when PROVE FALSE
    OBVIOUS
  <2>1. \E j \in 1..5 : checks[j].when /\ FirstError(checks) = checks[j].error
    BY <1>1, FirstErrorIs
  <2> QED BY <1>2, <2>1 DEF checks
<1> QED BY <1>1, <1>3

-----------------------------------------------------------------------------
(* Lookups *)

(* Two declarations of one value are one declaration. *)
Unclashed(lists) == \A i, j \in DOMAIN lists :
  \A k \in DOMAIN lists[i], l \in DOMAIN lists[j] :
    Folded(lists[i][k]) = Folded(lists[j][l]) => i = j /\ k = l

(* Lists that do not clash hold every folded entry once. *)
LEMMA UnclashedLists ==
  ASSUME NEW lists, ~Clashes(lists)
  PROVE  Unclashed(lists)
<1> SUFFICES ASSUME NEW i \in DOMAIN lists, NEW j \in DOMAIN lists,
                    NEW k \in DOMAIN lists[i], NEW l \in DOMAIN lists[j],
                    Folded(lists[i][k]) = Folded(lists[j][l])
             PROVE  i = j /\ k = l
  BY DEF Unclashed
<1> DEFINE a == <<i, k>>
           b == <<j, l>>
<1>1. a \in Claims(lists) /\ b \in Claims(lists)
  BY DEF Claims
<1>2. a[1] = i /\ a[2] = k /\ b[1] = j /\ b[2] = l
  OBVIOUS
<1>3. a = b
  BY <1>1, <1>2 DEF Clashes, IndexKey
<1> QED BY <1>2, <1>3

(* Who declares s in lists. *)
Owners(lists, s) == {i \in DOMAIN lists : \E v \in Range(lists[i]) : Folded(v) = Folded(s)}

(* An owner is the only one, and is found. *)
LEMMA LookupFinds ==
  ASSUME NEW n \in Nat, NEW lists, DOMAIN lists = 1..n, Unclashed(lists),
         NEW s, NEW i \in Owners(lists, s)
  PROVE  Lookup(lists, s) = i /\ Owners(lists, s) = {i}
<1>1. ASSUME NEW j \in Owners(lists, s) PROVE j = i
  <2>1. PICK k \in DOMAIN lists[i] : Folded(lists[i][k]) = Folded(s)
    BY DEF Owners, Range
  <2>2. PICK l \in DOMAIN lists[j] : Folded(lists[j][l]) = Folded(s)
    BY DEF Owners, Range
  <2>3. i \in DOMAIN lists /\ j \in DOMAIN lists
    BY DEF Owners
  <2> QED BY <2>1, <2>2, <2>3 DEF Unclashed
<1>2. Owners(lists, s) = {i} /\ i \in 1..n
  BY <1>1 DEF Owners
<1>3. Lookup(lists, s) = IF Owners(lists, s) = {} THEN 0
        ELSE CHOOSE k \in Owners(lists, s) : \A j \in Owners(lists, s) : j <= k
  BY DEF Lookup, Owners
<1> DEFINE T == Owners(lists, s)
<1>4. \A k \in T : (\A j \in T : j <= k) <=> k = i
  BY <1>2
<1>5. \E k \in T : \A j \in T : j <= k
  BY <1>2, <1>4
<1>6. (CHOOSE k \in T : \A j \in T : j <= k) = i
  BY <1>4, <1>5
<1> QED BY <1>2, <1>3, <1>6

(* What is found is an owner. *)
LEMMA LookupOwns ==
  ASSUME NEW n \in Nat, NEW lists, DOMAIN lists = 1..n, Unclashed(lists),
         NEW s, Lookup(lists, s) # 0
  PROVE  Lookup(lists, s) \in Owners(lists, s)
<1>1. Owners(lists, s) # {}
  BY DEF Lookup, Owners
<1>2. PICK i \in Owners(lists, s) : TRUE
  BY <1>1
<1> QED BY <1>2, LookupFinds

(* Formats without a clash are reached. *)
LEMMA FormatsReached ==
  ASSUME NEW n \in Nat, NEW F, DOMAIN F = 1..n,
         Unclashed(NamesOf(F)), Unclashed(ExtensionsOf(F))
  PROVE  FormatsAreReached(F)
<1>1. /\ DOMAIN NamesOf(F) = 1..n /\ DOMAIN ExtensionsOf(F) = 1..n
      /\ \A i \in 1..n : NamesOf(F)[i] = Names(F[i]) /\ ExtensionsOf(F)[i] = F[i].extensions
  BY DEF NamesOf, ExtensionsOf
<1>2. ASSUME NEW i \in 1..n, NEW k \in DOMAIN Names(F[i])
      PROVE  Get(F, Names(F[i])[k]) = i
  <2>1. i \in Owners(NamesOf(F), Names(F[i])[k])
    BY <1>1, <1>2 DEF Owners, Range
  <2> QED BY <1>1, <2>1, LookupFinds DEF Get
<1>3. ASSUME NEW i \in 1..n, NEW ext \in Range(F[i].extensions)
      PROVE  ByExtension(F, ext) = i
  <2>1. i \in Owners(ExtensionsOf(F), ext)
    BY <1>1, <1>3 DEF Owners
  <2> QED BY <1>1, <2>1, LookupFinds DEF ByExtension
<1> QED BY <1>2, <1>3 DEF FormatsAreReached

(* The formats bound for a transform are those of F at places e, in order. *)
IsBound(F, e, B) ==
  /\ e \in Seq(DOMAIN F) /\ Len(e) \in Nat /\ DOMAIN B = 1..Len(e)
  /\ \A k \in 1..Len(e) : e[k] \in DOMAIN F /\ B[k] = F[e[k]]
  /\ \A j, k \in 1..Len(e) : j < k => e[j] < e[k]
  /\ \A i \in DOMAIN F : HasTransform(F[i]) <=> \E k \in 1..Len(e) : e[k] = i

(* The bound formats are those with a transform, in their order. *)
LEMMA BoundIs ==
  ASSUME NEW F, IsList(F)
  PROVE  \E e : IsBound(F, e, Bound(F))
<1> DEFINE T == {i \in DOMAIN F : HasTransform(F[i])}
<1>1. Bound(F) = Filtered(F, T)
  <2>1. [i \in DOMAIN F |-> IF HasTransform(F[i]) THEN <<F[i]>> ELSE <<>>]
          = [i \in DOMAIN F |-> IF i \in T THEN <<F[i]>> ELSE <<>>]
    OBVIOUS
  <2> QED BY <2>1 DEF Bound, Filter, Filtered, Passed
<1>2. F \in Seq(Range(F))
  BY DEF IsList
<1>3. PICK e : IsPick(e, F, T, Filtered(F, T))
  BY <1>2, FilterPicks
<1> DEFINE B == Bound(F)
<1>4. e \in Seq(DOMAIN F) /\ Len(e) \in Nat /\ DOMAIN e = 1..Len(e)
  BY <1>3 DEF IsPick
<1>5. B = [k \in 1..Len(e) |-> F[e[k]]]
  BY <1>1, <1>3 DEF IsPick
<1>6. DOMAIN B = 1..Len(e) /\ \A k \in 1..Len(e) : e[k] \in DOMAIN F /\ B[k] = F[e[k]]
  <2> HIDE DEF B
  <2> QED BY <1>4, <1>5
<1>7. \A j, k \in 1..Len(e) : j < k => e[j] < e[k]
  BY <1>3, <1>4 DEF IsPick
<1>8. \A i \in DOMAIN F : HasTransform(F[i]) <=> \E k \in 1..Len(e) : e[k] = i
  BY <1>3, <1>4 DEF IsPick
<1> QED BY <1>4, <1>6, <1>7, <1>8 DEF IsBound

(* They clash no more than all formats do. *)
LEMMA BoundUnclashed ==
  ASSUME NEW F, IsList(F), NEW e, NEW B, IsBound(F, e, B),
         Unclashed(NamesOf(F)), Unclashed(ExtensionsOf(F))
  PROVE  Unclashed(NamesOf(B)) /\ Unclashed(ExtensionsOf(B))
<1>0. DOMAIN F \subseteq Nat
  BY DEF IsList
<1>1. ASSUME NEW j \in 1..Len(e), NEW k \in 1..Len(e), e[j] = e[k] PROVE j = k
  <2>1. ~(j < k) /\ ~(k < j)
    BY <1>0, <1>1 DEF IsBound
  <2> QED BY <2>1 DEF IsBound
<1>2. /\ DOMAIN NamesOf(B) = 1..Len(e) /\ DOMAIN ExtensionsOf(B) = 1..Len(e)
      /\ DOMAIN NamesOf(F) = DOMAIN F /\ DOMAIN ExtensionsOf(F) = DOMAIN F
      /\ \A k \in 1..Len(e) : /\ e[k] \in DOMAIN F
                              /\ NamesOf(B)[k] = NamesOf(F)[e[k]]
                              /\ ExtensionsOf(B)[k] = ExtensionsOf(F)[e[k]]
  BY DEF NamesOf, ExtensionsOf, IsBound
<1>3. Unclashed(NamesOf(B))
  <2> SUFFICES ASSUME NEW i \in 1..Len(e), NEW j \in 1..Len(e),
                      NEW k \in DOMAIN NamesOf(B)[i], NEW l \in DOMAIN NamesOf(B)[j],
                      Folded(NamesOf(B)[i][k]) = Folded(NamesOf(B)[j][l])
               PROVE  i = j /\ k = l
    BY <1>2 DEF Unclashed
  <2>1. e[i] = e[j] /\ k = l
    BY <1>2 DEF Unclashed
  <2> QED BY <1>1, <2>1
<1>4. Unclashed(ExtensionsOf(B))
  <2> SUFFICES ASSUME NEW i \in 1..Len(e), NEW j \in 1..Len(e),
                      NEW k \in DOMAIN ExtensionsOf(B)[i], NEW l \in DOMAIN ExtensionsOf(B)[j],
                      Folded(ExtensionsOf(B)[i][k]) = Folded(ExtensionsOf(B)[j][l])
               PROVE  i = j /\ k = l
    BY <1>2 DEF Unclashed
  <2>1. e[i] = e[j] /\ k = l
    BY <1>2 DEF Unclashed
  <2> QED BY <1>1, <2>1
<1> QED BY <1>3, <1>4

(* Services and backends without a clash are reached. *)
LEMMA ServicesReached ==
  ASSUME NEW services, NEW direction, IsList(services),
         ~SchemeClash(parts.backends, services, direction)
  PROVE  ServicesAreReached(services, direction)
<1> DEFINE Claiming(scheme) == {k \in DOMAIN services : scheme \in Range(services[k].schemes)}
           B == parts.backends
<1>1. ASSUME NEW k \in DOMAIN services, NEW s \in Range(services[k].schemes)
      PROVE  SchemeOwner(B, services, direction, s) = k
  <2>1. k \in Claiming(s)
    BY <1>1
  <2>2. ASSUME NEW j \in Claiming(s) PROVE j = k
    <3>1. s \in Range(services[j].schemes) \cap Range(services[k].schemes)
      BY <2>2
    <3> QED BY <2>2, <3>1 DEF SchemeClash, KeysClash
  <2>3. Claiming(s) = {k} /\ k \in Nat
    BY <2>1, <2>2 DEF IsList
  <2>4. SchemeOwner(B, services, direction, s)
          = CHOOSE i \in Claiming(s) : \A j \in Claiming(s) : j <= i
    BY <2>1 DEF SchemeOwner
  <2> HIDE DEF Claiming
  <2>5. \E i \in Claiming(s) : \A j \in Claiming(s) : j <= i
    BY <2>3
  <2>6. (CHOOSE i \in Claiming(s) : \A j \in Claiming(s) : j <= i) \in Claiming(s)
    BY <2>5
  <2> QED BY <2>3, <2>4, <2>6
<1>2. ASSUME NEW b \in BackendsFor(B, direction), NEW s \in B[b].schemes
      PROVE  SchemeOwner(B, services, direction, s) = Files
  <2>1. Claiming(s) = {}
    BY <1>2 DEF SchemeClash
  <2> QED BY <1>2, <2>1 DEF SchemeOwner
<1> QED BY <1>1, <1>2 DEF ServicesAreReached

(* What the checks establish of the formats. *)
LEMMA FormatsKnown ==
  ASSUME CatalogInv, Started
  PROVE  /\ IsList(parts.formats)
         /\ \A f \in Range(parts.formats) :
              IsList(f.aliases) /\ IsList(f.extensions) /\ f.priority \in Nat
         /\ Unclashed(NamesOf(parts.formats)) /\ Unclashed(ExtensionsOf(parts.formats))
<1>1. parts \in Parts /\ FirstError(FormatErrors(parts.formats)) = None
  BY DEF CatalogInv
<1>2. ~Clashes(NamesOf(parts.formats)) /\ ~Clashes(ExtensionsOf(parts.formats))
  BY <1>1, FormatsAreDistinct
<1> QED BY <1>1, <1>2, UnclashedLists, CatalogAssumption

(* A program that is assembled has unique routes. *)
LEMMA RoutesKnown == CatalogInv => RoutesAreUnique
<1> SUFFICES ASSUME CatalogInv, Assembled
             PROVE  /\ FormatsAreReached(parts.formats)
                    /\ FormatsAreReached(Bound(parts.formats))
                    /\ ServicesAreReached(parts.inputs, "ReadOnly")
                    /\ ServicesAreReached(parts.outputs, "WriteOnly")
  BY DEF RoutesAreUnique
<1> DEFINE F == parts.formats
<1>1. Started /\ Ready /\ parts \in Parts
  BY DEF Assembled, Started, Ready, CatalogInv
<1>2. IsList(F) /\ Unclashed(NamesOf(F)) /\ Unclashed(ExtensionsOf(F))
  BY <1>1, FormatsKnown
<1>3. FormatsAreReached(F)
  <2>1. DOMAIN F = 1..Len(F) /\ Len(F) \in Nat
    BY <1>2 DEF IsList
  <2> QED BY <1>2, <2>1, FormatsReached
<1>4. FormatsAreReached(Bound(F))
  <2>1. PICK e : IsBound(F, e, Bound(F))
    BY <1>2, BoundIs
  <2>2. DOMAIN Bound(F) = 1..Len(e) /\ Len(e) \in Nat
    BY <2>1 DEF IsBound
  <2>3. Unclashed(NamesOf(Bound(F))) /\ Unclashed(ExtensionsOf(Bound(F)))
    BY <1>2, <2>1, BoundUnclashed
  <2> QED BY <2>2, <2>3, FormatsReached
<1>5. FirstError(AssemblyErrors(parts)) = None
  BY <1>1 DEF CatalogInv
<1>6. ~InputSchemesClash(parts) /\ ~OutputSchemesClash(parts)
  BY <1>5, SchemesAreDistinct
<1>7. IsList(parts.inputs) /\ IsList(parts.outputs)
  BY <1>1, CatalogAssumption
<1>8. ServicesAreReached(parts.inputs, "ReadOnly")
  BY <1>6, <1>7, ServicesReached DEF InputSchemesClash
<1>9. ServicesAreReached(parts.outputs, "WriteOnly")
  BY <1>6, <1>7, ServicesReached DEF OutputSchemesClash
<1> QED BY <1>3, <1>4, <1>8, <1>9

(* The program does not change, and a command only goes on or ends. *)
Onward ==
  /\ parts' = parts
  /\ stage' \in {stage, "ended"} \/ (stage = "assembled" /\ stage' = "bound")

(* A failure ends the program. *)
LEMMA FailEnds == ASSUME NEW e, Fail(e) PROVE stage' = "ended"
BY DEF Fail

(* A step that goes on leaves the stage. *)
LEMMA GoesOn == ASSUME Goes PROVE stage' = stage
BY DEF Goes

(* A failure of the command ends it. *)
LEMMA FailCommandEnds == ASSUME NEW e, FailCommand(e) PROVE stage' = "ended"
BY DEF FailCommand, Fail

(* What the commands do with a program that is assembled. *)
LEMMA CatalogOnward ==
  ASSUME BindDetect \/ BindInspect \/ RunDetect \/ RunInspect \/ BindTransform
  PROVE  Onward
<1>1. ASSUME NEW command, Bind(command) PROVE Onward
  BY <1>1 DEF Bind, StepTo, Onward
<1>2. ASSUME NEW error, NEW output, End(error, output) PROVE Onward
  BY <1>2 DEF End, Onward
<1> QED BY <1>1, <1>2 DEF BindDetect, BindInspect, RunDetect, RunInspect, BindTransform

(* What the making of the inputs does. *)
LEMMA InputsOnward ==
  ASSUME InputsNext
  PROVE  stage' \in {stage, "ended"}
<1>1. ASSUME NEW i, ReadOrdering(i) \/ CheckSchema(i) PROVE stage' \in {stage, "ended"}
  BY <1>1, FailEnds, GoesOn DEF ReadOrdering, CheckSchema
<1>2. CASE CheckPatterns \/ UnsupportedScheme \/ ServiceInput \/ FileOperand
  BY <1>2, FailEnds, GoesOn DEF CheckPatterns, UnsupportedScheme, ServiceInput, FileOperand
<1>3. CASE Identify \/ StartGroup \/ ProviderBuilt \/ InputsDone
  BY <1>3, FailEnds, GoesOn DEF Identify, StartGroup, ProviderBuilt, InputsDone
<1> QED BY <1>1, <1>2, <1>3 DEF InputsNext

(* What the rest of the command does. *)
LEMMA RunOnward ==
  ASSUME RunCommand
  PROVE  Onward
<1>0. parts' = parts
  BY DEF RunCommand
<1>1. ASSUME Options PROVE stage' \in {stage, "ended"}
  BY <1>1, FailEnds, GoesOn DEF Options, CreateSession
<1>2. ASSUME Plan \/ UnboundedPlan PROVE stage' \in {stage, "ended"}
  BY <1>2, FailCommandEnds, GoesOn DEF Plan, UnboundedPlan, Planned
<1>3. ASSUME ServiceOutput \/ Consume \/ WrongOutput PROVE stage' \in {stage, "ended"}
  BY <1>3, FailCommandEnds, GoesOn DEF ServiceOutput, Consume, WrongOutput
<1>4. ASSUME BindOutput \/ BeginExecution PROVE stage' \in {stage, "ended"}
  BY <1>4, FailCommandEnds, FailEnds, GoesOn DEF BindOutput, BeginExecution
<1>5. ASSUME CompleteOutput \/ Write \/ Finish PROVE stage' \in {stage, "ended"}
  BY <1>5, GoesOn DEF CompleteOutput, Write, Finish
<1>6. stage' \in {stage, "ended"}
  BY <1>1, <1>2, <1>3, <1>4, <1>5 DEF RunCommand
<1> QED BY <1>0, <1>6 DEF Onward

(* Steps that only go on or end keep the invariant of the catalog. *)
LEMMA OnwardKeeps ==
  ASSUME CatalogInv, Onward
  PROVE  CatalogInv'
BY DEF CatalogInv, Onward, Started, Loaded, Ready

(* Nothing was checked at the start. *)
LEMMA CatalogInvInit == CommandInit => CatalogInv
BY DEF CommandInit, CatalogInit, CatalogInv, Started, Loaded, Ready

(* Every step keeps the invariant of the catalog. *)
LEMMA CatalogInvStep == CatalogInv /\ [CommandNext]_commandState => CatalogInv'
<1> SUFFICES ASSUME CatalogInv, [CommandNext]_commandState PROVE CatalogInv'
  OBVIOUS
<1>1. CASE BuildFormats
  BY <1>1 DEF BuildFormats, StepTo, CatalogInv, Started, Loaded, Ready
<1>2. CASE BuildServices
  BY <1>2, CatalogAssumption DEF BuildServices, StepTo, CatalogInv, Started, Loaded, Ready
<1>3. CASE FromParts
  BY <1>3 DEF FromParts, StepTo, CatalogInv, Started, Loaded, Ready
<1>4. CASE BindDetect \/ BindInspect \/ RunDetect \/ RunInspect \/ BindTransform
  BY <1>4, CatalogOnward, OnwardKeeps
<1>5. CASE RunCommand
  BY <1>5, RunOnward, OnwardKeeps
<1>6. CASE MakeInputs
  BY <1>6, InputsOnward, OnwardKeeps DEF MakeInputs, Onward
<1>7. CASE OthersWrite
  BY <1>7, GoesOn, OnwardKeeps DEF OthersWrite, Rewrite, Onward
<1>8. CASE UNCHANGED commandState
  <2>1. Onward
    BY <1>8 DEF commandState, catalogVars, Onward
  <2> QED BY <2>1, OnwardKeeps
<1> QED BY <1>1, <1>2, <1>3, <1>4, <1>5, <1>6, <1>7, <1>8 DEF CommandNext, CatalogNext

(***************************************************************************)
(* RoutesAreUnique, for any parts a program is assembled from: what the    *)
(* registries and CommandCatalog::from_parts let through leads each name,  *)
(* extension, scheme and argument to one owner.                            *)
(***************************************************************************)
THEOREM RoutesUnique == CommandSpec => []RoutesAreUnique
<1>1. CommandSpec => []CatalogInv
  BY CatalogInvInit, CatalogInvStep, PTL DEF CommandSpec, commandState
<1> QED BY <1>1, RoutesKnown, PTL

-----------------------------------------------------------------------------
(* Detection *)

(* The first of a set of formats in the order of detection. *)
LEMMA FirstAsked ==
  ASSUME NEW n \in Nat, NEW F, DOMAIN F = 1..n, \A i \in 1..n : F[i].priority \in Nat,
         NEW S, S \subseteq 1..n, S # {}
  PROVE  \E i \in S : \A j \in S \ {i} : <<i, j>> \in Before(F)
<1> DEFINE P == {F[i].priority : i \in S}
<1>1. PICK p \in P : \A q \in P : p <= q
  <2>1. P \subseteq Nat /\ P # {}
    OBVIOUS
  <2> HIDE DEF P
  <2> QED BY <2>1, LeastNumber
<1> DEFINE T == {i \in S : F[i].priority = p}
<1>2. PICK i \in T : \A j \in T : i <= j
  <2>1. PICK i \in S : F[i].priority = p
    OBVIOUS
  <2>2. i \in T
    BY <2>1
  <2>3. T \subseteq Nat
    <3>1. T \subseteq S
      OBVIOUS
    <3> HIDE DEF T
    <3> QED BY <3>1
  <2> HIDE DEF T
  <2> QED BY <2>2, <2>3, LeastNumber
<1>3. ASSUME NEW j \in S \ {i} PROVE <<i, j>> \in Before(F)
  <2>1. F[i].priority = p /\ p <= F[j].priority /\ p \in Nat /\ F[j].priority \in Nat
    BY <1>1
  <2>2. <<i, j>> \in (DOMAIN F) \X (DOMAIN F)
    OBVIOUS
  <2>3. p < F[j].priority \/ (p = F[j].priority /\ i < j)
    <3>1. CASE F[j].priority = p
      <4>1. i <= j
        BY <1>2, <3>1
      <4>2. i \in 1..n /\ j \in 1..n /\ i # j
        OBVIOUS
      <4>3. i < j
        BY <4>1, <4>2
      <4> QED BY <3>1, <4>3
    <3>2. CASE F[j].priority # p
      BY <2>1, <3>2
    <3> QED BY <3>1, <3>2
  <2> QED BY <2>1, <2>2, <2>3 DEF Before
<1> QED BY <1>3

(* Which is asked before all others is only one. *)
LEMMA AskedOnce ==
  ASSUME NEW n \in Nat, NEW F, DOMAIN F = 1..n, \A i \in 1..n : F[i].priority \in Nat,
         NEW i \in 1..n, NEW j \in 1..n, <<i, j>> \in Before(F), <<j, i>> \in Before(F)
  PROVE  FALSE
<1>1. F[i].priority < F[j].priority \/ (F[i].priority = F[j].priority /\ i < j)
  BY DEF Before
<1>2. F[j].priority < F[i].priority \/ (F[j].priority = F[i].priority /\ j < i)
  BY DEF Before
<1> QED BY <1>1, <1>2

(* Those of S that decide, and the one that is asked first. *)
Deciding(F, S, o) == {i \in S : o.answers[F[i].name] # "Mismatch"}
IsAsked(F, S, o, i) ==
  LET owner == ByExtension(F, o.extension)
      deciding == Deciding(F, S, o)
  IN /\ i \in deciding
     /\ owner \in deciding => i = owner
     /\ owner \notin deciding => \A j \in deciding \ {i} : <<i, j>> \in Before(F)
Answer(F, o, i) == [format |-> F[i].name, answer |-> o.answers[F[i].name]]

(* Asking gives the answer of that one. *)
LEMMA AskIs ==
  ASSUME NEW n \in Nat, NEW F, DOMAIN F = 1..n, \A i \in 1..n : F[i].priority \in Nat,
         NEW S, S \subseteq 1..n, NEW o
  PROVE  /\ Deciding(F, S, o) = {} =>
              Ask(F, S, Before(F), o) = [format |-> None, answer |-> "Mismatch"]
         /\ Deciding(F, S, o) # {} => \E i : IsAsked(F, S, o, i)
         /\ \A i : IsAsked(F, S, o, i) => Ask(F, S, Before(F), o) = Answer(F, o, i)
<1> DEFINE D == Deciding(F, S, o)
           owner == ByExtension(F, o.extension)
           Leads(i) == \A j \in D \ {i} : <<i, j>> \in Before(F)
           first == IF owner \in D THEN owner ELSE CHOOSE i \in D : Leads(i)
<1>1. D \subseteq 1..n
  BY DEF Deciding
<1>2. Ask(F, S, Before(F), o) =
        IF D = {} THEN [format |-> None, answer |-> "Mismatch"] ELSE Answer(F, o, first)
  BY DEF Ask, Deciding, Answer
<1>3. D # {} => \E i \in D : Leads(i)
  <2> HIDE DEF D
  <2> QED BY <1>1, FirstAsked
<1>4. D # {} => IsAsked(F, S, o, first)
  <2>1. CASE owner \in D
    BY <2>1 DEF IsAsked
  <2>2. CASE owner \notin D /\ D # {}
    <3>1. first \in D /\ Leads(first)
      <4>1. first = CHOOSE i \in D : Leads(i)
        BY <2>2
      <4> HIDE DEF first, D, Leads
      <4> QED BY <1>3, <2>2, <4>1
    <3> HIDE DEF first
    <3> QED BY <2>2, <3>1 DEF IsAsked
  <2> QED BY <2>1, <2>2
<1>5. ASSUME NEW i, IsAsked(F, S, o, i) PROVE D # {} /\ first = i
  <2>1. i \in D
    BY <1>5 DEF IsAsked
  <2>2. CASE owner \in D
    BY <1>5, <2>1, <2>2 DEF IsAsked
  <2>3. CASE owner \notin D
    <3>1. IsAsked(F, S, o, first)
      BY <1>4, <2>1
    <3> HIDE DEF first
    <3>2. first \in D /\ Leads(first) /\ Leads(i)
      BY <1>5, <2>3, <3>1 DEF IsAsked
    <3>3. first \in 1..n /\ i \in 1..n
      BY <1>1, <2>1, <3>2
    <3>4. first # i => <<i, first>> \in Before(F) /\ <<first, i>> \in Before(F)
      BY <2>1, <3>2
    <3> QED BY <2>1, <3>3, <3>4, AskedOnce
  <2> QED BY <2>1, <2>2, <2>3
<1> HIDE DEF first
<1> QED BY <1>2, <1>4, <1>5

(* The bound format k is asked first where it is the one of all formats that is. *)
LEMMA AskedWhereBound ==
  ASSUME NEW n \in Nat, NEW F, DOMAIN F = 1..n, \A i \in 1..n : F[i].priority \in Nat,
         Unclashed(ExtensionsOf(F)),
         NEW e, NEW B, IsBound(F, e, B), Unclashed(ExtensionsOf(B)),
         NEW S, S \subseteq 1..n, NEW R, R \subseteq DOMAIN B, \A k \in R : e[k] \in S,
         NEW o, NEW k \in R, IsAsked(F, S, o, e[k])
  PROVE  IsAsked(B, R, o, k)
<1> DEFINE m == Len(e)
           owner == ByExtension(F, o.extension)
           bowner == ByExtension(B, o.extension)
           D == Deciding(F, S, o)
           C == Deciding(B, R, o)
<1>1. /\ m \in Nat /\ DOMAIN B = 1..m
      /\ \A j \in 1..m : e[j] \in 1..n /\ B[j] = F[e[j]]
      /\ \A i, j \in 1..m : i < j => e[i] < e[j]
  BY DEF IsBound
<1>2. k \in 1..m /\ C \subseteq 1..m
  BY <1>1 DEF Deciding
<1>3. \A j \in R : j \in C <=> e[j] \in D
  BY <1>1 DEF Deciding
<1>4. k \in C
  BY <1>3 DEF IsAsked
<1>5. \A i, j \in 1..m : e[i] = e[j] => i = j
  <2> SUFFICES ASSUME NEW i \in 1..m, NEW j \in 1..m, e[i] = e[j] PROVE i = j
    OBVIOUS
  <2>1. ~(i < j) /\ ~(j < i)
    BY <1>1
  <2> QED BY <1>1, <2>1
<1>6. DOMAIN ExtensionsOf(F) = 1..n /\ DOMAIN ExtensionsOf(B) = 1..m
  BY <1>1 DEF ExtensionsOf
<1>7. \A j \in 1..m : j \in Owners(ExtensionsOf(B), o.extension)
                        <=> e[j] \in Owners(ExtensionsOf(F), o.extension)
  BY <1>1, <1>6 DEF Owners, ExtensionsOf
<1>8. \A j \in 1..m : bowner = j <=> owner = e[j]
  <2> SUFFICES ASSUME NEW j \in 1..m PROVE bowner = j <=> owner = e[j]
    OBVIOUS
  <2>0. j # 0 /\ e[j] # 0
    BY <1>1
  <2>1. ASSUME bowner = j PROVE owner = e[j]
    <3>1. j \in Owners(ExtensionsOf(B), o.extension)
      BY <1>1, <1>6, <2>0, <2>1, LookupOwns DEF ByExtension
    <3> QED BY <1>6, <1>7, <3>1, LookupFinds DEF ByExtension
  <2>2. ASSUME owner = e[j] PROVE bowner = j
    <3>1. e[j] \in Owners(ExtensionsOf(F), o.extension)
      BY <1>6, <2>0, <2>2, LookupOwns DEF ByExtension
    <3> QED BY <1>1, <1>6, <1>7, <3>1, LookupFinds DEF ByExtension
  <2> QED BY <2>1, <2>2
<1>9. ASSUME bowner \in C PROVE k = bowner
  <2>1. bowner \in 1..m /\ bowner \in R
    BY <1>2, <1>9 DEF Deciding
  <2>2. owner = e[bowner] /\ owner \in D
    BY <1>3, <1>8, <1>9, <2>1
  <2>3. e[k] = e[bowner]
    BY <2>2 DEF IsAsked
  <2> QED BY <1>2, <1>5, <2>1, <2>3
<1>10. ASSUME bowner \notin C PROVE \A j \in C \ {k} : <<k, j>> \in Before(B)
  <2>1. owner \notin D
    <3> SUFFICES ASSUME owner \in D PROVE FALSE
      OBVIOUS
    <3>1. owner = e[k]
      BY DEF IsAsked
    <3>2. bowner = k
      BY <1>2, <1>8, <3>1
    <3> QED BY <1>4, <1>10, <3>2
  <2> SUFFICES ASSUME NEW j \in C \ {k} PROVE <<k, j>> \in Before(B)
    OBVIOUS
  <2>2. j \in 1..m /\ j \in R
    BY <1>2 DEF Deciding
  <2>3. e[j] \in D /\ e[j] # e[k]
    BY <1>2, <1>3, <1>5, <2>2
  <2>4. <<e[k], e[j]>> \in Before(F)
    BY <2>1, <2>3 DEF IsAsked
  <2>5. \/ F[e[k]].priority < F[e[j]].priority
        \/ F[e[k]].priority = F[e[j]].priority /\ e[k] < e[j]
    BY <2>4 DEF Before
  <2>6. e[k] < e[j] => k < j
    <3>1. CASE j < k
      <4>1. e[j] < e[k] /\ e[j] \in Nat /\ e[k] \in Nat
        BY <1>1, <1>2, <2>2, <3>1
      <4> QED BY <4>1
    <3> QED BY <1>2, <2>2, <3>1
  <2>7. B[k] = F[e[k]] /\ B[j] = F[e[j]] /\ <<k, j>> \in (DOMAIN B) \X (DOMAIN B)
    BY <1>1, <1>2, <2>2
  <2> QED BY <2>5, <2>6, <2>7 DEF Before
<1> QED BY <1>4, <1>9, <1>10 DEF IsAsked

(* An assembled program detects alike in both ways. *)
LEMMA DetectionKnown == CatalogInv => DetectionAgrees
<1> SUFFICES ASSUME CatalogInv, Assembled, NEW o \in Objects
             PROVE  LET seen == RegistryDetects(parts.formats, o)
                        read == BindingsDetect(parts.formats, o)
                        f == parts.formats[Get(parts.formats, seen.format)]
                    IN /\ Recognised(seen) /\ HasProvider(f) => read = seen
                       /\ seen.answer = "Mismatch" => read = seen
  BY DEF DetectionAgrees
<1> DEFINE F == parts.formats
           B == Bound(F)
           n == Len(F)
           S == {i \in DOMAIN F : F[i].detector}
           R == {k \in DOMAIN B : B[k].detector /\ HasProvider(B[k])}
           seen == RegistryDetects(F, o)
           read == BindingsDetect(F, o)
<1>1. Started
  BY DEF Assembled, Started
<1>2. /\ IsList(F) /\ Unclashed(NamesOf(F)) /\ Unclashed(ExtensionsOf(F))
      /\ \A f \in Range(F) : f.priority \in Nat
  BY <1>1, FormatsKnown
<1>3. DOMAIN F = 1..n /\ n \in Nat /\ \A i \in 1..n : F[i].priority \in Nat
  BY <1>2 DEF IsList, Range
<1>4. PICK e : IsBound(F, e, B)
  BY <1>2, BoundIs
<1>5. Unclashed(NamesOf(B)) /\ Unclashed(ExtensionsOf(B))
  BY <1>2, <1>4, BoundUnclashed
<1> HIDE DEF B, F
<1>6. /\ Len(e) \in Nat /\ DOMAIN B = 1..Len(e)
      /\ \A k \in 1..Len(e) : e[k] \in 1..n /\ B[k] = F[e[k]]
      /\ \A i \in 1..n : HasTransform(F[i]) => \E k \in 1..Len(e) : e[k] = i
  BY <1>3, <1>4 DEF IsBound
<1>7. \A k \in 1..Len(e) : B[k].priority \in Nat
  BY <1>3, <1>6
<1> HIDE DEF n
<1>8. S \subseteq 1..n /\ R \subseteq 1..Len(e) /\ R \subseteq DOMAIN B /\ \A k \in R : e[k] \in S
  BY <1>3, <1>6
<1>9. seen = Ask(F, S, Before(F), o) /\ read = Ask(B, R, Before(B), o)
  BY DEF RegistryDetects, BindingsDetect, BoundBefore, B
<1> HIDE DEF S, R, seen, read
<1>9a. DOMAIN F = 1..n /\ n \in Nat /\ S \subseteq 1..n
  BY <1>3, <1>8
<1>9b. \A i \in 1..n : F[i].priority \in Nat
  BY <1>3
<1>10. /\ Deciding(F, S, o) = {} => seen = [format |-> None, answer |-> "Mismatch"]
       /\ Deciding(F, S, o) # {} => \E i : IsAsked(F, S, o, i)
       /\ \A i : IsAsked(F, S, o, i) => seen = Answer(F, o, i)
  BY <1>9, <1>9a, <1>9b, AskIs
<1>11. /\ Deciding(B, R, o) = {} => read = [format |-> None, answer |-> "Mismatch"]
       /\ \A i : IsAsked(B, R, o, i) => read = Answer(B, o, i)
  BY <1>6, <1>7, <1>8, <1>9, AskIs
<1>12. ASSUME seen.answer = "Mismatch" PROVE read = seen
  <2>1. Deciding(F, S, o) = {}
    <3> SUFFICES ASSUME NEW i, IsAsked(F, S, o, i) PROVE FALSE
      BY <1>10
    <3>1. seen = Answer(F, o, i) /\ i \in Deciding(F, S, o)
      BY <1>10 DEF IsAsked
    <3>2. seen.answer = o.answers[F[i].name]
      BY <3>1 DEF Answer
    <3> QED BY <1>12, <3>1, <3>2 DEF Deciding
  <2>2. Deciding(B, R, o) = {}
    <3>1. \A k \in Deciding(B, R, o) : e[k] \in Deciding(F, S, o)
      BY <1>6, <1>8 DEF Deciding
    <3> QED BY <2>1, <3>1
  <2> QED BY <1>10, <1>11, <2>1, <2>2
<1>13. ASSUME Recognised(seen), HasProvider(F[Get(F, seen.format)]) PROVE read = seen
  <2>1. PICK i : IsAsked(F, S, o, i)
    <3>1. Deciding(F, S, o) # {}
      <4> SUFFICES ASSUME seen = [format |-> None, answer |-> "Mismatch"] PROVE FALSE
        BY <1>10
      <4> QED BY <1>13 DEF Recognised
    <3> QED BY <1>10, <3>1
  <2>2. seen = Answer(F, o, i) /\ i \in S /\ i \in 1..n
    BY <1>8, <1>10, <2>1 DEF IsAsked, Deciding
  <2>3. Get(F, F[i].name) = i
    <3>1. DOMAIN NamesOf(F) = 1..n /\ NamesOf(F)[i] = Names(F[i])
      BY <1>3, <2>2 DEF NamesOf
    <3>2. 1 \in DOMAIN Names(F[i]) /\ Names(F[i])[1] = F[i].name
      <4>1. IsList(F[i].aliases)
        BY <1>1, <1>3, <2>2, FormatsKnown DEF Range, F
      <4> QED BY <4>1 DEF Names, IsList
    <3>3. i \in Owners(NamesOf(F), F[i].name)
      BY <2>2, <3>1, <3>2 DEF Owners, Range
    <3> QED BY <1>2, <1>3, <3>1, <3>3, LookupFinds DEF Get
  <2>4. HasProvider(F[i])
    BY <1>13, <2>2, <2>3 DEF Answer
  <2>5. PICK k \in 1..Len(e) : e[k] = i
    BY <1>6, <2>2, <2>4 DEF HasProvider
  <2>6. k \in R
    BY <1>6, <2>2, <2>4, <2>5 DEF R, S
  <2>7. IsAsked(B, R, o, k)
    BY <1>2, <1>3, <1>4, <1>5, <1>8, <2>1, <2>5, <2>6, AskedWhereBound
  <2>8. read = Answer(B, o, k) /\ B[k] = F[i]
    BY <1>6, <1>11, <2>5, <2>7
  <2> QED BY <2>2, <2>8 DEF Answer
<1> QED BY <1>12, <1>13 DEF F, seen, read

(***************************************************************************)
(* DetectionAgrees, for any parts and any object: the formats bound for a  *)
(* transform detect what the registry of all formats detects, whenever     *)
(* the registry's answer can be read.                                      *)
(***************************************************************************)
THEOREM DetectionIsOne == CommandSpec => []DetectionAgrees
<1>1. CommandSpec => []CatalogInv
  BY CatalogInvInit, CatalogInvStep, PTL DEF CommandSpec, commandState
<1> QED BY <1>1, DetectionKnown, PTL

-----------------------------------------------------------------------------
(* The chosen command *)

(* The command is a transform whose command line was accepted. *)
ArgsKnown == chosen.name = "transform" /\ chosen.args \in CommandLines(parts) /\ Accepted(Args)

(* Until a command is chosen nothing is done for it. *)
Choosing == stage \in {"registries", "services", "assembly", "assembled"}
Untouched ==
  /\ phase = "options" /\ operands = <<>> /\ found = <<>> /\ groups = <<>>
  /\ building = NoGroup /\ finished = <<>> /\ providers = <<>>
  /\ budget = None /\ plan = None /\ sink = None

ChosenInv ==
  /\ Choosing => Untouched
  /\ stage = "bound" /\ chosen.name = "transform" => ArgsKnown
  /\ budget # None \/ sink # None => ArgsKnown

(* No command is chosen at the start. *)
LEMMA ChosenInvInit == CommandInit => ChosenInv
BY DEF CommandInit, CatalogInit, InputsInit, ChosenInv, Choosing, Untouched

(* Whether a command line is accepted depends on the parts alone. *)
LEMMA AcceptedStays ==
  ASSUME parts' = parts, NEW a, Accepted(a)
  PROVE  Accepted(a)'
BY DEF Accepted

(* A step that leaves the command alone and starts nothing before it is chosen. *)
LEMMA ChosenStays ==
  ASSUME ChosenInv, parts' = parts, chosen' = chosen, stage' \in {stage, "ended"}, ~Choosing,
         (budget' # None \/ sink' # None) => ArgsKnown
  PROVE  ChosenInv'
<1>1. ArgsKnown => ArgsKnown'
  BY AcceptedStays DEF ArgsKnown, Args
<1>2. ~Choosing'
  BY DEF Choosing
<1>3. stage' = "bound" /\ chosen'.name = "transform" => ArgsKnown
  BY DEF ChosenInv
<1> QED BY <1>1, <1>2, <1>3 DEF ChosenInv

(* The inputs are made, and the rest is done, for a transform only. *)
LEMMA ForTransform ==
  ASSUME InputsNext \/ RunCommand
  PROVE  stage = "bound" /\ chosen.name = "transform"
<1>1. CASE InputsNext
  BY <1>1 DEF InputsNext, CheckPatterns, UnsupportedScheme, ServiceInput, FileOperand, Identify,
       StartGroup, ProviderBuilt, InputsDone, Checking, Idle, Running
<1>2. CASE RunCommand
  BY <1>2 DEF RunCommand, Options, Plan, UnboundedPlan, ServiceOutput, Consume, WrongOutput,
       BindOutput, BeginExecution, CompleteOutput, Write, Finish, Running
<1> QED BY <1>1, <1>2

(* Every step keeps the invariant of the chosen command. *)
LEMMA ChosenInvStep ==
  ASSUME ChosenInv, [CommandNext]_commandState
  PROVE  ChosenInv'
<1>1. CASE CatalogNext /\ UNCHANGED <<inputVars, commandVars>>
  <2>1. UNCHANGED <<phase, operands, found, groups, building, finished, providers, budget, plan, sink>>
    BY <1>1 DEF inputVars, commandVars
  <2>2. CASE BuildFormats \/ BuildServices \/ FromParts
    <3>1. Choosing /\ stage' \in {"services", "assembly", "assembled", "ended"}
      BY <2>2 DEF BuildFormats, BuildServices, FromParts, StepTo, Choosing
    <3>2. Untouched
      BY <3>1 DEF ChosenInv
    <3> QED BY <2>1, <3>1, <3>2 DEF ChosenInv, Untouched
  <2>3. CASE BindDetect \/ BindInspect
    <3>1. /\ Choosing /\ stage' \in {"bound", "ended"}
          /\ chosen'.name \in {"detect", "inspect"}
      BY <2>3 DEF BindDetect, BindInspect, Bind, StepTo, Choosing
    <3>2. Untouched
      BY <3>1 DEF ChosenInv
    <3> QED BY <2>1, <3>1, <3>2 DEF ChosenInv, Untouched, Choosing
  <2>4. CASE RunDetect \/ RunInspect
    <3>1. stage = "bound" /\ stage' = "ended" /\ parts' = parts /\ chosen' = chosen
      BY <2>4 DEF RunDetect, RunInspect, End
    <3> QED BY <2>1, <3>1, ChosenStays DEF ChosenInv, Choosing
  <2> QED BY <1>1, <2>2, <2>3, <2>4 DEF CatalogNext
<1>2. CASE BindTransform
  <2>1. UNCHANGED <<phase, operands, found, groups, building, finished, providers, budget, plan, sink>>
    BY <1>2 DEF BindTransform, inputVars, commandVars
  <2>2. PICK a \in CommandLines(parts) : Accepted(a) /\ Bind([name |-> "transform", args |-> a])
    BY <1>2 DEF BindTransform
  <2>3. Choosing /\ stage' \in {"bound", "ended"} /\ parts' = parts
    BY <2>2 DEF Bind, StepTo, Choosing
  <2>4. Untouched
    BY <2>3 DEF ChosenInv
  <2>5. chosen'.name = "transform" /\ chosen'.args = a
    BY <2>2 DEF Bind
  <2>6. Accepted(a)'
    BY <2>2, <2>3, AcceptedStays
  <2>7. ArgsKnown'
    BY <2>2, <2>3, <2>5, <2>6 DEF ArgsKnown, Args
  <2> QED BY <2>3, <2>7 DEF ChosenInv, Choosing
<1>3. CASE RunCommand \/ MakeInputs
  <2>1. stage = "bound" /\ chosen.name = "transform" /\ parts' = parts /\ chosen' = chosen
    BY <1>3, ForTransform DEF RunCommand, MakeInputs
  <2>2. stage' \in {stage, "ended"}
    BY <1>3, <2>1, RunOnward, InputsOnward DEF MakeInputs, Onward
  <2> QED BY <2>1, <2>2, ChosenStays DEF ChosenInv, Choosing
<1>4. CASE OthersWrite
  <2>1. stage = "bound" /\ stage' = stage /\ UNCHANGED <<parts, chosen, budget, sink>>
    BY <1>4, GoesOn DEF OthersWrite, Rewrite, commandVars
  <2> QED BY <2>1, ChosenStays DEF ChosenInv, Choosing
<1>5. CASE UNCHANGED commandState
  BY <1>5, AcceptedStays DEF commandState, catalogVars, inputVars, commandVars, ChosenInv, Choosing,
       Untouched, ArgsKnown, Args
<1> QED BY <1>1, <1>2, <1>3, <1>4, <1>5 DEF CommandNext

-----------------------------------------------------------------------------
(* Lists of files *)

UrlBefore == {p \in Objects \X Objects : UrlOrder(p[1].url, p[2].url)}

(* Files in the order of their URLs, each once. *)
InOrder(files) ==
  /\ files \in Seq(Objects)
  /\ \A i, j \in 1..Len(files) : i < j => UrlOrder(files[i].url, files[j].url)

(* URLs put objects in one order. *)
LEMMA UrlsRank ==
  ASSUME NEW S, S \subseteq Objects
  PROVE  Ranks(UrlBefore, S) /\ \A x \in S : <<x, x>> \notin UrlBefore
<1>1. \A x, y \in S : <<x, y>> \in UrlBefore <=> UrlOrder(x.url, y.url)
  BY DEF UrlBefore
<1>2. \A x, y \in S : x = y \/ <<x, y>> \in UrlBefore \/ <<y, x>> \in UrlBefore
  BY <1>1, InputsAssumption
<1>3. \A x, y, z \in S : <<x, y>> \in UrlBefore /\ <<y, z>> \in UrlBefore => <<x, z>> \in UrlBefore
  BY <1>1, InputsAssumption
<1>4. \A x \in S : <<x, x>> \notin UrlBefore
  BY <1>1, InputsAssumption
<1> QED BY <1>2, <1>3, <1>4 DEF Ranks

(* The matches of an operand can be sorted, and each is there once. *)
LEMMA UrlOrderIs ==
  ASSUME NEW S, S \subseteq Objects, IsFiniteSet(S)
  PROVE  /\ InOrder(InUrlOrder(S)) /\ Len(InUrlOrder(S)) = Cardinality(S)
         /\ InUrlOrder(S) \in Seq(S)
         /\ \A x \in S : \E i \in 1..Len(InUrlOrder(S)) : InUrlOrder(S)[i] = x
<1> DEFINE n == Cardinality(S)
           Sorts(s) == \A i, j \in DOMAIN s : i < j => UrlOrder(s[i].url, s[j].url)
<1>1. \A s \in [1..n -> S] : Sorts(s) <=> Lists(UrlBefore, S, n, s)
  <2> SUFFICES ASSUME NEW s \in [1..n -> S] PROVE Sorts(s) <=> Lists(UrlBefore, S, n, s)
    OBVIOUS
  <2>1. DOMAIN s = 1..n /\ \A i \in 1..n : s[i] \in Objects
    OBVIOUS
  <2> HIDE DEF n
  <2> QED BY <2>1 DEF Lists, UrlBefore
<1>2. PICK t : Lists(UrlBefore, S, n, t)
  BY UrlsRank, ListExists
<1>3. t \in [1..n -> S]
  BY <1>2 DEF Lists
<1>4. \E s \in [1..n -> S] : Sorts(s)
  BY <1>1, <1>2, <1>3
<1>5. InUrlOrder(S) = CHOOSE s \in [1..n -> S] : Sorts(s)
  BY DEF InUrlOrder
<1> DEFINE s == InUrlOrder(S)
<1> HIDE DEF n, Sorts
<1>6. s \in [1..n -> S] /\ Sorts(s)
  BY <1>4, <1>5
<1>7. Lists(UrlBefore, S, n, s)
  BY <1>1, <1>6
<1> HIDE DEF s
<1>8. s \in Seq(S) /\ Len(s) = n /\ \A x \in S : \E i \in 1..Len(s) : s[i] = x
  <2>1. Lists(UrlBefore, S, Cardinality(S), s) /\ \A x \in S : <<x, x>> \notin UrlBefore
    BY <1>7, UrlsRank DEF n
  <2> QED BY <2>1, ListIsAll DEF n
<1>9. s \in Seq(Objects)
  BY <1>8
<1>10. \A i, j \in 1..Len(s) : i < j => UrlOrder(s[i].url, s[j].url)
  BY <1>7, <1>8 DEF Lists, UrlBefore
<1> QED BY <1>8, <1>9, <1>10 DEF InOrder, s, n

(* A group of files has one that represents it. *)
LEMMA RepresentativeIs ==
  ASSUME NEW files, InOrder(files), files # <<>>
  PROVE  Representative(files) \in Objects
<1> DEFINE n == Len(files)
           D == 1..n
           R == {p \in D \X D : \/ files[p[1]].size > files[p[2]].size
                                \/ /\ files[p[1]].size = files[p[2]].size
                                   /\ UrlOrder(files[p[1]].url, files[p[2]].url)}
<1>1. /\ files \in Seq(Objects) /\ n \in Nat /\ n # 0 /\ DOMAIN files = D
      /\ \A i \in D : files[i] \in Objects /\ files[i].size \in Nat
  <2>1. files \in Seq(Objects)
    BY DEF InOrder
  <2>2. n \in Nat /\ n # 0
    BY <2>1, EmptySeq
  <2>3. \A i \in D : files[i] \in Objects
    BY <2>1
  <2> QED BY <2>1, <2>2, <2>3, InputsAssumption
<1>2. \A i, j \in D : i = j \/ UrlOrder(files[i].url, files[j].url)
                            \/ UrlOrder(files[j].url, files[i].url)
  <2>1. \A i, j \in D : i < j => UrlOrder(files[i].url, files[j].url)
    BY DEF InOrder
  <2> QED BY <1>1, <2>1
<1>3. IsFiniteSet(D) /\ D # {}
  <2>1. 1 \in D
    BY <1>1
  <2>2. IsFiniteSet(D)
    BY <1>1, FS_Interval
  <2> QED BY <2>1, <2>2
<1> HIDE DEF n, D
<1>4. \A i, j \in D : <<i, j>> \in R <=>
        \/ files[i].size > files[j].size
        \/ files[i].size = files[j].size /\ UrlOrder(files[i].url, files[j].url)
  OBVIOUS
<1> HIDE DEF R
<1>5. Ranks(R, D)
  <2>1. ASSUME NEW i \in D, NEW j \in D PROVE i = j \/ <<i, j>> \in R \/ <<j, i>> \in R
    <3>1. files[i].size \in Nat /\ files[j].size \in Nat
      BY <1>1
    <3>2. i = j \/ UrlOrder(files[i].url, files[j].url) \/ UrlOrder(files[j].url, files[i].url)
      BY <1>2
    <3> QED BY <1>4, <3>1, <3>2
  <2>2. ASSUME NEW i \in D, NEW j \in D, NEW k \in D, <<i, j>> \in R, <<j, k>> \in R
        PROVE  <<i, k>> \in R
    <3>1. files[i].size \in Nat /\ files[j].size \in Nat /\ files[k].size \in Nat
      BY <1>1
    <3>2. UrlOrder(files[i].url, files[j].url) /\ UrlOrder(files[j].url, files[k].url)
            => UrlOrder(files[i].url, files[k].url)
      BY <1>1, InputsAssumption
    <3> QED BY <1>4, <2>2, <3>1, <3>2
  <2> QED BY <2>1, <2>2 DEF Ranks
<1>6. PICK i \in D : \A j \in D \ {i} : <<i, j>> \in R
  BY <1>3, <1>5, FirstOf
<1>7. Represents(files, i)
  BY <1>1, <1>4, <1>6 DEF Represents
<1>8. \E k \in DOMAIN files : Represents(files, k)
  BY <1>1, <1>7
<1>9. (CHOOSE k \in DOMAIN files : Represents(files, k)) \in D
  BY <1>1, <1>8
<1> QED BY <1>1, <1>9 DEF Representative

-----------------------------------------------------------------------------
(* The invariant of the inputs *)

ViewsInv == DOMAIN views = Stores /\ \A r \in Stores : views[r] \in {None, r}

ContentsInv ==
  /\ DOMAIN contents = Objects /\ (\A o \in Objects : IsContents(contents[o]))
  /\ rewrites \in Nat

OperandsInv == IsList(operands) /\ \A r \in Range(operands) : IsOperand(r)

(* A group of files, which come before those that were found but not yet
   identified. *)
AheadOf(files, rest) ==
  \A i \in 1..Len(files), j \in 1..Len(rest) : UrlOrder(files[i].url, rest[j].url)
IsGroup(g, rest) ==
  /\ g = [format |-> g.format, variant |-> g.variant, files |-> g.files]
  /\ InOrder(g.files) /\ g.files # <<>> /\ AheadOf(g.files, rest)
GroupsInv ==
  /\ InOrder(found) /\ IsList(groups)
  /\ \A g \in Range(groups) : IsGroup(g, found)

(* What was read of a file holds of it, while nothing is replaced. *)
ReadIs(b, i) ==
  /\ b.status[i] # "unread" => b.order[i] = contents[b.files[i]].ordering
  /\ b.status[i] = "done" => SchemasMatch(b.schema, contents[b.files[i]].schema)
InView(files) == \A i \in 1..Len(files) : files[i].store = files[1].store /\ Reachable(files[i])
IsBuilding(b) ==
  /\ b = [format |-> b.format, variant |-> b.variant, files |-> b.files,
          schema |-> b.schema, order |-> b.order, status |-> b.status]
  /\ InOrder(b.files) /\ b.files # <<>> /\ InView(b.files)
  /\ DOMAIN b.status = 1..Len(b.files) /\ DOMAIN b.order = 1..Len(b.files)
  /\ rewrites = 0 => /\ \E o \in Objects : b.schema = contents[o].schema
                     /\ \A i \in 1..Len(b.files) : ReadIs(b, i)
BuildingInv == building # NoGroup => IsBuilding(building)

(* The results of the files that are done, each once. *)
FinishedInv ==
  /\ IsList(finished)
  /\ building # NoGroup =>
       /\ \A k \in 1..Len(finished) :
            \E i \in 1..Len(building.files) :
               finished[k] = <<i, building.order[i]>> /\ building.status[i] = "done"
       /\ \A j, k \in 1..Len(finished) : finished[j][1] = finished[k][1] => j = k

(* What a provider of files promises. *)
Promised(p, o) ==
  /\ Reachable(o)
  /\ rewrites = 0 => /\ IsPrefix(p.ordering, contents[o].ordering)
                     /\ p.format \in CheckedFormats =>
                          p.schema.nodes = contents[o].schema.nodes
IsProvider(p) ==
  p.kind = "File" =>
    /\ InOrder(p.files) /\ p.files # <<>>
    /\ \A i \in 1..Len(p.files) : p.files[i].store = p.files[1].store /\ Promised(p, p.files[i])
ProvidersInv == IsList(providers) /\ \A p \in Range(providers) : IsProvider(p)

InputsInv ==
  /\ ViewsInv /\ ContentsInv /\ OperandsInv /\ GroupsInv
  /\ BuildingInv /\ FinishedInv /\ ProvidersInv

-----------------------------------------------------------------------------
(* Lists *)

(* The empty list. *)
LEMMA ListOfNothing == IsList(<<>>) /\ Range(<<>>) = {}
<1>1. DOMAIN <<>> = {} /\ <<>> \in Seq({})
  OBVIOUS
<1> QED BY <1>1 DEF IsList, Range

(* A list with another element. *)
LEMMA ListAppend ==
  ASSUME NEW s, IsList(s), NEW x
  PROVE  IsList(Append(s, x)) /\ Range(Append(s, x)) = Range(s) \cup {x}
<1> DEFINE t == Append(s, x)
           S == Range(s) \cup {x}
<1>1. s \in Seq(S) /\ x \in S
  BY DEF IsList
<1>2. t \in Seq(S) /\ Len(t) = Len(s) + 1 /\ t[Len(s) + 1] = x /\ Len(s) \in Nat
      /\ \A i \in 1..Len(s) : t[i] = s[i]
  BY <1>1
<1>3. DOMAIN t = 1..(Len(s) + 1) /\ DOMAIN s = 1..Len(s)
  BY <1>1, <1>2
<1> HIDE DEF t
<1>4. Range(t) = S
  <2>1. ASSUME NEW y \in Range(t) PROVE y \in S
    BY <1>2, <1>3 DEF Range
  <2>2. ASSUME NEW y \in Range(s) PROVE y \in Range(t)
    BY <1>2, <1>3 DEF Range
  <2>3. x \in Range(t)
    <3>1. Len(s) + 1 \in DOMAIN t
      BY <1>2, <1>3
    <3> QED BY <1>2, <3>1 DEF Range
  <2> QED BY <2>1, <2>2, <2>3
<1> QED BY <1>2, <1>4 DEF IsList, t

(* A sequence is one of its own elements. *)
LEMMA RangeIsList ==
  ASSUME NEW D, NEW t \in Seq(D)
  PROVE  t \in Seq(Range(t))
<1>1. Len(t) \in Nat /\ DOMAIN t = 1..Len(t)
  OBVIOUS
<1>2. \A i \in 1..Len(t) : t[i] \in Range(t)
  BY <1>1 DEF Range
<1> QED BY <1>1, <1>2

(* A list without its head. *)
LEMMA ListTail ==
  ASSUME NEW s, IsList(s), s # <<>>
  PROVE  /\ IsList(Tail(s)) /\ Range(Tail(s)) \subseteq Range(s) /\ Head(s) \in Range(s)
         /\ Head(s) = s[1]
<1>1. s \in Seq(Range(s))
  BY DEF IsList
<1>2. /\ Head(s) \in Range(s) /\ Tail(s) \in Seq(Range(s)) /\ Len(Tail(s)) = Len(s) - 1
      /\ Head(s) = s[1]
  BY <1>1, HeadTailProperties
<1>3. Range(Tail(s)) \subseteq Range(s)
  <2>1. DOMAIN Tail(s) = 1..Len(Tail(s))
    BY <1>2
  <2> QED BY <1>2, <2>1 DEF Range
<1>4. Tail(s) \in Seq(Range(Tail(s)))
  <2> DEFINE t == Tail(s)
  <2>1. t \in Seq(Range(s))
    BY <1>2
  <2> HIDE DEF t
  <2>2. t \in Seq(Range(t))
    BY <2>1, RangeIsList
  <2> QED BY <2>2 DEF t
<1> QED BY <1>2, <1>3, <1>4 DEF IsList

(* Two lists, one after the other. *)
LEMMA ListConcat ==
  ASSUME NEW s, IsList(s), NEW t, IsList(t)
  PROVE  IsList(s \o t) /\ Range(s \o t) = Range(s) \cup Range(t)
<1> DEFINE S == Range(s) \cup Range(t)
           u == s \o t
<1>1. s \in Seq(S) /\ t \in Seq(S) /\ Len(s) \in Nat /\ Len(t) \in Nat
      /\ DOMAIN s = 1..Len(s) /\ DOMAIN t = 1..Len(t)
  BY DEF IsList
<1>2. u \in Seq(S) /\ Len(u) = Len(s) + Len(t)
      /\ \A i \in 1..(Len(s) + Len(t)) : u[i] = IF i <= Len(s) THEN s[i] ELSE t[i - Len(s)]
  BY <1>1, ConcatProperties
<1>3. DOMAIN u = 1..(Len(s) + Len(t))
  BY <1>2
<1> HIDE DEF u
<1>4. Range(u) = S
  <2>1. ASSUME NEW y \in Range(u) PROVE y \in S
    BY <1>2, <1>3 DEF Range
  <2>2. ASSUME NEW y \in Range(s) PROVE y \in Range(u)
    <3>1. PICK i \in 1..Len(s) : s[i] = y
      BY <1>1 DEF Range
    <3>2. i \in DOMAIN u /\ u[i] = y
      BY <1>1, <1>2, <1>3, <3>1
    <3> QED BY <3>2 DEF Range
  <2>3. ASSUME NEW y \in Range(t) PROVE y \in Range(u)
    <3>1. PICK i \in 1..Len(t) : t[i] = y
      BY <1>1 DEF Range
    <3> DEFINE k == Len(s) + i
    <3>2. k \in 1..(Len(s) + Len(t)) /\ ~(k <= Len(s)) /\ k - Len(s) = i
      BY <1>1
    <3> HIDE DEF k
    <3>3. k \in DOMAIN u /\ u[k] = y
      BY <1>2, <1>3, <3>1, <3>2
    <3> QED BY <3>3 DEF Range
  <2> QED BY <2>1, <2>2, <2>3
<1> QED BY <1>2, <1>4 DEF IsList, u

(* What one more object does to the groups: it makes one, or joins one. *)
NewGroup(d, o) == [format |-> d.format, variant |-> d.answer, files |-> <<o>>]
Longer1(g, o) == [format |-> g.format, variant |-> g.variant, files |-> Append(g.files, o)]

(* An object starts a new group or joins one of its kind. *)
LEMMA JoinedIs ==
  ASSUME NEW G, NEW d, NEW o,
         \A i \in DOMAIN G : G[i] = [format |-> G[i].format, variant |-> G[i].variant,
                                    files |-> G[i].files]
  PROVE  \/ Joined(G, d, o) = Append(G, NewGroup(d, o))
         \/ \E i \in DOMAIN G : /\ SameKind(G[i], d, o)
                                /\ Joined(G, d, o) = [G EXCEPT ![i] = Longer1(G[i], o)]
<1> DEFINE same == {i \in DOMAIN G : SameKind(G[i], d, o)}
<1>1. CASE same = {}
  BY <1>1 DEF Joined, NewGroup
<1>2. CASE same # {}
  <2> DEFINE i == CHOOSE i \in same : TRUE
  <2>1. i \in same
    BY <1>2
  <2>2. Joined(G, d, o) = [G EXCEPT ![i].files = Append(@, o)]
    BY <1>2 DEF Joined
  <2> HIDE DEF i
  <2>3. i \in DOMAIN G /\ SameKind(G[i], d, o)
    BY <2>1
  <2>4. [G[i] EXCEPT !.files = Append(@, o)] = Longer1(G[i], o)
    <3> DEFINE g == G[i]
               f == g.format
               v == g.variant
               fs == g.files
    <3>1. g = [format |-> f, variant |-> v, files |-> fs]
      BY <2>3
    <3> HIDE DEF f, v, fs, g
    <3>2. [g EXCEPT !.files = Append(fs, o)] = [format |-> f, variant |-> v, files |-> Append(fs, o)]
      BY <3>1
    <3> QED BY <3>2 DEF Longer1, f, v, fs, g
  <2>5. [G EXCEPT ![i].files = Append(@, o)] = [G EXCEPT ![i] = Longer1(G[i], o)]
    BY <2>3, <2>4
  <2> QED BY <2>2, <2>3, <2>5
<1> QED BY <1>1, <1>2

(* A list in which one element is replaced. *)
LEMMA ListExcept ==
  ASSUME NEW s, IsList(s), NEW i \in DOMAIN s, NEW x
  PROVE  /\ IsList([s EXCEPT ![i] = x])
         /\ Range([s EXCEPT ![i] = x]) \subseteq Range(s) \cup {x}
<1> DEFINE t == [s EXCEPT ![i] = x]
           S == Range(s) \cup {x}
<1>1. s \in Seq(S) /\ x \in S /\ i \in 1..Len(s)
  BY DEF IsList
<1>2. t \in Seq(S)
  BY <1>1, ExceptSeq
<1> HIDE DEF t
<1>3. t \in Seq(Range(t)) /\ DOMAIN t = 1..Len(t) /\ \A j \in 1..Len(t) : t[j] \in S
  BY <1>2, RangeIsList
<1>4. Range(t) \subseteq S
  BY <1>3 DEF Range
<1> QED BY <1>3, <1>4 DEF IsList, t

(* The same nodes. *)
LEMMA SameNodes ==
  ASSUME NEW c, IsContents(c), NEW d, IsContents(d), SchemasMatch(c.schema, d.schema)
  PROVE  c.schema.nodes = d.schema.nodes
<1> DEFINE s == c.schema.nodes
           t == d.schema.nodes
<1>1. /\ s \in Seq(Range(s)) /\ t \in Seq(Range(t))
      /\ \A x \in Range(s) : x = [name |-> x.name, type |-> x.type, nullable |-> x.nullable]
      /\ \A x \in Range(t) : x = [name |-> x.name, type |-> x.type, nullable |-> x.nullable]
  BY DEF IsContents, IsList
<1>2. /\ Len(s) = Len(t)
      /\ \A i \in DOMAIN s : /\ s[i].name = t[i].name /\ s[i].type = t[i].type
                             /\ s[i].nullable = t[i].nullable
  <2>1. /\ Len(s) = Len(t)
        /\ \A i \in DOMAIN s : /\ s[i].name = t[i].name /\ s[i].type = t[i].type
                               /\ <<s[i].nullable, t[i].nullable>> \in SameNulls
    BY DEF SchemasMatch, Compatible
  <2>2. \A x, y : <<x, y>> \in SameNulls => x = y
    BY DEF SameNulls
  <2> QED BY <2>1, <2>2
<1> HIDE DEF s, t
<1>3. DOMAIN s = 1..Len(s) /\ DOMAIN t = 1..Len(t)
  BY <1>1
<1>4. ASSUME NEW i \in 1..Len(s) PROVE s[i] = t[i]
  <2>1. s[i] \in Range(s) /\ t[i] \in Range(t)
    BY <1>2, <1>3 DEF Range
  <2>2. /\ s[i].name = t[i].name /\ s[i].type = t[i].type
        /\ s[i].nullable = t[i].nullable
    BY <1>2, <1>3
  <2> DEFINE x == s[i]
             y == t[i]
  <2>3. /\ x = [name |-> x.name, type |-> x.type, nullable |-> x.nullable]
        /\ y = [name |-> y.name, type |-> y.type, nullable |-> y.nullable]
    BY <1>1, <2>1
  <2>4. x.name = y.name /\ x.type = y.type /\ x.nullable = y.nullable
    BY <2>2
  <2> HIDE DEF x, y
  <2>5. [name |-> x.name, type |-> x.type, nullable |-> x.nullable]
          = [name |-> y.name, type |-> y.type, nullable |-> y.nullable]
    BY <2>4
  <2>6. x = y
    BY <2>3, <2>5
  <2> QED BY <2>6 DEF x, y
<1> DEFINE S == Range(s) \cup Range(t)
<1>5. s \in Seq(S) /\ t \in Seq(S)
  BY <1>1
<1>6. s = t
  BY <1>2, <1>4, <1>5, SeqEqual
<1> QED BY <1>6 DEF s, t

-----------------------------------------------------------------------------
(* Providers *)

(* The ordering that all files share is a prefix of the ordering of each. *)
LEMMA CommonOrderingIs ==
  ASSUME NEW n \in Nat, NEW orders, DOMAIN orders = 1..n, NEW i \in 1..n,
         \A j \in 1..n : IsList(orders[j])
  PROVE  IsPrefix(CommonOrdering(orders), orders[i])
<1>0. orders[i] \in Range(orders)
  BY DEF Range
<1>1. CASE <<>> \in Range(orders)
  <2> DEFINE t == orders[i]
  <2>1. t \in Seq(Range(t))
    BY DEF IsList
  <2> HIDE DEF t
  <2>2. Len(t) \in Nat /\ SubSeq(t, 1, 0) = <<>> /\ Len(<<>>) = 0 /\ SubSeq(<<>>, 1, 0) = <<>>
    BY <2>1
  <2>3. IsPrefix(<<>>, t)
    BY <2>2 DEF IsPrefix
  <2> QED BY <1>1, <2>3 DEF CommonOrdering, t
<1>2. CASE <<>> \notin Range(orders)
  <2> DEFINE D == UNION {Range(orders[j]) : j \in 1..n}
  <2>1. ASSUME NEW j \in 1..n PROVE orders[j] \in Seq(D)
    <3>1. Range(orders[j]) \subseteq D
      OBVIOUS
    <3>2. orders[j] \in Seq(Range(orders[j]))
      BY DEF IsList
    <3> HIDE DEF D
    <3> QED BY <3>1, <3>2, SeqMonotonic
  <2> HIDE DEF D
  <2>2. Range(orders) \subseteq Seq(D)
    BY <2>1 DEF Range
  <2>3. IsPrefix(LongestCommonPrefix(Range(orders)), orders[i])
    BY <1>0, <2>2, PrefixOfEach
  <2> QED BY <1>2, <2>3 DEF CommonOrdering
<1> QED BY <1>1, <1>2

(* The provider of a group, when each file has its result. *)
LEMMA ProviderIs ==
  ASSUME NEW b, InOrder(b.files), NEW meta, NEW orders, DOMAIN orders = 1..Len(b.files),
         meta = [i \in 1..Len(b.files) |-> <<i, orders[i]>>]
  PROVE  /\ FileProvider(b, meta).kind = "File"
         /\ FileProvider(b, meta).files = b.files
         /\ FileProvider(b, meta).schema = b.schema
         /\ FileProvider(b, meta).format = b.format
         /\ FileProvider(b, meta).variant = b.variant
         /\ FileProvider(b, meta).ordering
              = CommonOrdering([i \in 1..Len(b.files) |-> orders[i]])
<1> DEFINE n == Len(b.files)
<1>1. DOMAIN meta = 1..n /\ \A i \in 1..n : meta[i][1] = i /\ meta[i][2] = orders[i]
  OBVIOUS
<1>2. [i \in DOMAIN meta |-> b.files[meta[i][1]]] = [i \in 1..n |-> b.files[i]]
  BY <1>1
<1>3. [i \in DOMAIN meta |-> meta[i][2]] = [i \in 1..n |-> orders[i]]
  BY <1>1
<1>4. b.files = [i \in 1..n |-> b.files[i]]
  <2> DEFINE fs == b.files
  <2>1. fs \in Seq(Objects)
    BY DEF InOrder
  <2> HIDE DEF fs
  <2>2. fs = [i \in 1..Len(fs) |-> fs[i]]
    BY <2>1
  <2> QED BY <2>2 DEF fs
<1> HIDE DEF n
<1> QED BY <1>2, <1>3, <1>4 DEF FileProvider, n

(* What the provider of a group promises, when all its files are done. *)
LEMMA ProviderKeeps ==
  ASSUME ContentsInv, NEW b, IsBuilding(b), NEW p,
         p.files = b.files, p.schema = b.schema, p.format = b.format,
         NEW orders, DOMAIN orders = 1..Len(b.files), p.ordering = CommonOrdering(orders),
         \/ p.format \notin CheckedFormats /\ \A i \in 1..Len(b.files) : orders[i] = <<>>
         \/ \A i \in 1..Len(b.files) : b.status[i] = "done" /\ orders[i] = b.order[i]
  PROVE  IsProvider(p)
<1> DEFINE n == Len(b.files)
<1>1. InOrder(b.files) /\ b.files # <<>> /\ n \in Nat /\ n # 0
      /\ \A i \in 1..n : b.files[i] \in Objects
  <2> DEFINE fs == b.files
  <2>1. InOrder(fs) /\ fs # <<>>
    BY DEF IsBuilding
  <2>2. fs \in Seq(Objects)
    BY <2>1 DEF InOrder
  <2> HIDE DEF fs
  <2>3. Len(fs) \in Nat /\ Len(fs) # 0 /\ \A i \in 1..Len(fs) : fs[i] \in Objects
    BY <2>1, <2>2, EmptySeq
  <2> QED BY <2>1, <2>3 DEF fs
<1>2. \A i \in 1..n : b.files[i].store = b.files[1].store /\ Reachable(b.files[i])
  BY DEF IsBuilding, InView
<1> HIDE DEF n
<1>3. ASSUME NEW i \in 1..n, rewrites = 0
      PROVE  /\ IsPrefix(p.ordering, contents[b.files[i]].ordering)
             /\ p.format \in CheckedFormats => p.schema.nodes = contents[b.files[i]].schema.nodes
  <2>1. CASE p.format \notin CheckedFormats /\ \A j \in 1..n : orders[j] = <<>>
    <3>1. p.ordering = <<>>
      <4>1. 1 \in 1..n
        BY <1>1
      <4>2. <<>> \in Range(orders)
        BY <2>1, <4>1 DEF Range, n
      <4> QED BY <4>2 DEF CommonOrdering
    <3> DEFINE t == contents[b.files[i]].ordering
    <3>2. t \in Seq(Range(t))
      BY <1>1 DEF ContentsInv, IsContents, IsList
    <3> HIDE DEF t
    <3>3. Len(t) \in Nat /\ SubSeq(t, 1, 0) = <<>> /\ Len(<<>>) = 0 /\ SubSeq(<<>>, 1, 0) = <<>>
      BY <3>2
    <3>4. IsPrefix(<<>>, t)
      BY <3>3 DEF IsPrefix
    <3> QED BY <2>1, <3>1, <3>4 DEF t
  <2>2. CASE \A j \in 1..n : b.status[j] = "done" /\ orders[j] = b.order[j]
    <3>1. PICK o \in Objects : b.schema = contents[o].schema
      BY <1>3 DEF IsBuilding
    <3>2. \A j \in 1..n : ReadIs(b, j)
      BY <1>3 DEF IsBuilding, n
    <3>3. \A j \in 1..n : /\ orders[j] = contents[b.files[j]].ordering
                          /\ SchemasMatch(b.schema, contents[b.files[j]].schema)
      BY <2>2, <3>2 DEF ReadIs
    <3>4. \A j \in 1..n : IsList(orders[j])
      BY <1>1, <3>3 DEF ContentsInv, IsContents
    <3>5. IsPrefix(CommonOrdering(orders), orders[i])
      BY <1>1, <3>4, CommonOrderingIs DEF n
    <3>6. IsContents(contents[o]) /\ IsContents(contents[b.files[i]])
      BY <1>1, <3>1 DEF ContentsInv
    <3>7. contents[o].schema.nodes = contents[b.files[i]].schema.nodes
      <4>1. SchemasMatch(contents[o].schema, contents[b.files[i]].schema)
        BY <3>1, <3>3
      <4> QED BY <3>6, <4>1, SameNodes
    <3> QED BY <3>1, <3>3, <3>5, <3>7
  <2> QED BY <2>1, <2>2 DEF n
<1>4. \A i \in 1..n : Promised(p, b.files[i])
  BY <1>2, <1>3 DEF Promised
<1> QED BY <1>1, <1>2, <1>4 DEF IsProvider, n

-----------------------------------------------------------------------------
(* What does not change *)

(* A file that can be read is in its store's view. *)
LEMMA ReachableStays ==
  ASSUME ViewsInv, NEW o \in Objects, Reachable(o), NEW r,
         views' \in {views, [views EXCEPT ![r] = r]}
  PROVE  Reachable(o)'
<1>1. o.store \in DOMAIN views /\ views[o.store] = o.store
  BY DEF ViewsInv, Stores, Reachable, Namespace
<1> QED BY <1>1 DEF Reachable, Namespace

(* A promise is kept while nothing is replaced and the store is known. *)
LEMMA PromisedStays ==
  ASSUME NEW p, NEW o, Promised(p, o), Reachable(o)',
         rewrites' # 0 \/ (rewrites' = rewrites /\ contents' = contents)
  PROVE  Promised(p, o)'
BY DEF Promised

(* Providers that were made keep their promises. *)
LEMMA ProvidersStay ==
  ASSUME ViewsInv, NEW p, IsProvider(p), NEW r,
         views' \in {views, [views EXCEPT ![r] = r]},
         rewrites' # 0 \/ (rewrites' = rewrites /\ contents' = contents)
  PROVE  IsProvider(p)'
<1> SUFFICES ASSUME p.kind = "File" PROVE IsProvider(p)'
  BY DEF IsProvider
<1>1. InOrder(p.files) /\ p.files # <<>>
      /\ \A i \in 1..Len(p.files) : p.files[i].store = p.files[1].store /\ Promised(p, p.files[i])
  BY DEF IsProvider
<1>2. ASSUME NEW i \in 1..Len(p.files) PROVE Promised(p, p.files[i])'
  <2>1. p.files[i] \in Objects
    BY <1>1 DEF InOrder
  <2>2. Promised(p, p.files[i]) /\ Reachable(p.files[i])
    BY <1>1 DEF Promised
  <2>3. Reachable(p.files[i])'
    BY <2>1, <2>2, ReachableStays
  <2> QED BY <2>2, <2>3, PromisedStays
<1> QED BY <1>1, <1>2 DEF IsProvider, InOrder

(* The same for all providers. *)
LEMMA ProvidersInvStays ==
  ASSUME ViewsInv, ProvidersInv, providers' = providers, NEW r,
         views' \in {views, [views EXCEPT ![r] = r]},
         rewrites' # 0 \/ (rewrites' = rewrites /\ contents' = contents)
  PROVE  ProvidersInv'
<1>1. \A p \in Range(providers) : IsProvider(p)'
  BY ProvidersStay DEF ProvidersInv
<1> QED BY <1>1 DEF ProvidersInv

(* Steps that leave what objects hold. *)
LEMMA ContentsStay ==
  ASSUME ContentsInv, contents' = contents, rewrites' = rewrites
  PROVE  ContentsInv'
BY DEF ContentsInv

(* Steps that leave the operands, or take the first. *)
LEMMA OperandsStay ==
  ASSUME OperandsInv, operands' = operands \/ (operands # <<>> /\ operands' = Tail(operands))
  PROVE  OperandsInv'
<1>1. CASE operands' = operands
  BY <1>1 DEF OperandsInv
<1>2. CASE operands # <<>> /\ operands' = Tail(operands)
  BY <1>2, ListTail DEF OperandsInv
<1> QED BY <1>1, <1>2

(* Steps that leave the groups, or take the first. *)
LEMMA GroupsStay ==
  ASSUME GroupsInv, found' = found, groups' = groups \/ (groups # <<>> /\ groups' = Tail(groups))
  PROVE  GroupsInv'
<1>1. IsList(groups') /\ \A g \in Range(groups') : IsGroup(g, found)
  <2>1. CASE groups' = groups
    BY <2>1 DEF GroupsInv
  <2>2. CASE groups # <<>> /\ groups' = Tail(groups)
    BY <2>2, ListTail DEF GroupsInv
  <2> QED BY <2>1, <2>2
<1> QED BY <1>1 DEF GroupsInv

(* Steps that leave what is being built. *)
LEMMA BuildingStays ==
  ASSUME BuildingInv, building' = building, UNCHANGED <<views, contents, rewrites>>
  PROVE  BuildingInv'
<1>1. \A i \in 1..Len(building.files) : ReadIs(building, i) => ReadIs(building, i)'
  BY DEF ReadIs
<1>2. InView(building.files) => InView(building.files)'
  BY DEF InView, Reachable
<1> QED BY <1>1, <1>2 DEF BuildingInv, IsBuilding

(* Steps that leave what was read. *)
LEMMA FinishedStays ==
  ASSUME FinishedInv, finished' = finished, building' = building
  PROVE  FinishedInv'
BY DEF FinishedInv

(* Where nothing was read. *)
LEMMA NothingFinished ==
  ASSUME finished' = <<>>
  PROVE  FinishedInv'
<1>1. Len(<<>>) = 0
  OBVIOUS
<1> QED BY <1>1, ListOfNothing DEF FinishedInv

(* Steps that leave the inputs alone. *)
LEMMA InputsSame ==
  ASSUME InputsInv, UNCHANGED <<operands, groupVars, providers, views, contents, rewrites>>
  PROVE  InputsInv'
<1>1. ViewsInv'
  BY DEF InputsInv, ViewsInv
<1> QED BY <1>1, ContentsStay, OperandsStay, GroupsStay, BuildingStays, FinishedStays,
           ProvidersInvStays DEF InputsInv, groupVars

(* Where nothing is being built. *)
LEMMA NotBuilding ==
  ASSUME building' = NoGroup
  PROVE  BuildingInv'
BY DEF BuildingInv

-----------------------------------------------------------------------------
(* The operands *)

(* There are no inputs at the start. *)
LEMMA InputsInvInit == CommandInit => InputsInv
<1> SUFFICES ASSUME CommandInit PROVE InputsInv
  OBVIOUS
<1>1. InputsInit
  BY DEF CommandInit
<1>2. ViewsInv
  BY <1>1 DEF InputsInit, ViewsInv
<1>3. ContentsInv
  BY <1>1, InputsAssumption DEF InputsInit, ContentsInv
<1>4. operands = <<>> /\ found = <<>> /\ groups = <<>> /\ building = NoGroup /\ finished = <<>>
      /\ providers = <<>>
  BY <1>1 DEF InputsInit
<1>5. InOrder(<<>>) /\ Len(<<>>) = 0
  BY DEF InOrder
<1>6. OperandsInv /\ GroupsInv /\ ProvidersInv
  BY <1>4, <1>5, ListOfNothing DEF OperandsInv, GroupsInv, ProvidersInv
<1>7. BuildingInv /\ FinishedInv
  BY <1>4, <1>5, ListOfNothing DEF BuildingInv, FinishedInv
<1> QED BY <1>2, <1>3, <1>6, <1>7 DEF InputsInv

(* The operands of the command line. *)
LEMMA CommandOperands ==
  ASSUME CatalogInv, ArgsKnown
  PROVE  /\ IsList(Args.references) /\ IsList(Args.patterns)
         /\ \A r \in Range(Args.references) \cup Range(Args.patterns) : IsOperand(r)
BY CommandAssumption DEF CatalogInv, ArgsKnown, Args, IsArguments

(* The operands of a command line name objects. *)
LEMMA PatternsChecked ==
  ASSUME CatalogInv, ChosenInv, InputsInv, CheckPatterns
  PROVE  InputsInv'
<1>1. ArgsKnown
  BY DEF ChosenInv, CheckPatterns, Running
<1>2. operands' = Args.references \o Args.patterns
      /\ UNCHANGED <<groupVars, providers, views, contents, rewrites>>
  BY DEF CheckPatterns
<1> DEFINE s == Args.references
           t == Args.patterns
<1>3. IsList(s) /\ IsList(t) /\ \A r \in Range(s) \cup Range(t) : IsOperand(r)
  BY <1>1, CommandOperands
<1> HIDE DEF s, t
<1>4. IsList(s \o t) /\ Range(s \o t) = Range(s) \cup Range(t)
  BY <1>3, ListConcat
<1>5. OperandsInv'
  <2>1. operands' = s \o t
    BY <1>2 DEF s, t
  <2> QED BY <1>3, <1>4, <2>1 DEF OperandsInv
<1>6. ViewsInv'
  BY <1>2 DEF InputsInv, ViewsInv
<1> QED BY <1>2, <1>5, <1>6, ContentsStay, GroupsStay, BuildingStays, FinishedStays,
           ProvidersInvStays DEF InputsInv, groupVars

(* A service's provider promises nothing of files. *)
LEMMA ServiceMade ==
  ASSUME InputsInv, ServiceInput
  PROVE  InputsInv'
<1> DEFINE p == [kind |-> "Service", files |-> <<>>]
<1>1. /\ operands # <<>> /\ operands' = Tail(operands)
      /\ UNCHANGED <<groupVars, views, contents, rewrites>>
      /\ providers' \in {providers, Append(providers, p)}
  BY DEF ServiceInput, Quiet
<1>2. ViewsInv'
  BY <1>1 DEF InputsInv, ViewsInv
<1>3. ProvidersInv'
  <2>1. CASE providers' = providers
    BY <1>1, <2>1, ProvidersInvStays DEF InputsInv
  <2>2. CASE providers' = Append(providers, p)
    <3>1. IsProvider(p)'
      BY DEF IsProvider
    <3>2. \A q \in Range(providers) : IsProvider(q)'
      BY <1>1, ProvidersStay DEF InputsInv, ProvidersInv
    <3> HIDE DEF p
    <3>3. IsList(providers') /\ Range(providers') = Range(providers) \cup {p}
      BY <2>2, ListAppend DEF InputsInv, ProvidersInv
    <3> QED BY <3>1, <3>2, <3>3 DEF ProvidersInv
  <2> QED BY <1>1, <2>1, <2>2
<1> QED BY <1>1, <1>2, <1>3, ContentsStay, OperandsStay, GroupsStay, BuildingStays, FinishedStays
           DEF InputsInv, groupVars

(* The matches of an operand are in the order of their URLs. *)
LEMMA Expanded ==
  ASSUME InputsInv, FileOperand
  PROVE  InputsInv'
<1>1. /\ operands # <<>> /\ operands' = Tail(operands) /\ groups = <<>> /\ groups' = <<>>
      /\ found' = found \/ found' = InUrlOrder(Head(operands).objects)
      /\ UNCHANGED <<building, finished, providers, views, contents, rewrites>>
  BY DEF FileOperand, Quiet, Idle
<1>2. ViewsInv'
  BY <1>1 DEF InputsInv, ViewsInv
<1>3. InOrder(found')
  <2>1. IsOperand(Head(operands))
    BY <1>1, ListTail DEF InputsInv, OperandsInv
  <2>2. InOrder(InUrlOrder(Head(operands).objects))
    BY <2>1, UrlOrderIs DEF IsOperand
  <2> QED BY <1>1, <2>2 DEF InputsInv, GroupsInv
<1>4. GroupsInv'
  BY <1>1, <1>3, ListOfNothing DEF GroupsInv, InOrder
<1> QED BY <1>1, <1>2, <1>4, ContentsStay, OperandsStay, BuildingStays, FinishedStays,
           ProvidersInvStays DEF InputsInv

-----------------------------------------------------------------------------
(* Files and groups *)

(* A list of one file is in order. *)
LEMMA OneInOrder ==
  ASSUME NEW o \in Objects
  PROVE  InOrder(<<o>>) /\ <<o>> # <<>> /\ Len(<<o>>) = 1 /\ <<o>>[1] = o
BY DEF InOrder

(* One more file, which comes after the others. *)
LEMMA OneMoreInOrder ==
  ASSUME NEW files, InOrder(files), NEW o \in Objects,
         \A i \in 1..Len(files) : UrlOrder(files[i].url, o.url)
  PROVE  /\ InOrder(Append(files, o)) /\ Append(files, o) # <<>>
         /\ Len(Append(files, o)) = Len(files) + 1 /\ Append(files, o)[Len(files) + 1] = o
         /\ \A i \in 1..Len(files) : Append(files, o)[i] = files[i]
<1> DEFINE t == Append(files, o)
<1>1. files \in Seq(Objects) /\ Len(files) \in Nat
  BY DEF InOrder
<1>2. /\ t \in Seq(Objects) /\ t # <<>> /\ Len(t) = Len(files) + 1 /\ t[Len(files) + 1] = o
      /\ \A i \in 1..Len(files) : t[i] = files[i]
  BY <1>1
<1> HIDE DEF t
<1>3. ASSUME NEW i \in 1..Len(t), NEW j \in 1..Len(t), i < j PROVE UrlOrder(t[i].url, t[j].url)
  <2>1. i \in 1..Len(files) /\ t[i] = files[i]
    BY <1>1, <1>2, <1>3
  <2>2. CASE j \in 1..Len(files)
    BY <1>2, <1>3, <2>1, <2>2 DEF InOrder
  <2>3. CASE j = Len(files) + 1
    BY <1>2, <2>1, <2>3
  <2> QED BY <1>1, <1>2, <2>2, <2>3
<1>4. InOrder(t)
  BY <1>2, <1>3 DEF InOrder
<1> QED BY <1>2, <1>4 DEF t

(* The first of the files that were found comes before the rest. *)
LEMMA FirstFound ==
  ASSUME NEW rest, InOrder(rest), rest # <<>>
  PROVE  /\ Head(rest) \in Objects /\ InOrder(Tail(rest)) /\ Len(rest) = Len(Tail(rest)) + 1
         /\ \A j \in 1..Len(Tail(rest)) : /\ UrlOrder(Head(rest).url, Tail(rest)[j].url)
                                          /\ Tail(rest)[j] = rest[j + 1]
         /\ Head(rest) = rest[1] /\ Len(Tail(rest)) \in Nat
<1> DEFINE t == Tail(rest)
           n == Len(rest)
<1>1. rest \in Seq(Objects) /\ \A i, j \in 1..n : i < j => UrlOrder(rest[i].url, rest[j].url)
  BY DEF InOrder
<1>2. /\ Head(rest) \in Objects /\ Head(rest) = rest[1]
      /\ t \in Seq(Objects) /\ Len(t) = n - 1
      /\ \A j \in 1..(n - 1) : t[j] = rest[j + 1]
  BY <1>1, HeadTailProperties
<1>3. n \in Nat /\ n # 0
  BY <1>1, EmptySeq
<1> HIDE DEF t, n
<1>4. \A j \in 1..(n - 1) : UrlOrder(rest[1].url, t[j].url)
  <2> SUFFICES ASSUME NEW j \in 1..(n - 1) PROVE UrlOrder(rest[1].url, t[j].url)
    OBVIOUS
  <2>1. 1 \in 1..n /\ j + 1 \in 1..n /\ 1 < j + 1
    BY <1>3
  <2> QED BY <1>1, <1>2, <2>1
<1>5. ASSUME NEW i \in 1..(n - 1), NEW j \in 1..(n - 1), i < j
      PROVE UrlOrder(t[i].url, t[j].url)
  <2>1. i + 1 \in 1..n /\ j + 1 \in 1..n /\ i + 1 < j + 1
    BY <1>3, <1>5
  <2> QED BY <1>1, <1>2, <2>1
<1>6. InOrder(t)
  BY <1>2, <1>5 DEF InOrder
<1> QED BY <1>2, <1>3, <1>4, <1>6 DEF t, n

(* A group that comes before the files found comes before the rest of them. *)
LEMMA StillAGroup ==
  ASSUME NEW g, NEW rest, IsGroup(g, rest), InOrder(rest), rest # <<>>
  PROVE  IsGroup(g, Tail(rest))
<1> DEFINE t == Tail(rest)
<1>1. Len(rest) = Len(t) + 1 /\ Len(t) \in Nat /\ \A j \in 1..Len(t) : t[j] = rest[j + 1]
  BY FirstFound
<1> HIDE DEF t
<1>2. AheadOf(g.files, t)
  <2> SUFFICES ASSUME NEW i \in 1..Len(g.files), NEW j \in 1..Len(t)
               PROVE  UrlOrder(g.files[i].url, t[j].url)
    BY DEF AheadOf
  <2>1. j + 1 \in 1..Len(rest)
    BY <1>1
  <2> QED BY <1>1, <2>1 DEF IsGroup, AheadOf
<1> QED BY <1>2 DEF IsGroup, t

(* A file that was found makes a group, and keeps one. *)
LEMMA MakesAGroup ==
  ASSUME NEW rest, InOrder(rest), rest # <<>>, NEW d
  PROVE  IsGroup(NewGroup(d, Head(rest)), Tail(rest))
<1> DEFINE o == Head(rest)
           t == Tail(rest)
<1>1. o \in Objects /\ \A j \in 1..Len(t) : UrlOrder(o.url, t[j].url)
  BY FirstFound
<1> HIDE DEF o, t
<1>2. InOrder(<<o>>) /\ <<o>> # <<>> /\ AheadOf(<<o>>, t)
  BY <1>1, OneInOrder DEF AheadOf
<1> DEFINE g == NewGroup(d, o)
<1>3. g.files = <<o>> /\ g = [format |-> g.format, variant |-> g.variant, files |-> g.files]
  BY DEF NewGroup
<1> HIDE DEF g
<1>4. IsGroup(g, t)
  BY <1>2, <1>3 DEF IsGroup
<1> QED BY <1>4 DEF g, o, t

(* A group that the first file joins is still ahead of the rest. *)
LEMMA JoinsAGroup ==
  ASSUME NEW rest, InOrder(rest), rest # <<>>, NEW g, IsGroup(g, rest)
  PROVE  IsGroup(Longer1(g, Head(rest)), Tail(rest))
<1> DEFINE o == Head(rest)
           t == Tail(rest)
           fs == g.files
           us == Append(fs, o)
<1>1. /\ o \in Objects /\ \A j \in 1..Len(t) : UrlOrder(o.url, t[j].url)
      /\ Len(rest) = Len(t) + 1 /\ Len(t) \in Nat /\ o = rest[1]
  BY FirstFound
<1>2. InOrder(fs) /\ AheadOf(fs, rest) /\ AheadOf(fs, t)
  BY StillAGroup DEF IsGroup
<1> HIDE DEF o, t
<1>3. \A i \in 1..Len(fs) : UrlOrder(fs[i].url, o.url)
  <2>1. 1 \in 1..Len(rest)
    BY <1>1
  <2> QED BY <1>1, <1>2, <2>1 DEF AheadOf
<1> HIDE DEF fs
<1>4. /\ InOrder(us) /\ us # <<>> /\ Len(us) = Len(fs) + 1 /\ us[Len(fs) + 1] = o
      /\ \A i \in 1..Len(fs) : us[i] = fs[i]
  BY <1>1, <1>2, <1>3, OneMoreInOrder
<1>5. Len(fs) \in Nat
  BY <1>2 DEF InOrder
<1> HIDE DEF us
<1>6. AheadOf(us, t)
  <2> SUFFICES ASSUME NEW i \in 1..Len(us), NEW j \in 1..Len(t) PROVE UrlOrder(us[i].url, t[j].url)
    BY DEF AheadOf
  <2>1. CASE i \in 1..Len(fs)
    BY <1>2, <1>4, <2>1 DEF AheadOf
  <2>2. CASE i = Len(fs) + 1
    BY <1>1, <1>4, <2>2
  <2> QED BY <1>4, <1>5, <2>1, <2>2
<1> DEFINE h == Longer1(g, o)
<1>7. h.files = us /\ h = [format |-> h.format, variant |-> h.variant, files |-> h.files]
  BY DEF Longer1, us, fs
<1> HIDE DEF h
<1>8. IsGroup(h, t)
  BY <1>4, <1>6, <1>7 DEF IsGroup
<1> QED BY <1>8 DEF h, o, t

(* The groups after one more file was identified. *)
LEMMA GroupsJoined ==
  ASSUME GroupsInv, found # <<>>, NEW d
  PROVE  LET G == Joined(groups, d, Head(found))
         IN IsList(G) /\ \A g \in Range(G) : IsGroup(g, Tail(found))
<1> DEFINE o == Head(found)
           t == Tail(found)
           G == Joined(groups, d, o)
<1>1. IsList(groups) /\ InOrder(found) /\ \A g \in Range(groups) : IsGroup(g, found)
  BY DEF GroupsInv
<1>2. \A i \in DOMAIN groups : groups[i] \in Range(groups)
  BY DEF Range
<1>3. \A i \in DOMAIN groups : groups[i] = [format |-> groups[i].format,
         variant |-> groups[i].variant, files |-> groups[i].files]
  <2>1. \A g \in Range(groups) : g = [format |-> g.format, variant |-> g.variant, files |-> g.files]
    BY <1>1 DEF IsGroup
  <2> QED BY <1>2, <2>1
<1>4. \A g \in Range(groups) : IsGroup(g, t)
  BY <1>1, StillAGroup
<1> HIDE DEF o, t
<1>5. CASE G = Append(groups, NewGroup(d, o))
  <2>1. IsGroup(NewGroup(d, o), t)
    BY <1>1, MakesAGroup DEF o, t
  <2>2. IsList(G) /\ Range(G) = Range(groups) \cup {NewGroup(d, o)}
    BY <1>1, <1>5, ListAppend
  <2> HIDE DEF G
  <2> QED BY <1>4, <2>1, <2>2 DEF G, o, t
<1>6. CASE \E i \in DOMAIN groups : G = [groups EXCEPT ![i] = Longer1(groups[i], o)]
  <2>1. PICK i \in DOMAIN groups : G = [groups EXCEPT ![i] = Longer1(groups[i], o)]
    BY <1>6
  <2>2. IsGroup(groups[i], found)
    BY <1>1, <1>2
  <2>3. IsGroup(Longer1(groups[i], o), t)
    BY <1>1, <2>2, JoinsAGroup DEF o, t
  <2> DEFINE x == Longer1(groups[i], o)
  <2> HIDE DEF x, G
  <2>4. IsList([groups EXCEPT ![i] = x])
        /\ Range([groups EXCEPT ![i] = x]) \subseteq Range(groups) \cup {x}
    BY <1>1, ListExcept
  <2>5. IsList(G) /\ Range(G) \subseteq Range(groups) \cup {x}
    BY <2>1, <2>4 DEF x
  <2> QED BY <1>4, <2>3, <2>5 DEF x, G, o, t
<1> QED BY <1>3, <1>5, <1>6, JoinedIs

(* An object that is identified joins a group and leaves the groups in order. *)
LEMMA IdentifiedOne ==
  ASSUME InputsInv, Identify
  PROVE  InputsInv'
<1>1. /\ found # <<>> /\ UNCHANGED <<operands, building, finished, providers, views, contents, rewrites>>
      /\ \/ groups' = Joined(groups, Identified(Head(found)), Head(found)) /\ found' = Tail(found)
         \/ UNCHANGED <<groups, found>>
  BY DEF Identify, Quiet
<1>2. ViewsInv'
  BY <1>1 DEF InputsInv, ViewsInv
<1>3. GroupsInv'
  <2>1. CASE UNCHANGED <<groups, found>>
    BY <2>1, GroupsStay DEF InputsInv
  <2>2. CASE groups' = Joined(groups, Identified(Head(found)), Head(found)) /\ found' = Tail(found)
    <3>1. GroupsInv /\ InOrder(found)
      BY DEF InputsInv, GroupsInv
    <3>2. IsList(groups') /\ \A g \in Range(groups') : IsGroup(g, found')
      BY <1>1, <2>2, <3>1, GroupsJoined
    <3>3. InOrder(found')
      BY <1>1, <2>2, <3>1, FirstFound
    <3> QED BY <3>2, <3>3 DEF GroupsInv
  <2> QED BY <1>1, <2>1, <2>2
<1> QED BY <1>1, <1>2, <1>3, ContentsStay, OperandsStay, BuildingStays, FinishedStays,
           ProvidersInvStays DEF InputsInv

-----------------------------------------------------------------------------
(* The provider of a group *)

(* A list of files of one root that is in view. *)
LEMMA GroupStarted ==
  ASSUME InputsInv, StartGroup
  PROVE  InputsInv'
<1> DEFINE g == Head(groups)
           fs == g.files
           root == fs[1].store
           new == [format |-> g.format, variant |-> g.variant, files |-> fs,
                   schema |-> contents[Representative(fs)].schema,
                   order |-> [i \in DOMAIN fs |-> <<>>],
                   status |-> [i \in DOMAIN fs |-> "unread"]]
<1>1. /\ groups # <<>> /\ groups' = Tail(groups) /\ finished' = <<>>
      /\ building = NoGroup
      /\ UNCHANGED <<operands, found, providers, contents, rewrites>>
      /\ \/ UNCHANGED <<views, building>>
         \/ /\ OneRoot(fs) /\ views' = [views EXCEPT ![root] = root]
            /\ building' \in {new, building}
  BY DEF StartGroup, Namespace
<1>2. IsGroup(g, found)
  BY <1>1, ListTail DEF InputsInv, GroupsInv
<1>3. InOrder(fs) /\ fs # <<>>
  BY <1>2 DEF IsGroup
<1>4. /\ fs \in Seq(Objects) /\ DOMAIN fs = 1..Len(fs) /\ Len(fs) \in Nat /\ Len(fs) # 0
      /\ \A i \in 1..Len(fs) : fs[i] \in Objects
  <2> HIDE DEF fs
  <2>1. fs \in Seq(Objects)
    BY <1>3 DEF InOrder
  <2> QED BY <1>3, <2>1, EmptySeq
<1> HIDE DEF fs
<1>5. fs[1] \in Objects /\ root \in Stores /\ ViewsInv /\ ContentsInv
  <2>1. 1 \in 1..Len(fs)
    BY <1>4
  <2> QED BY <1>4, <2>1 DEF Stores, InputsInv
<1> HIDE DEF root
<1>6. views' \in {views, [views EXCEPT ![root] = root]}
  BY <1>1
<1>7. ViewsInv'
  BY <1>5, <1>6 DEF ViewsInv
<1>8. BuildingInv'
  <2>1. CASE building' = building
    BY <1>1, <2>1, NotBuilding
  <2>2. CASE building' = new /\ OneRoot(fs) /\ views' = [views EXCEPT ![root] = root]
    <3>2. Representative(fs) \in Objects
      BY <1>3, RepresentativeIs
    <3> DEFINE b == building'
    <3>3. /\ b = [format |-> b.format, variant |-> b.variant, files |-> b.files,
                  schema |-> b.schema, order |-> b.order, status |-> b.status]
          /\ b.files = fs /\ b.schema = contents[Representative(fs)].schema
          /\ DOMAIN b.status = 1..Len(fs) /\ DOMAIN b.order = 1..Len(fs)
          /\ \A i \in 1..Len(fs) : b.status[i] = "unread"
      BY <1>4, <2>2
    <3> HIDE DEF b
    <3>1. \A i \in 1..Len(fs) : fs[i].store = fs[1].store /\ views'[fs[i].store] = fs[i].store
      <4> SUFFICES ASSUME NEW i \in 1..Len(fs)
                   PROVE  fs[i].store = fs[1].store /\ views'[fs[i].store] = fs[i].store
        OBVIOUS
      <4>1. fs[i].store = root /\ fs[1].store = root
        BY <1>4, <2>2 DEF OneRoot, root
      <4>2. root \in DOMAIN views
        BY <1>5 DEF ViewsInv
      <4>3. views'[root] = root
        BY <2>2, <4>2
      <4> QED BY <4>1, <4>3
    <3>4. \A i \in 1..Len(building'.files) : ReadIs(building, i)'
      BY <3>3 DEF ReadIs, b
    <3>5. \E o \in Objects : b.schema = contents'[o].schema
      BY <1>1, <3>2, <3>3
    <3>6. InOrder(b.files) /\ b.files # <<>> /\ InView(building.files)'
      <4>1. InView(building.files)'
        BY <3>1, <3>3 DEF InView, Reachable, Namespace, b
      <4> QED BY <1>3, <3>3, <4>1
    <3>7. IsBuilding(building)'
      BY <3>3, <3>4, <3>5, <3>6 DEF IsBuilding, b, InOrder
    <3> QED BY <3>7 DEF BuildingInv
  <2> QED BY <1>1, <2>1, <2>2
<1>9. FinishedInv'
  BY <1>1, NothingFinished
<1>10. ProvidersInv'
  BY <1>1, <1>6, ProvidersInvStays DEF InputsInv
<1>11. GroupsInv'
  BY <1>1, GroupsStay DEF InputsInv
<1> QED BY <1>1, <1>7, <1>8, <1>9, <1>10, <1>11, ContentsStay, OperandsStay DEF InputsInv

(* Nothing but the group in the making. *)
LEMMA OnlyBuilding ==
  ASSUME InputsInv, UNCHANGED <<operands, found, groups, providers, views, contents, rewrites>>,
         BuildingInv', FinishedInv'
  PROVE  InputsInv'
<1>1. ViewsInv'
  BY DEF InputsInv, ViewsInv
<1> QED BY <1>1, ContentsStay, OperandsStay, GroupsStay, ProvidersInvStays DEF InputsInv

(* A group whose file i was read a step further. *)
LEMMA FurtherRead ==
  ASSUME BuildingInv, FinishedInv, building # NoGroup, UNCHANGED <<views, contents, rewrites>>,
         NEW i \in 1..Len(building.files), NEW s, NEW w, DOMAIN w = 1..Len(building.files),
         \A j \in 1..Len(building.files) : j # i => w[j] = building.order[j],
         building' = [format |-> building.format, variant |-> building.variant,
                      files |-> building.files, schema |-> building.schema,
                      order |-> w, status |-> [building.status EXCEPT ![i] = s]],
         rewrites = 0 => ReadIs(building, i)'
  PROVE  /\ BuildingInv'
         /\ building'.files = building.files /\ building' # NoGroup
         /\ \A j \in 1..Len(building.files) : j # i =>
              building'.status[j] = building.status[j] /\ building'.order[j] = building.order[j]
         /\ building'.status[i] = s /\ building'.order[i] = w[i]
<1> DEFINE b == building
           c == building'
           n == Len(b.files)
<1>1. IsBuilding(b)
  BY DEF BuildingInv
<1>3. c = [format |-> b.format, variant |-> b.variant, files |-> b.files, schema |-> b.schema,
           order |-> w, status |-> [b.status EXCEPT ![i] = s]]
  OBVIOUS
<1>4. /\ c.files = b.files /\ c.schema = b.schema
      /\ DOMAIN b.status = 1..n /\ DOMAIN b.order = 1..n /\ b.files # <<>>
  BY <1>1, <1>3 DEF IsBuilding
<1>5. /\ DOMAIN c.status = 1..n /\ DOMAIN c.order = 1..n
      /\ \A j \in 1..n : j # i => c.status[j] = b.status[j] /\ c.order[j] = b.order[j]
      /\ c.status[i] = s /\ c.order[i] = w[i]
  <2>1. c.order = w /\ c.status = [b.status EXCEPT ![i] = s]
    BY <1>3
  <2> HIDE DEF b, c
  <2> QED BY <1>4, <2>1 DEF n, b
<1>6. c # NoGroup
  BY <1>4 DEF NoGroup
<1>7. c = [format |-> c.format, variant |-> c.variant, files |-> c.files,
           schema |-> c.schema, order |-> c.order, status |-> c.status]
  BY <1>3
<1> HIDE DEF n
<1>8. rewrites = 0 => \A j \in 1..n : ReadIs(building, j)'
  <2> SUFFICES ASSUME rewrites = 0, NEW j \in 1..n PROVE ReadIs(building, j)'
    OBVIOUS
  <2>1. CASE j = i
    BY <2>1
  <2>2. CASE j # i
    <3>1. ReadIs(b, j)
      BY <1>1 DEF IsBuilding, n
    <3> QED BY <1>4, <1>5, <2>2, <3>1 DEF ReadIs
  <2> QED BY <2>1, <2>2
<1>9. InView(building.files)'
  BY <1>1, <1>4 DEF IsBuilding, InView, Reachable
<1>10. IsBuilding(building)'
  <2>1. InOrder(c.files) /\ c.files # <<>>
    BY <1>1, <1>4 DEF IsBuilding
  <2>2. rewrites' = 0 => \E o \in Objects : c.schema = contents'[o].schema
    BY <1>1, <1>4 DEF IsBuilding
  <2>3. rewrites' = 0 => \A j \in 1..Len(c.files) : ReadIs(building, j)'
    BY <1>4, <1>8 DEF n
  <2>4. DOMAIN c.status = 1..Len(c.files) /\ DOMAIN c.order = 1..Len(c.files)
    BY <1>4, <1>5 DEF n
  <2> HIDE DEF b
  <2> QED BY <1>7, <1>9, <2>1, <2>2, <2>3, <2>4 DEF IsBuilding, InOrder, c
<1>11. BuildingInv'
  BY <1>10 DEF BuildingInv
<1> QED BY <1>4, <1>5, <1>6, <1>11 DEF n

(* What reading a file does to the group in the making. *)
LEMMA OrderRead ==
  ASSUME InputsInv, NEW i, ReadOrdering(i)
  PROVE  InputsInv'
<1> DEFINE b == building
           n == Len(b.files)
           v == contents[b.files[i]].ordering
<1>1. /\ b # NoGroup /\ i \in DOMAIN b.files /\ b.status[i] = "unread"
      /\ UNCHANGED <<operands, found, groups, finished, providers, views, contents, rewrites>>
      /\ \/ building' = [b EXCEPT !.status[i] = "ordered", !.order[i] = v]
         \/ building' = b
  BY DEF ReadOrdering, Quiet, Checking, InFlight
<1>2. CASE building' = b
  BY <1>1, <1>2, OnlyBuilding, BuildingStays, FinishedStays DEF InputsInv
<1>3. CASE building' = [b EXCEPT !.status[i] = "ordered", !.order[i] = v]
  <2>0. IsBuilding(b) /\ FinishedInv /\ BuildingInv
    BY <1>1 DEF InputsInv, BuildingInv
  <2> DEFINE w == [b.order EXCEPT ![i] = v]
             f1 == b.format
             f2 == b.variant
             f3 == b.files
             f4 == b.schema
             f5 == b.order
             f6 == b.status
  <2>1. b = [format |-> f1, variant |-> f2, files |-> f3, schema |-> f4, order |-> f5, status |-> f6]
    BY <2>0 DEF IsBuilding
  <2>2. InOrder(f3) /\ DOMAIN f5 = 1..n /\ DOMAIN f6 = 1..n
    BY <2>0 DEF IsBuilding
  <2>3. i \in 1..n
    BY <1>1, <2>2 DEF InOrder
  <2> HIDE DEF n
  <2>4. building' = [format |-> f1, variant |-> f2, files |-> f3, schema |-> f4,
                     order |-> w, status |-> [f6 EXCEPT ![i] = "ordered"]]
    <3>1. w = [f5 EXCEPT ![i] = v]
      OBVIOUS
    <3> HIDE DEF b, f1, f2, f3, f4, f5, f6, w, v
    <3> QED BY <1>3, <2>1, <3>1
  <2>5. DOMAIN w = 1..n /\ w[i] = v /\ \A j \in 1..n : j # i => w[j] = f5[j]
    <3> HIDE DEF f5, v
    <3> QED BY <2>2, <2>3 DEF f5
  <2> HIDE DEF w, v
  <2>6. rewrites = 0 => ReadIs(building, i)'
    <3>1. building'.status = [f6 EXCEPT ![i] = "ordered"] /\ building'.order = w
          /\ building'.files = f3
      BY <2>4
    <3>2. building'.status[i] = "ordered"
      BY <2>2, <2>3, <3>1
    <3> QED BY <1>1, <2>5, <3>1, <3>2 DEF ReadIs, v
  <2>7. /\ BuildingInv'
        /\ building'.files = b.files /\ building' # NoGroup
        /\ \A j \in 1..n : j # i =>
              building'.status[j] = b.status[j] /\ building'.order[j] = b.order[j]
        /\ building'.status[i] = "ordered" /\ building'.order[i] = w[i]
    <3>1. UNCHANGED <<views, contents, rewrites>> /\ b # NoGroup
      BY <1>1
    <3> HIDE DEF w
    <3> QED BY <2>0, <2>3, <2>4, <2>5, <2>6, <3>1, FurtherRead DEF n
  <2>8. FinishedInv'
    <3>1. ASSUME NEW k \in 1..Len(finished)
          PROVE  \E j \in 1..n : finished[k] = <<j, building'.order[j]>>
                                 /\ building'.status[j] = "done"
      <4>1. PICK j \in 1..n : finished[k] = <<j, b.order[j]>> /\ b.status[j] = "done"
        BY <1>1, <2>0 DEF FinishedInv, n
      <4>2. j # i
        BY <1>1, <4>1
      <4> QED BY <2>7, <4>1, <4>2
    <3>2. \A j, k \in 1..Len(finished) : finished[j][1] = finished[k][1] => j = k
      BY <1>1, <2>0 DEF FinishedInv
    <3> QED BY <1>1, <2>0, <2>7, <3>1, <3>2 DEF FinishedInv, n
  <2> QED BY <1>1, <2>7, <2>8, OnlyBuilding
<1> QED BY <1>1, <1>2, <1>3

(* What checking a file's schema does: its result is there. *)
LEMMA SchemaChecked ==
  ASSUME InputsInv, NEW i, CheckSchema(i)
  PROVE  InputsInv'
<1> DEFINE b == building
           n == Len(b.files)
           x == <<i, b.order[i]>>
<1>1. /\ b # NoGroup /\ i \in DOMAIN b.files /\ b.status[i] = "ordered"
      /\ UNCHANGED <<operands, found, groups, providers, views, contents, rewrites>>
      /\ \/ /\ SchemasMatch(b.schema, contents[b.files[i]].schema)
            /\ building' = [b EXCEPT !.status[i] = "done"] /\ finished' = Append(finished, x)
         \/ UNCHANGED <<building, finished>>
  BY DEF CheckSchema, Quiet, Checking, InFlight
<1>2. CASE UNCHANGED <<building, finished>>
  BY <1>1, <1>2, OnlyBuilding, BuildingStays, FinishedStays DEF InputsInv
<1>3. CASE /\ SchemasMatch(b.schema, contents[b.files[i]].schema)
           /\ building' = [b EXCEPT !.status[i] = "done"] /\ finished' = Append(finished, x)
  <2>0. IsBuilding(b) /\ FinishedInv /\ BuildingInv
    BY <1>1 DEF InputsInv, BuildingInv
  <2> DEFINE f1 == b.format
             f2 == b.variant
             f3 == b.files
             f4 == b.schema
             f5 == b.order
             f6 == b.status
  <2>1. b = [format |-> f1, variant |-> f2, files |-> f3, schema |-> f4, order |-> f5, status |-> f6]
    BY <2>0 DEF IsBuilding
  <2>2. InOrder(f3) /\ DOMAIN f5 = 1..n /\ DOMAIN f6 = 1..n
    BY <2>0 DEF IsBuilding
  <2>3. i \in 1..n
    BY <1>1, <2>2 DEF InOrder
  <2> HIDE DEF n
  <2>4. building' = [format |-> f1, variant |-> f2, files |-> f3, schema |-> f4,
                     order |-> f5, status |-> [f6 EXCEPT ![i] = "done"]]
    <3> HIDE DEF b, f1, f2, f3, f4, f5, f6
    <3> QED BY <1>3, <2>1
  <2>6. rewrites = 0 => ReadIs(building, i)'
    <3>1. building'.status = [f6 EXCEPT ![i] = "done"] /\ building'.order = f5
          /\ building'.files = f3 /\ building'.schema = f4
      BY <2>4
    <3>2. building'.status[i] = "done"
      BY <2>2, <2>3, <3>1
    <3>3. rewrites = 0 => f5[i] = contents[f3[i]].ordering
      <4> SUFFICES ASSUME rewrites = 0 PROVE f5[i] = contents[f3[i]].ordering
        OBVIOUS
      <4>1. ReadIs(b, i)
        BY <2>0, <2>3 DEF IsBuilding, n
      <4> QED BY <1>1, <4>1 DEF ReadIs
    <3> QED BY <1>1, <1>3, <3>1, <3>2, <3>3 DEF ReadIs
  <2>7. /\ BuildingInv'
        /\ building'.files = b.files /\ building' # NoGroup
        /\ \A j \in 1..n : j # i =>
              building'.status[j] = b.status[j] /\ building'.order[j] = b.order[j]
        /\ building'.status[i] = "done" /\ building'.order[i] = b.order[i]
    <3>1. UNCHANGED <<views, contents, rewrites>> /\ b # NoGroup
      BY <1>1
    <3>2. DOMAIN f5 = 1..n
      BY <2>2
    <3> QED BY <2>0, <2>3, <2>4, <2>6, <3>1, <3>2, FurtherRead DEF n
  <2>8. FinishedInv'
    <3> DEFINE l == Len(finished)
               t == finished'
    <3>1. IsList(finished) /\ finished \in Seq(Range(finished)) /\ l \in Nat
      BY <2>0 DEF FinishedInv, IsList
    <3>2. Len(t) = l + 1 /\ t[l + 1] = x /\ \A k \in 1..l : t[k] = finished[k]
      <4> HIDE DEF x
      <4>1. t = Append(finished, x)
        BY <1>3
      <4> QED BY <3>1, <4>1
    <3>3. IsList(t)
      <4> HIDE DEF x
      <4> QED BY <1>3, <3>1, ListAppend
    <3> HIDE DEF t, l
    <3>4. ASSUME NEW k \in 1..l
          PROVE  \E j \in 1..n : /\ finished[k] = <<j, b.order[j]>> /\ b.status[j] = "done"
                                 /\ j # i
      <4>1. PICK j \in 1..n : finished[k] = <<j, b.order[j]>> /\ b.status[j] = "done"
        BY <1>1, <2>0 DEF FinishedInv, n, l
      <4> QED BY <1>1, <4>1
    <3>5. ASSUME NEW k \in 1..(l + 1)
          PROVE  \E j \in 1..n : t[k] = <<j, building'.order[j]>> /\ building'.status[j] = "done"
      <4>1. CASE k \in 1..l
        <5>1. PICK j \in 1..n : /\ finished[k] = <<j, b.order[j]>> /\ b.status[j] = "done"
                                /\ j # i
          BY <3>4, <4>1
        <5> QED BY <2>7, <3>2, <4>1, <5>1
      <4>2. CASE k = l + 1
        BY <2>3, <2>7, <3>2, <4>2
      <4> QED BY <3>1, <4>1, <4>2
    <3>6. \A k \in 1..l : t[k][1] # i
      BY <3>2, <3>4
    <3>7. t[l + 1][1] = i
      BY <3>2
    <3>8. \A j, k \in 1..l : t[j][1] = t[k][1] => j = k
      BY <1>1, <2>0, <3>2 DEF FinishedInv, l
    <3>9. ASSUME NEW j \in 1..(l + 1), NEW k \in 1..(l + 1), t[j][1] = t[k][1] PROVE j = k
      BY <3>1, <3>6, <3>7, <3>8, <3>9
    <3> QED BY <2>7, <3>2, <3>3, <3>5, <3>9 DEF FinishedInv, n, t
  <2> QED BY <1>1, <2>7, <2>8, OnlyBuilding
<1> QED BY <1>1, <1>2, <1>3

(* The result of each file, in the order of the files, when there are as many as
   files. *)
LEMMA AllFinished ==
  ASSUME BuildingInv, FinishedInv, building # NoGroup, Len(finished) = Len(building.files)
  PROVE  /\ InOrderOfIndex(finished)
              = [i \in 1..Len(building.files) |-> <<i, building.order[i]>>]
         /\ \A i \in 1..Len(building.files) : building.status[i] = "done"
<1> DEFINE n == Len(building.files)
           f == [k \in 1..n |-> finished[k][1]]
           order == building.order
           status == building.status
<1>1. n \in Nat
  <2> DEFINE fs == building.files
  <2>1. fs \in Seq(Objects)
    BY DEF BuildingInv, IsBuilding, InOrder
  <2> HIDE DEF fs
  <2>2. Len(fs) \in Nat
    BY <2>1
  <2> QED BY <2>2 DEF fs
<1>2. finished \in Seq(Range(finished)) /\ DOMAIN finished = 1..n
  <2>1. finished \in Seq(Range(finished))
    BY DEF FinishedInv, IsList
  <2> QED BY <2>1
<1>3. /\ \A k \in 1..n : \E i \in 1..n : finished[k] = <<i, order[i]>> /\ status[i] = "done"
      /\ \A j, k \in 1..n : finished[j][1] = finished[k][1] => j = k
  BY DEF FinishedInv
<1> HIDE DEF n, order, status
<1>4. ASSUME NEW k \in 1..n
      PROVE  f[k] \in 1..n /\ finished[k] = <<f[k], order[f[k]]>> /\ status[f[k]] = "done"
  <2>1. PICK i \in 1..n : finished[k] = <<i, order[i]>> /\ status[i] = "done"
    BY <1>3
  <2> QED BY <2>1
<1>5. f \in [1..n -> 1..n] /\ \A j, k \in 1..n : f[j] = f[k] => j = k
  BY <1>3, <1>4
<1>6. IsFiniteSet(1..n) /\ n = Cardinality(1..n)
  BY <1>1, FS_Interval
<1> HIDE DEF f
<1>7. \A i \in 1..n : \E k \in 1..n : f[k] = i
  <2> DEFINE D == 1..n
  <2>1. IsFiniteSet(D) /\ n = Cardinality(D) /\ f \in [1..n -> D]
    BY <1>5, <1>6
  <2> HIDE DEF D
  <2>3. \A j, k \in 1..n : f[j] = f[k] => j = k
    BY <1>5
  <2>4. n \in Nat /\ IsFiniteSet(D)
    BY <1>1, <2>1
  <2>5. n = Cardinality(D)
    BY <2>1
  <2>6. f \in [1..n -> D]
    BY <2>1
  <2>2. \A x \in D : \E k \in 1..n : f[k] = x
    BY ONLY <2>3, <2>4, <2>5, <2>6, AllOfThem
  <2> QED BY <2>2 DEF D
<1>8. ASSUME NEW i \in 1..n
      PROVE  (CHOOSE m \in Range(finished) : m[1] = i) = <<i, order[i]>> /\ status[i] = "done"
  <2>1. PICK k \in 1..n : f[k] = i
    BY <1>7
  <2>2. finished[k] = <<i, order[i]>> /\ status[i] = "done"
    BY <1>4, <2>1
  <2>3. <<i, order[i]>> \in Range(finished) /\ <<i, order[i]>>[1] = i
    BY <1>2, <2>2 DEF Range
  <2>4. ASSUME NEW m \in Range(finished), m[1] = i PROVE m = <<i, order[i]>>
    <3>1. PICK j \in 1..n : finished[j] = m
      BY <1>2 DEF Range
    <3>2. m = <<f[j], order[f[j]]>>
      BY <1>4, <3>1
    <3>3. f[j] = i
      BY <2>4, <3>2
    <3> QED BY <3>2, <3>3
  <2> QED BY <2>2, <2>3, <2>4
<1>9. InOrderOfIndex(finished) = [i \in 1..n |-> CHOOSE m \in Range(finished) : m[1] = i]
  BY <1>2 DEF InOrderOfIndex
<1>10. InOrderOfIndex(finished) = [i \in 1..n |-> <<i, order[i]>>]
  BY <1>8, <1>9
<1> QED BY <1>8, <1>10 DEF n, order, status

(* One more provider of files. *)
LEMMA ProviderAdded ==
  ASSUME InputsInv, NEW p, IsProvider(p), p.kind = "File", providers' = Append(providers, p),
         UNCHANGED <<views, contents, rewrites>>
  PROVE  ProvidersInv'
<1>1. \A q \in Range(providers) \cup {p} : IsProvider(q)'
  BY ProvidersStay DEF InputsInv, ProvidersInv
<1>2. IsList(providers') /\ Range(providers') = Range(providers) \cup {p}
  BY ListAppend DEF InputsInv, ProvidersInv
<1> QED BY <1>1, <1>2 DEF ProvidersInv

(* The provider that is built of a group, if it is. *)
LEMMA BuiltIs ==
  ASSUME InputsInv, ProviderBuilt, providers' # providers
  PROVE  \E p, meta : /\ providers' = Append(providers, p) /\ p = FileProvider(building, meta)
                      /\ IsProvider(p) /\ p.kind = "File" /\ p.files = building.files
                      /\ p.format = building.format /\ p.variant = building.variant
<1> DEFINE b == building
           n == Len(b.files)
<1>1. b # NoGroup /\ BuildingInv /\ FinishedInv /\ ContentsInv /\ IsBuilding(b)
  BY DEF ProviderBuilt, InputsInv, BuildingInv
<1>2. InOrder(b.files) /\ DOMAIN b.order = 1..n /\ DOMAIN b.files = 1..n
  <2> DEFINE fs == b.files
  <2>1. InOrder(fs) /\ DOMAIN b.order = 1..Len(fs)
    BY <1>1 DEF IsBuilding
  <2> HIDE DEF fs
  <2>2. DOMAIN fs = 1..Len(fs)
    BY <2>1 DEF InOrder
  <2> QED BY <2>1, <2>2 DEF fs
<1>3. CASE /\ Len(finished) = n
           /\ providers' = Append(providers, FileProvider(b, InOrderOfIndex(finished)))
  <2> DEFINE meta == InOrderOfIndex(finished)
             p == FileProvider(b, meta)
             orders == [i \in 1..n |-> b.order[i]]
  <2>1. meta = [i \in 1..n |-> <<i, b.order[i]>>] /\ \A i \in 1..n : b.status[i] = "done"
    BY <1>1, <1>3, AllFinished
  <2>2. meta = [i \in 1..n |-> <<i, orders[i]>>]
    BY <2>1
  <2>3. DOMAIN orders = 1..n /\ \A i \in 1..n : orders[i] = b.order[i]
    OBVIOUS
  <2> HIDE DEF meta, orders
  <2>4. /\ p.kind = "File" /\ p.files = b.files /\ p.schema = b.schema /\ p.format = b.format
        /\ p.variant = b.variant
        /\ p.ordering = CommonOrdering([i \in 1..Len(b.files) |-> orders[i]])
    BY <1>2, <2>2, <2>3, ProviderIs
  <2>5. [i \in 1..n |-> orders[i]] = orders
    BY DEF orders
  <2>6. p.ordering = CommonOrdering(orders)
    BY <2>4, <2>5
  <2> HIDE DEF p
  <2>7. IsProvider(p)
    BY <1>1, <2>1, <2>3, <2>4, <2>6, ProviderKeeps
  <2>8. providers' = Append(providers, p)
    BY <1>3 DEF p, meta
  <2> QED BY <2>4, <2>7, <2>8 DEF p
<1>4. CASE ~Checking /\ providers' = Append(providers, FileProvider(b, [i \in DOMAIN b.files |-> <<i, <<>>>>]))
  <2> DEFINE meta == [i \in DOMAIN b.files |-> <<i, <<>>>>]
             p == FileProvider(b, meta)
             orders == [i \in 1..n |-> <<>>]
  <2>2. meta = [i \in 1..n |-> <<i, orders[i]>>]
    BY <1>2
  <2>3. DOMAIN orders = 1..n /\ \A i \in 1..n : orders[i] = <<>>
    OBVIOUS
  <2> HIDE DEF meta, orders
  <2>4. /\ p.kind = "File" /\ p.files = b.files /\ p.schema = b.schema /\ p.format = b.format
        /\ p.variant = b.variant
        /\ p.ordering = CommonOrdering([i \in 1..Len(b.files) |-> orders[i]])
    BY <1>2, <2>2, <2>3, ProviderIs
  <2>5. [i \in 1..n |-> orders[i]] = orders
    BY DEF orders
  <2>6. p.ordering = CommonOrdering(orders)
    BY <2>4, <2>5
  <2>7. p.format \notin CheckedFormats
    BY <1>4, <2>4 DEF Checking, ProviderBuilt
  <2> HIDE DEF p
  <2>8. IsProvider(p)
    BY <1>1, <2>3, <2>4, <2>6, <2>7, ProviderKeeps
  <2>9. providers' = Append(providers, p)
    BY <1>4 DEF p, meta
  <2> QED BY <2>4, <2>8, <2>9 DEF p
<1> QED BY <1>3, <1>4 DEF ProviderBuilt

(* A provider is made of the group whose files were read, and promises what
   they hold. *)
LEMMA ProviderMade ==
  ASSUME InputsInv, ProviderBuilt
  PROVE  InputsInv'
<1>1. building' = NoGroup /\ finished' = <<>>
      /\ UNCHANGED <<operands, found, groups, views, contents, rewrites>>
  BY DEF ProviderBuilt, Quiet
<1>2. ProvidersInv'
  <2>1. CASE providers' = providers
    BY <1>1, <2>1, ProvidersInvStays DEF InputsInv
  <2>2. CASE providers' # providers
    BY <1>1, <2>2, BuiltIs, ProviderAdded
  <2> QED BY <2>1, <2>2
<1>3. ViewsInv'
  BY <1>1 DEF InputsInv, ViewsInv
<1> QED BY <1>1, <1>2, <1>3, ContentsStay, OperandsStay, GroupsStay, NotBuilding, NothingFinished
           DEF InputsInv

(* Another process replaces an object. *)
LEMMA Rewritten ==
  ASSUME InputsInv, NEW o \in Objects, Rewrite(o)
  PROVE  InputsInv'
<1>1. PICK c \in Contents : contents' = [contents EXCEPT ![o] = c]
  BY DEF Rewrite
<1>2. /\ rewrites \in Nat /\ rewrites' = rewrites + 1
      /\ UNCHANGED <<operands, found, groups, building, finished, providers, views>>
  BY DEF Rewrite, groupVars, InputsInv, ContentsInv
<1>3. rewrites' \in Nat /\ rewrites' # 0
  BY <1>2
<1>4. ViewsInv'
  BY <1>2 DEF InputsInv, ViewsInv
<1>5. ContentsInv'
  BY <1>1, <1>3, InputsAssumption DEF InputsInv, ContentsInv
<1>6. BuildingInv'
  <2>1. InView(building.files) => InView(building.files)'
    BY <1>2 DEF InView, Reachable
  <2> QED BY <1>2, <1>3, <2>1 DEF InputsInv, BuildingInv, IsBuilding
<1>7. ProvidersInv'
  BY <1>2, <1>3, ProvidersInvStays DEF InputsInv
<1> QED BY <1>2, <1>4, <1>5, <1>6, <1>7, OperandsStay, GroupsStay, FinishedStays DEF InputsInv

(* Every step keeps the invariant of the inputs. *)
LEMMA InputsInvStep ==
  ASSUME CatalogInv, ChosenInv, InputsInv, [CommandNext]_commandState
  PROVE  InputsInv'
<1>1. CASE CatalogNext /\ UNCHANGED <<inputVars, commandVars>>
  BY <1>1, InputsSame DEF inputVars, groupVars
<1>2. CASE BindTransform
  BY <1>2, InputsSame DEF BindTransform, inputVars, groupVars
<1>3. CASE RunCommand
  BY <1>3, InputsSame DEF RunCommand
<1>4. CASE MakeInputs
  <2>1. CASE CheckPatterns
    BY <2>1, PatternsChecked
  <2>2. CASE UnsupportedScheme \/ InputsDone
    BY <2>2, InputsSame DEF UnsupportedScheme, InputsDone, Quiet
  <2>3. CASE ServiceInput \/ FileOperand \/ Identify
    BY <2>3, ServiceMade, Expanded, IdentifiedOne
  <2>4. CASE StartGroup \/ ProviderBuilt
    BY <2>4, GroupStarted, ProviderMade
  <2>5. ASSUME NEW i, ReadOrdering(i) \/ CheckSchema(i) PROVE InputsInv'
    BY <2>5, OrderRead, SchemaChecked
  <2> QED BY <1>4, <2>1, <2>2, <2>3, <2>4, <2>5 DEF MakeInputs, InputsNext
<1>5. CASE OthersWrite
  BY <1>5, Rewritten DEF OthersWrite
<1>6. CASE UNCHANGED commandState
  BY <1>6, InputsSame DEF commandState, inputVars, groupVars
<1> QED BY <1>1, <1>2, <1>3, <1>4, <1>5, <1>6 DEF CommandNext

(* The providers of files, in their order among all. *)
LEMMA FileProvidersAre ==
  ASSUME IsList(providers)
  PROVE  /\ FileProviders
              = Filtered(providers, {i \in DOMAIN providers : providers[i].kind = "File"})
         /\ IsList(FileProviders)
         /\ \A p : p \in Range(FileProviders) <=> p \in Range(providers) /\ p.kind = "File"
<1> DEFINE T == {i \in DOMAIN providers : providers[i].kind = "File"}
           r == FileProviders
<1>1. r = Filtered(providers, T)
  <2>1. [i \in DOMAIN providers |-> IF providers[i].kind = "File" THEN <<providers[i]>> ELSE <<>>]
          = [i \in DOMAIN providers |-> IF i \in T THEN <<providers[i]>> ELSE <<>>]
    OBVIOUS
  <2> QED BY <2>1 DEF FileProviders, Filter, Filtered, Passed
<1>2. providers \in Seq(Range(providers))
  BY DEF IsList
<1>3. PICK e : IsPick(e, providers, T, Filtered(providers, T))
  BY <1>2, FilterPicks
<1> DEFINE m == Len(e)
<1>4. e \in Seq(DOMAIN providers) /\ m \in Nat /\ DOMAIN e = 1..m
  BY <1>3 DEF IsPick
<1>5. r = [k \in 1..m |-> providers[e[k]]]
  BY <1>1, <1>3 DEF IsPick
<1>6. \A i \in DOMAIN providers : i \in T <=> \E k \in 1..m : e[k] = i
  BY <1>3, <1>4 DEF IsPick
<1> HIDE DEF T, r, m
<1>7. DOMAIN r = 1..m /\ \A k \in 1..m : e[k] \in DOMAIN providers /\ r[k] = providers[e[k]]
  BY <1>4, <1>5
<1>8. ASSUME NEW p PROVE p \in Range(r) <=> p \in Range(providers) /\ p.kind = "File"
  <2>1. p \in Range(r) => p \in Range(providers) /\ p.kind = "File"
    BY <1>6, <1>7 DEF Range, T
  <2>2. p \in Range(providers) /\ p.kind = "File" => p \in Range(r)
    BY <1>6, <1>7 DEF Range, T
  <2> QED BY <2>1, <2>2
<1>9. IsList(r)
  <2>1. r \in Seq(Range(providers))
    BY <1>2, <1>4, <1>5, <1>7 DEF Range
  <2> QED BY <2>1, RangeIsList DEF IsList
<1> QED BY <1>1, <1>8, <1>9 DEF r, T

(* What the invariant says of providers is what they claim. *)
LEMMA ClaimsKnown == InputsInv => ClaimsHold
<1> SUFFICES ASSUME InputsInv, NEW p \in Range(FileProviders), NEW o \in Range(p.files)
             PROVE  Promised(p, o)
  BY DEF ClaimsHold, Promised
<1>1. IsProvider(p) /\ p.kind = "File"
  BY FileProvidersAre DEF InputsInv, ProvidersInv
<1>2. InOrder(p.files) /\ \A i \in 1..Len(p.files) : Promised(p, p.files[i])
  BY <1>1 DEF IsProvider
<1>3. PICK i \in 1..Len(p.files) : p.files[i] = o
  BY <1>2 DEF InOrder, Range
<1> QED BY <1>2, <1>3

(***************************************************************************)
(* ClaimsHold, for any catalog, command lines and objects, any number of   *)
(* operands, groups and stores, and any replacements by others: each file  *)
(* of each provider that exact_file_provider made stays readable through   *)
(* the session's view of its store, and while nothing was replaced it      *)
(* has the ordering the provider declares and, where the format checks     *)
(* it, the provider's schema.                                              *)
(***************************************************************************)
THEOREM ClaimsAreTrue == CommandSpec => []ClaimsHold
<1>1. CommandSpec => [](CatalogInv /\ ChosenInv /\ InputsInv)
  <2>1. CommandInit => CatalogInv /\ ChosenInv /\ InputsInv
    BY CatalogInvInit, ChosenInvInit, InputsInvInit
  <2>2. CatalogInv /\ ChosenInv /\ InputsInv /\ [CommandNext]_commandState
          => (CatalogInv /\ ChosenInv /\ InputsInv)'
    BY CatalogInvStep, ChosenInvStep, InputsInvStep
  <2> QED BY <2>1, <2>2, PTL DEF CommandSpec, commandState
<1> QED BY <1>1, ClaimsKnown, PTL

-----------------------------------------------------------------------------
(* Numbers *)

(* A percentage of a number is no more than it. *)
LEMMA Portion100 ==
  ASSUME NEW t \in Nat, NEW p \in 0..100
  PROVE  (t * p) \div 100 \in 0..t
<1>1. t * p \in Nat /\ t * p <= t * 100
  <2>1. t * p >= 0
    OBVIOUS
  <2>2. t * (100 - p) >= 0
    OBVIOUS
  <2>3. t * (100 - p) = t * 100 - t * p
    OBVIOUS
  <2> QED BY <2>1, <2>2, <2>3
<1> DEFINE x == t * p
<1>2. x \in Nat /\ x <= 100 * t
  BY <1>1
<1> HIDE DEF x
<1>3. x \div 100 \in 0..t
  BY <1>2
<1> QED BY <1>3 DEF x

(* What is shared does not exceed what there is. *)
LEMMA Quotient ==
  ASSUME NEW r \in Nat, NEW n \in Nat, n >= 1
  PROVE  (r \div n) \in Nat /\ (r \div n) * n <= r
OBVIOUS

(* Halves of equal shares are together no more than half of what is shared. *)
LEMMA HalfShared ==
  ASSUME NEW pool \in Nat, NEW n \in Nat, n >= 1, NEW r \in Nat, r <= (pool \div n) \div 2
  PROVE  2 * r * n <= pool
<1> DEFINE m == pool \div n
<1>1. m \in Nat /\ m * n <= pool
  BY Quotient
<1> HIDE DEF m
<1>2. 2 * r <= m
  BY <1>1 DEF m
<1>3. 2 * r * n <= m * n
  <2> DEFINE x == 2 * r
  <2>1. x \in Nat /\ x <= m
    BY <1>2
  <2> HIDE DEF x
  <2>2. (m - x) * n >= 0
    BY <1>1, <2>1
  <2>3. (m - x) * n = m * n - x * n
    BY <1>1, <2>1
  <2>4. x * n <= m * n
    BY <1>1, <2>1, <2>2, <2>3
  <2> QED BY <2>4 DEF x
<1>4. 2 * r * n \in Int /\ m * n \in Int
  BY <1>1
<1> DEFINE y == 2 * r * n
           z == m * n
<1> HIDE DEF y, z
<1>5. y <= z /\ z <= pool /\ y \in Int /\ z \in Int
  BY <1>1, <1>3, <1>4 DEF y, z
<1>6. y <= pool
  BY <1>5
<1> QED BY <1>6 DEF y

(* The largest of a set of numbers that are bounded. *)
LEMMA MaxIs ==
  ASSUME NEW S, S # {}, NEW high \in Int, \A x \in S : x \in Int /\ x <= high
  PROVE  Max(S) \in S
<1> DEFINE D == {high - x : x \in S}
<1>1. D \subseteq Nat /\ D # {}
  OBVIOUS
<1>2. PICK d \in D : \A e \in D : d <= e
  <2> HIDE DEF D
  <2> QED BY <1>1, LeastNumber
<1>3. PICK x \in S : d = high - x
  OBVIOUS
<1>4. \A y \in S : x >= y
  <2> SUFFICES ASSUME NEW y \in S PROVE x >= y
    OBVIOUS
  <2>1. high - y \in D
    OBVIOUS
  <2>2. d <= high - y
    BY <1>2, <2>1
  <2> QED BY <1>3, <2>2
<1>5. Max(S) = CHOOSE m \in S : \A y \in S : m >= y
  BY DEF Max
<1> HIDE DEF D
<1>6. Max(S) \in S
  BY <1>3, <1>4, <1>5
<1> QED BY <1>6

-----------------------------------------------------------------------------
(* What a machine offers *)

(* No more memory is available than there is, whatever the control group
   says. *)
LEMMA MachineMemory ==
  ASSUME NEW m, IsMachine(m)
  PROVE  /\ TotalMemory(m) \in Nat /\ AvailableMemory(m) \in Nat
         /\ AvailableMemory(m) <= TotalMemory(m)
<1>1. /\ m.v2 \in Nat \cup {Absent} /\ m.v1 \in Nat \cup {Absent} /\ m.usage \in Nat \cup {Absent}
      /\ m.total \in Nat /\ m.available \in 0..m.total
      /\ m.v2 # Absent => m.stat # {}
      /\ m.v1 # Absent => m.usage # Absent
  BY DEF IsMachine
<1>2. Absent \notin Nat
  BY DEF Absent
<1>3. CASE m.v2 # Absent
  <2> DEFINE s == CHOOSE s \in m.stat : TRUE
  <2>1. s \in m.stat
    BY <1>1, <1>3
  <2>2. s.counted \in Nat /\ s.reclaimable \in Nat
    BY <2>1 DEF IsMachine
  <2> HIDE DEF s
  <2>3. NetUsed(s) \in Nat
    BY <2>2 DEF NetUsed, Minus
  <2>4. m.v2 \in Nat
    BY <1>1, <1>3
  <2>5. V2Available(m) = Minus(m.v2, NetUsed(s))
    BY <1>1, <1>3 DEF V2Available, s
  <2>6. V2Available(m) \in 0..m.v2
    BY <2>3, <2>4, <2>5 DEF Minus
  <2>7. TotalMemory(m) = m.v2
    BY <1>3 DEF TotalMemory, CgroupTotal, OrElse
  <2>8. AvailableMemory(m) = V2Available(m)
    BY <1>2, <2>6 DEF AvailableMemory, OrElse
  <2> QED BY <2>4, <2>6, <2>7, <2>8
<1>4. CASE m.v2 = Absent /\ V1Limit(m) # Absent
  <2>1. m.v1 \in Nat /\ V1Limit(m) = m.v1 /\ m.usage \in Nat /\ m.usage # Absent
    BY <1>1, <1>2, <1>4 DEF V1Limit
  <2>2. V2Available(m) = Absent
    BY <1>4 DEF V2Available
  <2>3. V1Available(m) = Minus(m.v1, m.usage)
    BY <1>4, <2>1 DEF V1Available
  <2>4. V1Available(m) \in 0..m.v1
    BY <2>1, <2>3 DEF Minus
  <2>5. TotalMemory(m) = m.v1
    BY <1>2, <1>4, <2>1 DEF TotalMemory, CgroupTotal, OrElse
  <2>6. AvailableMemory(m) = V1Available(m)
    BY <1>2, <2>2, <2>4 DEF AvailableMemory, OrElse
  <2> QED BY <2>1, <2>4, <2>5, <2>6
<1>5. CASE m.v2 = Absent /\ V1Limit(m) = Absent
  <2>1. V2Available(m) = Absent /\ V1Available(m) = Absent
    BY <1>5 DEF V2Available, V1Available
  <2>2. AvailableMemory(m) = SystemAvailable(m) /\ TotalMemory(m) = m.total
    BY <1>5, <2>1 DEF AvailableMemory, TotalMemory, CgroupTotal, OrElse
  <2>3. SystemAvailable(m) \in 0..m.total
    BY <1>1 DEF SystemAvailable
  <2> QED BY <1>1, <2>2, <2>3
<1> QED BY <1>3, <1>4, <1>5

-----------------------------------------------------------------------------
(* The memory and the threads of the command *)

(* A lower limit keeps numbers in order. *)
LEMMA AtLeastIs ==
  ASSUME NEW low \in Nat, NEW t \in Nat, NEW b \in 0..t
  PROVE  AtLeast(low, b) \in Nat /\ AtLeast(low, b) <= AtLeast(low, t)
BY DEF AtLeast

(* Memory that is not fixed is, but for the given minimum, no more than the
   machine has. *)
LEMMA ResolvedMemory ==
  ASSUME NEW m, IsMachine(m), NEW s, ParsedMemory(s),
         s.kind \in {"Total", "Available", "Fixed", "Reserve"},
         s.kind \in {"Fixed", "Reserve"} => s.bytes \in Nat,
         s.kind # "Fixed" => s.min \in Nat \cup {Absent}
  PROVE  /\ ResolveMemory(s, m) \in Nat
         /\ s.kind # "Fixed" =>
              ResolveMemory(s, m) <= AtLeast(OrElse(s.min, 0), TotalMemory(m))
<1> DEFINE total == TotalMemory(m)
           available == AvailableMemory(m)
           low == OrElse(s.min, 0)
<1>1. total \in Nat /\ available \in Nat /\ available <= total
  BY MachineMemory
<1>2. s.kind # "Fixed" => low \in Nat
  BY DEF OrElse
<1>3. s.kind = "Total" \/ s.kind = "Available" => s.pct \in 0..100
  BY DEF ParsedMemory
<1> HIDE DEF total, available, low
<1>4. CASE s.kind = "Total"
  <2> DEFINE b == (total * s.pct) \div 100
  <2>1. b \in 0..total
    BY <1>1, <1>3, <1>4, Portion100
  <2> HIDE DEF b
  <2>2. ResolveMemory(s, m) = AtLeast(low, b)
    BY <1>4 DEF ResolveMemory, b, low, total
  <2>3. AtLeast(low, b) \in Nat /\ AtLeast(low, b) <= AtLeast(low, total)
    <3>1. low \in Nat
      BY <1>2, <1>4
    <3>2. b \in 0..total
      BY <1>1, <2>1
    <3> QED BY <1>1, <3>1, <3>2, AtLeastIs
  <2> QED BY <2>2, <2>3 DEF low, total
<1>5. CASE s.kind = "Available"
  <2> DEFINE b == (available * s.pct) \div 100
  <2>1. b \in 0..available
    BY <1>1, <1>3, <1>5, Portion100
  <2> HIDE DEF b
  <2>2. ResolveMemory(s, m) = AtLeast(low, b)
    BY <1>5 DEF ResolveMemory, b, low, available
  <2>3. AtLeast(low, b) \in Nat /\ AtLeast(low, b) <= AtLeast(low, total)
    <3>1. low \in Nat
      BY <1>2, <1>5
    <3>2. b \in 0..total
      BY <1>1, <2>1
    <3> QED BY <1>1, <3>1, <3>2, AtLeastIs
  <2> QED BY <2>2, <2>3 DEF low, total
<1>6. CASE s.kind = "Reserve"
  <2> DEFINE b == Minus(total, s.bytes)
  <2>1. b \in 0..total
    BY <1>1, <1>6 DEF Minus
  <2> HIDE DEF b
  <2>2. ResolveMemory(s, m) = AtLeast(low, b)
    BY <1>6 DEF ResolveMemory, b, low, total
  <2>3. AtLeast(low, b) \in Nat /\ AtLeast(low, b) <= AtLeast(low, total)
    <3>1. low \in Nat
      BY <1>2, <1>6
    <3>2. b \in 0..total
      BY <1>1, <2>1
    <3> QED BY <1>1, <3>1, <3>2, AtLeastIs
  <2> QED BY <2>2, <2>3 DEF low, total
<1>7. CASE s.kind = "Fixed"
  BY <1>7 DEF ResolveMemory
<1> QED BY <1>4, <1>5, <1>6, <1>7

(* At least one thread is left, however many are reserved. *)
LEMMA ResolvedThreads ==
  ASSUME NEW m, IsMachine(m), NEW s, ParsedThreads(s),
         s.kind = "Fixed" => s.threads \in Nat,
         s.kind # "Fixed" => s.min \in Nat /\ s.reserve \in Nat
  PROVE  ResolveThreads(s, m) \in Nat /\ ResolveThreads(s, m) >= 1
<1>1. m.cpus \in Nat
  BY DEF IsMachine
<1>2. CASE s.kind = "Fixed"
  BY <1>2 DEF ParsedThreads, NonZero, ResolveThreads
<1>3. CASE s.kind # "Fixed"
  <2>1. s.min \in Nat /\ s.min > 0 /\ s.reserve \in Nat
    BY <1>3 DEF ParsedThreads, NonZero
  <2>2. Minus(m.cpus, s.reserve) \in Nat
    BY <1>1, <2>1 DEF Minus
  <2>3. ResolveThreads(s, m) = AtLeast(s.min, Minus(m.cpus, s.reserve))
    BY <1>3 DEF ResolveThreads
  <2> QED BY <2>1, <2>2, <2>3 DEF AtLeast
<1> QED BY <1>2, <1>3

-----------------------------------------------------------------------------
(* The reservation of the sorts *)

(* The inputs of a sort are partitions with numbers for rows and bytes. *)
LEMMA SortInputsAre ==
  ASSUME NEW sort \in Seq([rows : Nat \cup {Absent}, bytes : Nat \cup {Absent}])
  PROVE  SortInputs(sort) \in Seq([rows : Nat \cup {Absent}, bytes : Nat \cup {Absent}])
<1> DEFINE Input == [rows : Nat \cup {Absent}, bytes : Nat \cup {Absent}]
<1>1. UnknownInput \in Input
  BY DEF UnknownInput
<1> HIDE DEF Input
<1>2. <<UnknownInput>> \in Seq(Input)
  BY <1>1
<1>3. sort \in Seq(Input)
  BY DEF Input
<1> QED BY <1>2, <1>3 DEF SortInputs, Input

(* A plan has a number of sorters. *)
LEMMA SortersAre == ASSUME NEW sorts, IsShape(sorts) PROVE Sorters(sorts) \in Nat
<1> DEFINE Input == [rows : Nat \cup {Absent}, bytes : Nat \cup {Absent}]
           f == [i \in DOMAIN sorts |-> Len(SortInputs(sorts[i]))]
<1>1. sorts \in Seq(Seq(Input))
  BY DEF IsShape
<1>2. ASSUME NEW i \in DOMAIN sorts PROVE Len(SortInputs(sorts[i])) \in Nat
  <2>1. sorts[i] \in Seq(Input)
    BY <1>1
  <2>2. SortInputs(sorts[i]) \in Seq(Input)
    BY <2>1, SortInputsAre
  <2> HIDE DEF Input
  <2> QED BY <2>2
<1>3. DOMAIN sorts = 1..Len(sorts) /\ Len(sorts) \in Nat
  BY <1>1
<1>4. f \in Seq(Nat)
  <2> DEFINE g(i) == Len(SortInputs(sorts[i]))
  <2>1. \A i \in 1..Len(sorts) : g(i) \in Nat
    BY <1>2, <1>3
  <2> HIDE DEF g
  <2>2. [i \in 1..Len(sorts) |-> g(i)] \in Seq(Nat)
    BY <1>3, <2>1
  <2> QED BY <1>3, <2>2 DEF g
<1> QED BY <1>4, SumType DEF Sorters

(* Halves of a share in whole numbers: s sorters of r bytes, where n of them keep
   at most half of the pool. *)
LEMMA HalvesShared ==
  ASSUME NEW pool \in Nat, NEW n \in Nat, n >= 1, NEW r \in Nat, NEW s \in Nat,
         2 * r * n <= pool
  PROVE  2 * (r * s) <= pool * ((s + n - 1) \div n)
<1> DEFINE h == (s + n - 1) \div n
<1>1. h \in Nat /\ s <= h * n
  OBVIOUS
<1> HIDE DEF h
<1>2. 2 * (r * s) <= 2 * (r * (h * n))
  <2> DEFINE x == h * n
  <2>1. x \in Nat /\ s <= x
    BY <1>1
  <2> HIDE DEF x
  <2>2. r * (x - s) >= 0 /\ r * (x - s) = r * x - r * s
    BY <2>1
  <2>3. r * s \in Int /\ r * x \in Int
    BY <2>1
  <2> QED BY <2>2, <2>3 DEF x
<1>3. 2 * (r * (h * n)) = (2 * r * n) * h
  BY <1>1
<1>4. (2 * r * n) * h <= pool * h
  <2> DEFINE y == 2 * r * n
  <2>1. y \in Nat /\ y <= pool
    OBVIOUS
  <2> HIDE DEF y
  <2>2. (pool - y) * h >= 0 /\ (pool - y) * h = pool * h - y * h
    BY <1>1, <2>1
  <2>3. pool * h \in Int /\ y * h \in Int
    BY <1>1, <2>1
  <2> QED BY <2>2, <2>3 DEF y
<1>5. 2 * (r * s) \in Int /\ 2 * (r * (h * n)) \in Int /\ (2 * r * n) * h \in Int /\ pool * h \in Int
  BY <1>1
<1> QED BY <1>2, <1>3, <1>4, <1>5 DEF h

(* A reservation is nothing, or something between the least and half of what a
   partition has. *)
LEMMA ReservationIs ==
  ASSUME NEW sorts, IsShape(sorts), NEW memory \in Nat, NEW r \in Reservations(sorts, memory)
  PROVE  r = Absent \/ (r \in Nat /\ MinReservation <= r /\ r <= memory \div 2)
<1> DEFINE half == memory \div 2
           tenth == memory \div 10
<1>0. half \in Nat /\ tenth \in Nat /\ MinReservation \in Nat /\ BatchSize \in Nat
  BY BudgetsAssumption
<1>7. PICK i \in DOMAIN sorts : \E k \in DOMAIN SortInputs(sorts[i]) :
        r = OrElse(Estimate(SortInputs(sorts[i])[k], memory), Fallback(memory))
  BY DEF Reservations
<1>1. PICK k \in DOMAIN SortInputs(sorts[i]) :
        r = OrElse(Estimate(SortInputs(sorts[i])[k], memory), Fallback(memory))
  BY <1>7
<1> DEFINE p == SortInputs(sorts[i])[k]
           Fits(x) == x = Absent \/ (x \in Nat /\ MinReservation <= x /\ x <= half)
<1>2. p.rows \in Nat \cup {Absent} /\ p.bytes \in Nat \cup {Absent}
  <2> DEFINE Input == [rows : Nat \cup {Absent}, bytes : Nat \cup {Absent}]
             s == SortInputs(sorts[i])
  <2>1. sorts[i] \in Seq(Input)
    BY DEF IsShape
  <2>2. s \in Seq(Input)
    BY <2>1, SortInputsAre
  <2>3. k \in DOMAIN s
    BY <1>1
  <2> HIDE DEF Input, s
  <2>4. s[k] \in Input
    BY <2>2, <2>3
  <2> QED BY <2>4 DEF Input, s
<1> HIDE DEF p, half, tenth
<1>3. ASSUME NEW n \in Nat, ~(half < MinReservation) PROVE Fits(Clamp(n, MinReservation, half))
  BY <1>0, <1>3 DEF Clamp
<1>4. Fits(Fallback(memory))
  <2>1. CASE half >= MinReservation
    <3>1. Fallback(memory) = Clamp(tenth, MinReservation, half)
      BY <2>1 DEF Fallback, half, tenth
    <3> QED BY <1>0, <1>3, <2>1, <3>1
  <2>2. CASE ~(half >= MinReservation)
    BY <2>2 DEF Fallback, half
  <2> QED BY <2>1, <2>2
<1>5. Fits(Estimate(p, memory))
  <2> DEFINE average == p.bytes \div AtLeast(1, p.rows)
             files == AtLeast(1, p.bytes \div memory)
             n == files * BatchSize * average
  <2>1. CASE \/ p.rows = Absent \/ p.bytes = Absent \/ memory = 0 \/ average = 0
             \/ half < MinReservation
    BY <2>1 DEF Estimate, half
  <2>2. CASE ~(\/ p.rows = Absent \/ p.bytes = Absent \/ memory = 0 \/ average = 0
               \/ half < MinReservation)
    <3>1. p.rows \in Nat /\ p.bytes \in Nat /\ memory # 0 /\ ~(half < MinReservation)
      BY <1>2, <2>2
    <3>2. AtLeast(1, p.rows) \in Nat /\ AtLeast(1, p.rows) >= 1
      BY <3>1 DEF AtLeast
    <3>3. average \in Nat
      BY <3>1, <3>2
    <3>4. p.bytes \div memory \in Nat
      BY <3>1
    <3>5. files \in Nat
      BY <3>4 DEF AtLeast
    <3>6. Estimate(p, memory) = Clamp(n, MinReservation, half)
      BY <2>2 DEF Estimate, half
    <3> HIDE DEF average, files
    <3>7. n \in Nat
      BY <1>0, <3>3, <3>5
    <3> HIDE DEF n
    <3> QED BY <1>3, <3>1, <3>6, <3>7
  <2> QED BY <2>1, <2>2
<1>6. Fits(r)
  BY <1>1, <1>4, <1>5 DEF OrElse, p
<1> QED BY <1>6 DEF half

(* The reservation of the sorts of a plan is at most half of a partition's
   memory. *)
LEMMA SortReservationIs ==
  ASSUME NEW sorts, IsShape(sorts), NEW memory \in Nat
  PROVE  LET r == SortReservation(sorts, memory)
         IN r = Absent \/ (r \in Nat /\ MinReservation <= r /\ r <= memory \div 2)
<1> DEFINE S == {Absent} \cup Reservations(sorts, memory)
           half == memory \div 2
<1>1. \A r \in S : r = Absent \/ (r \in Nat /\ MinReservation <= r /\ r <= half)
  BY ReservationIs
<1>2. half \in Nat /\ Absent = -1 /\ MinReservation \in Nat
  BY BudgetsAssumption DEF Absent
<1>3. S # {}
  OBVIOUS
<1>4. SortReservation(sorts, memory) = Max(S)
  BY DEF SortReservation
<1> HIDE DEF S, half
<1>5. half \in Int /\ \A r \in S : r \in Int /\ r <= half
  BY <1>1, <1>2
<1>6. Max(S) \in S
  BY <1>3, <1>5, MaxIs
<1> QED BY <1>1, <1>4, <1>6 DEF half

-----------------------------------------------------------------------------
(* The budget *)

(* What is known of a plan's sorts: SortShapes, or that there is none. *)
Shapes == SortShapes \cup {<<>>}

LEMMA ShapesAre == ASSUME NEW sorts \in Shapes PROVE IsShape(sorts)
<1>1. IsShape(<<>>)
  BY DEF IsShape
<1> QED BY <1>1, CommandAssumption DEF Shapes

(* A budget of machine m. *)
IsBudget(b, m) ==
  b = [cpus |-> Cpus(m), total |-> ResolveMemory(Args.memory, m), machine |-> TotalMemory(m),
       pool |-> Pool(m),
       reserve |-> IF Given(Args.reserve) THEN ReserveBytes(Args.reserve, Pool(m)) ELSE Absent,
       partitions |-> TargetPartitions(Args.preserve, Args.targetPartitions, HasSort, Cpus(m)),
       reservation |-> b.reservation]

(* The memory of each of the partitions that sort. *)
SortMemory(b) == MemoryPerPartition(b.pool, OrElse(b.partitions, ThreeQuarters(b.cpus)))

(* Its reserve was accepted, and its reservation is that of a plan with sorts. *)
BudgetIs(b, m) ==
  /\ IsBudget(b, m)
  /\ Given(Args.reserve) => ~ReserveRefused(Args.reserve, Pool(m))
  /\ b.reservation # Absent =>
       HasSort /\ \E sorts \in Shapes : b.reservation = SortReservation(sorts, SortMemory(b))
HasBudget == budget # None \/ phase # "options"
Reserved == budget.reservation # Absent
BudgetInv == HasBudget =>
  /\ \E m \in Machines : BudgetIs(budget, m)
  /\ Reserved => plan.sorts \in Shapes

(* It depends on the command line alone. *)
LEMMA BudgetOfArgs ==
  ASSUME chosen' = chosen, NEW m \in Machines, BudgetIs(budget', m),
         Reserved' => plan'.sorts \in Shapes
  PROVE  BudgetInv'
<1>1. BudgetIs(budget, m)'
  BY DEF BudgetIs, IsBudget, SortMemory, Cpus, Pool, Args, HasSort
<1>2. Shapes' = Shapes
  BY DEF Shapes
<1> QED BY <1>1, <1>2 DEF BudgetInv

(* Steps that leave the budget as it is. *)
LEMMA BudgetStays ==
  ASSUME BudgetInv, budget' = budget, HasBudget' => HasBudget /\ chosen' = chosen,
         plan' = plan \/ plan'.sorts \in Shapes
  PROVE  BudgetInv'
<1>1. CASE ~HasBudget'
  BY <1>1 DEF BudgetInv
<1>2. CASE HasBudget /\ chosen' = chosen
  <2>1. PICK m \in Machines : BudgetIs(budget, m)
    BY <1>2 DEF BudgetInv
  <2>2. BudgetIs(budget', m)
    BY <2>1
  <2>3. Reserved' => plan'.sorts \in Shapes
    BY <1>2 DEF BudgetInv, Reserved
  <2> QED BY <1>2, <2>2, <2>3, BudgetOfArgs
<1> QED BY <1>1, <1>2

(* The options give the budget of the machine. *)
LEMMA BudgetChosen ==
  ASSUME BudgetInv, Options, chosen' = chosen
  PROVE  BudgetInv'
<1>1. CASE budget' = budget /\ phase' = phase
  BY <1>1, BudgetStays DEF HasBudget, Options
<1>2. CASE ~(budget' = budget /\ phase' = phase)
  <2>1. PICK m \in Machines : budget' = Budget(m)
          /\ ~(\/ Args.preserve /\ Len(Args.references) # 1
               \/ Given(Args.reserve) /\ ReserveRefused(Args.reserve, Pool(m)))
    BY <1>2 DEF Options
  <2>2. budget'.reservation = Absent
    BY <2>1 DEF Budget
  <2>3. IsBudget(budget', m)
    BY <2>1, <2>2 DEF IsBudget, Budget
  <2>4. BudgetIs(budget', m)
    BY <2>1, <2>2, <2>3 DEF BudgetIs
  <2>5. ~Reserved'
    BY <2>2 DEF Reserved
  <2> QED BY <2>4, <2>5, BudgetOfArgs
<1> QED BY <1>1, <1>2

(* A plan whose sorts get their reservation. *)
LEMMA BudgetAdded ==
  ASSUME BudgetInv, HasBudget, chosen' = chosen, budget' # budget, plan'.sorts \in Shapes,
         NEW columns, NEW sorts \in Shapes, Planned(columns, sorts, TRUE)
  PROVE  BudgetInv'
<1> DEFINE r == SortReservation(sorts, MemoryPerPartition(budget.pool, SortPartitions))
           b == budget'
<1>0. budget' = IF HasSort THEN [budget EXCEPT !.reservation = r] ELSE budget
  BY DEF Planned
<1> HIDE DEF r
<1>1. HasSort /\ budget' = [budget EXCEPT !.reservation = r]
  BY <1>0
<1>2. PICK m \in Machines : BudgetIs(budget, m)
  BY DEF BudgetInv
<1>3. IsBudget(budget, m)
  BY <1>2 DEF BudgetIs
<1>4. IsBudget(b, m) /\ b.reservation = r /\ b.pool = budget.pool
      /\ b.partitions = budget.partitions /\ b.cpus = budget.cpus
  <2> SUFFICES ASSUME NEW c, c = [budget EXCEPT !.reservation = r]
               PROVE  /\ IsBudget(c, m) /\ c.reservation = r /\ c.pool = budget.pool
                      /\ c.partitions = budget.partitions /\ c.cpus = budget.cpus
    BY <1>1
  <2> QED BY <1>3 DEF IsBudget
<1>5. r = SortReservation(sorts, SortMemory(b))
  BY <1>4 DEF SortMemory, SortPartitions, r
<1>6. BudgetIs(b, m)
  BY <1>1, <1>2, <1>4, <1>5 DEF BudgetIs
<1> QED BY <1>6, BudgetOfArgs

(* The plan adds the reservation of its sorts. *)
LEMMA BudgetPlanned ==
  ASSUME BudgetInv, Plan, chosen' = chosen
  PROVE  BudgetInv'
<1>0. HasBudget
  BY DEF Plan, Running, HasBudget
<1>3. CASE FailCommand("Plan")
  <2>1. budget' = budget /\ plan' = plan
    BY <1>3 DEF FailCommand
  <2> QED BY <1>0, <2>1, BudgetStays
<1>4. CASE ~FailCommand("Plan")
  <2> DEFINE C == IF Given(Args.query) THEN QueryColumns ELSE {Columns}
             S == IF FullSort = <<>> THEN {<<>>} ELSE SortShapes
  <2>0. FailCommand("Plan") \/ \E columns \in C, sorts \in S : Planned(columns, sorts, TRUE)
    BY DEF Plan
  <2>1. S \subseteq Shapes
    BY DEF Shapes
  <2> HIDE DEF C, S
  <2>2. PICK columns \in C, sorts \in Shapes : Planned(columns, sorts, TRUE)
    BY <1>4, <2>0, <2>1
  <2>3. plan'.sorts \in Shapes
    BY <2>2 DEF Planned
  <2>4. CASE budget' = budget
    BY <1>0, <2>3, <2>4, BudgetStays
  <2>5. CASE budget' # budget
    BY <1>0, <2>2, <2>3, <2>5, BudgetAdded
  <2> QED BY <2>4, <2>5
<1> QED BY <1>3, <1>4

(* There is no budget before the options. *)
LEMMA BudgetInvInit == CommandInit => BudgetInv
BY DEF CommandInit, InputsInit, BudgetInv, HasBudget

(* Every step keeps the invariant of the budget. *)
LEMMA BudgetInvStep ==
  ASSUME ChosenInv, BudgetInv, [CommandNext]_commandState
  PROVE  BudgetInv'
<1>1. CASE CatalogNext /\ UNCHANGED <<inputVars, commandVars>>
  <2>1. budget' = budget /\ phase' = phase /\ plan' = plan
    BY <1>1 DEF commandVars, inputVars
  <2>2. CASE BuildFormats \/ BuildServices \/ FromParts \/ RunDetect \/ RunInspect
    <3>1. chosen' = chosen
      BY <2>2 DEF BuildFormats, BuildServices, FromParts, RunDetect, RunInspect, End
    <3> QED BY <2>1, <3>1, BudgetStays DEF HasBudget
  <2>3. CASE BindDetect \/ BindInspect
    <3>1. stage = "assembled"
      BY <2>3 DEF BindDetect, BindInspect, Bind
    <3>2. budget = None /\ phase = "options"
      BY <3>1 DEF ChosenInv, Choosing, Untouched
    <3> QED BY <2>1, <3>2, BudgetStays DEF HasBudget
  <2> QED BY <1>1, <2>2, <2>3 DEF CatalogNext
<1>2. CASE BindTransform
  <2>1. stage = "assembled" /\ budget' = budget /\ phase' = phase /\ plan' = plan
    BY <1>2 DEF BindTransform, Bind, commandVars, inputVars
  <2>2. budget = None /\ phase = "options"
    BY <2>1 DEF ChosenInv, Choosing, Untouched
  <2> QED BY <2>1, <2>2, BudgetStays DEF HasBudget
<1>3. CASE RunCommand
  <2>1. chosen' = chosen
    BY <1>3 DEF RunCommand
  <2>2. CASE Options
    BY <2>1, <2>2, BudgetChosen
  <2>3. CASE Plan
    BY <2>1, <2>3, BudgetPlanned
  <2>4. CASE \/ UnboundedPlan \/ ServiceOutput \/ Consume \/ WrongOutput
             \/ BindOutput \/ BeginExecution \/ CompleteOutput \/ Write \/ Finish
    <3>1. budget' = budget /\ plan' = plan
      BY <2>4 DEF UnboundedPlan, ServiceOutput, Consume, WrongOutput, BindOutput, BeginExecution,
         CompleteOutput, Write, Finish, FailCommand
    <3>2. phase # "options"
      BY <2>4 DEF UnboundedPlan, ServiceOutput, Consume, WrongOutput, BindOutput, BeginExecution,
         CompleteOutput, Write, Finish, Running
    <3> QED BY <2>1, <3>1, <3>2, BudgetStays DEF HasBudget
  <2> QED BY <1>3, <2>2, <2>3, <2>4 DEF RunCommand
<1>4. CASE MakeInputs
  <2>1. chosen' = chosen /\ budget' = budget /\ plan' = plan
    BY <1>4 DEF MakeInputs
  <2>2. phase # "options"
    BY <1>4 DEF MakeInputs, InputsNext, CheckPatterns, UnsupportedScheme, ServiceInput, FileOperand,
       Identify, StartGroup, ProviderBuilt, InputsDone, Checking, Idle, Running
  <2> QED BY <2>1, <2>2, BudgetStays DEF HasBudget
<1>6. CASE OthersWrite
  <2>1. chosen' = chosen /\ budget' = budget /\ phase' = phase /\ plan' = plan
    BY <1>6 DEF OthersWrite, commandVars, Rewrite
  <2> QED BY <2>1, BudgetStays DEF HasBudget
<1>5. CASE UNCHANGED commandState
  BY <1>5, BudgetStays DEF commandState, catalogVars, commandVars, inputVars, HasBudget
<1> QED BY <1>1, <1>2, <1>3, <1>4, <1>5, <1>6 DEF CommandNext

(* The options of the budget, as they were accepted. *)
LEMMA BudgetOptions ==
  ASSUME CatalogInv, ArgsKnown
  PROVE  /\ Args.targetPartitions \in Nat \cup {Absent} /\ Args.targetPartitions # 0
         /\ ParsedMemory(Args.memory)
         /\ Args.memory.kind \in {"Total", "Available", "Fixed", "Reserve"}
         /\ Args.memory.kind \in {"Fixed", "Reserve"} => Args.memory.bytes \in Nat
         /\ Args.memory.kind # "Fixed" => Args.memory.min \in Nat \cup {Absent}
         /\ Given(Args.reserve) =>
              /\ ParsedReserve(Args.reserve)
              /\ Args.reserve.kind = "Fixed" => Args.reserve.bytes \in Nat
         /\ Given(Args.threads) =>
              /\ ParsedThreads(Args.threads)
              /\ Args.threads.kind = "Fixed" => Args.threads.threads \in Nat
              /\ Args.threads.kind # "Fixed" =>
                   Args.threads.min \in Nat /\ Args.threads.reserve \in Nat
<1> DEFINE a == Args
<1>1. IsArguments(a) /\ Accepted(a)
  BY CommandAssumption DEF CatalogInv, ArgsKnown, Args
<1> HIDE DEF a
<1>2. /\ a.targetPartitions \in Nat \cup {Absent}
      /\ a.memory.kind \in {"Total", "Available", "Fixed", "Reserve"}
      /\ a.memory.kind \in {"Fixed", "Reserve"} => a.memory.bytes \in Nat
      /\ a.memory.kind # "Fixed" => a.memory.min \in Nat \cup {Absent}
      /\ a.reserve # None /\ a.reserve.kind = "Fixed" => a.reserve.bytes \in Nat
  BY <1>1 DEF IsArguments
<1>3. a.threads # None =>
        /\ a.threads.kind = "Fixed" => a.threads.threads \in Nat
        /\ a.threads.kind # "Fixed" => a.threads.min \in Nat /\ a.threads.reserve \in Nat
  <2>1. a.threads # None => CASE a.threads.kind = "Fixed" -> a.threads.threads \in Nat
                              [] OTHER -> {a.threads.min, a.threads.reserve} \subseteq Nat
    BY <1>1 DEF IsArguments
  <2> QED BY <2>1
<1>4. /\ a.targetPartitions # 0 /\ ParsedMemory(a.memory)
      /\ Given(a.reserve) => ParsedReserve(a.reserve)
      /\ Given(a.threads) => ParsedThreads(a.threads)
  BY <1>1 DEF Accepted
<1> QED BY <1>2, <1>3, <1>4 DEF a, Given

(* The threads and the pool. *)
LEMMA CpusAndPool ==
  ASSUME CatalogInv, ArgsKnown, NEW m \in Machines
  PROVE  /\ Cpus(m) \in Nat /\ Cpus(m) >= 1 /\ Pool(m) \in Nat
         /\ ResolveMemory(Args.memory, m) \in Nat
         /\ Args.memory.kind # "Fixed" =>
              ResolveMemory(Args.memory, m) <= AtLeast(OrElse(Args.memory.min, 0), TotalMemory(m))
<1>1. IsMachine(m)
  BY CommandAssumption
<1>2. Cpus(m) \in Nat /\ Cpus(m) >= 1
  <2>1. CASE Given(Args.threads)
    <3> DEFINE s == Args.threads
    <3>1. /\ ParsedThreads(s) /\ s.kind = "Fixed" => s.threads \in Nat
          /\ s.kind # "Fixed" => s.min \in Nat /\ s.reserve \in Nat
      BY <2>1, BudgetOptions
    <3>2. ParsedThreads(s)
      BY <2>1, BudgetOptions
    <3> HIDE DEF s
    <3>3. ResolveThreads(s, m) \in Nat /\ ResolveThreads(s, m) >= 1
      BY <1>1, <3>1, <3>2, ResolvedThreads
    <3> QED BY <2>1, <3>3 DEF Cpus, s
  <2>2. CASE ~Given(Args.threads)
    BY <1>1, <2>2 DEF Cpus, IsMachine
  <2> QED BY <2>1, <2>2
<1> DEFINE s == Args.memory
           t == ResolveMemory(s, m)
<1>3. /\ ParsedMemory(s) /\ s.kind \in {"Total", "Available", "Fixed", "Reserve"}
      /\ s.kind \in {"Fixed", "Reserve"} => s.bytes \in Nat
      /\ s.kind # "Fixed" => s.min \in Nat \cup {Absent}
  BY BudgetOptions
<1> HIDE DEF s
<1>4. t \in Nat /\ (s.kind # "Fixed" => t <= AtLeast(OrElse(s.min, 0), TotalMemory(m)))
  BY <1>1, <1>3, ResolvedMemory
<1> HIDE DEF t
<1>5. PoolBytes(t, HasSort) \in Nat
  BY <1>4 DEF PoolBytes
<1>6. Pool(m) = PoolBytes(t, HasSort)
  BY DEF Pool, s, t
<1> QED BY <1>2, <1>4, <1>5, <1>6 DEF s, t

(* A reserve that was not refused. *)
LEMMA ReserveLeaves ==
  ASSUME NEW s, ParsedReserve(s), s.kind = "Fixed" => s.bytes \in Nat,
         NEW pool \in Nat, ~ReserveRefused(s, pool)
  PROVE  0 < ReserveBytes(s, pool) /\ ReserveBytes(s, pool) < pool
<1>1. pool # 0 /\ (s.kind = "Percent" => ReserveBytes(s, pool) # 0)
      /\ ~(ReserveBytes(s, pool) > pool - 1)
  BY DEF ReserveRefused
<1>2. CASE s.kind = "Percent" /\ s.pct \in 1..99
  <2> DEFINE b == (pool * s.pct) \div 100
  <2>1. s.pct \in 0..100
    BY <1>2
  <2>2. b \in 0..pool
    BY <2>1, Portion100
  <2>3. ReserveBytes(s, pool) = b
    BY <1>2 DEF ReserveBytes
  <2> HIDE DEF b
  <2> QED BY <1>1, <1>2, <2>2, <2>3
<1>3. CASE s.kind = "Fixed" /\ NonZero(s.bytes)
  <2>1. ReserveBytes(s, pool) = s.bytes
    BY <1>3 DEF ReserveBytes
  <2> QED BY <1>1, <1>3, <2>1 DEF NonZero
<1> QED BY <1>2, <1>3 DEF ParsedReserve

(* A budget of a machine fits. *)
LEMMA BudgetKnown == CatalogInv /\ ChosenInv /\ BudgetInv => BudgetsFit
<1> SUFFICES ASSUME CatalogInv, ChosenInv, BudgetInv, budget # None PROVE BudgetsFit
  BY DEF BudgetsFit
<1>1. ArgsKnown
  BY DEF ChosenInv
<1>2. PICK m \in Machines : BudgetIs(budget, m)
  BY DEF BudgetInv, HasBudget
<1> DEFINE cpus == Cpus(m)
           pool == Pool(m)
           total == ResolveMemory(Args.memory, m)
           n == TargetPartitions(Args.preserve, Args.targetPartitions, HasSort, cpus)
           r == budget.reservation
<1>3. /\ budget.cpus = cpus /\ budget.pool = pool /\ budget.total = total
      /\ budget.machine = TotalMemory(m) /\ budget.partitions = n
      /\ budget.reserve = IF Given(Args.reserve) THEN ReserveBytes(Args.reserve, pool) ELSE Absent
  BY <1>2 DEF BudgetIs, IsBudget
<1>4. /\ cpus \in Nat /\ cpus >= 1 /\ pool \in Nat /\ total \in Nat
      /\ Args.memory.kind # "Fixed" =>
           total <= AtLeast(OrElse(Args.memory.min, 0), TotalMemory(m))
  BY <1>1, CpusAndPool
<1>5. Args.targetPartitions \in Nat \cup {Absent} /\ Args.targetPartitions # 0
  BY <1>1, BudgetOptions
<1>6. /\ Given(Args.reserve) => ~ReserveRefused(Args.reserve, pool)
      /\ r # Absent => HasSort /\ \E sorts \in Shapes : r = SortReservation(sorts, SortMemory(budget))
  BY <1>2 DEF BudgetIs
<1> HIDE DEF cpus, pool, total, n, r
<1>7. ThreeQuarters(cpus) \in Nat /\ ThreeQuarters(cpus) >= 1
  BY <1>4 DEF ThreeQuarters, AtLeast
<1>8. OutputThreads(cpus, HasSort) >= 1
  BY <1>4, <1>7 DEF OutputThreads, AtLeast
<1>9. n # Absent => n \in Nat /\ n >= 1
  BY <1>5, <1>7 DEF TargetPartitions, n
<1>10. HasSort => n # Absent
  BY <1>5, <1>7 DEF TargetPartitions, n, Absent
<1>11. Given(Args.reserve) => 0 < budget.reserve /\ budget.reserve < pool
  <2> SUFFICES ASSUME Given(Args.reserve)
               PROVE  0 < budget.reserve /\ budget.reserve < pool
    OBVIOUS
  <2> DEFINE s == Args.reserve
  <2>1. ParsedReserve(s)
    BY <1>1, BudgetOptions
  <2>2. s.kind = "Fixed" => s.bytes \in Nat
    BY <1>1, BudgetOptions
  <2>3. ~ReserveRefused(s, pool) /\ budget.reserve = ReserveBytes(s, pool)
    BY <1>3, <1>6
  <2> HIDE DEF s
  <2> QED BY <1>4, <2>1, <2>2, <2>3, ReserveLeaves
<1> DEFINE sorters == Sorters(plan.sorts)
<1>12. r # Absent =>
         r >= MinReservation /\ 2 * (r * sorters) <= pool * ((sorters + n - 1) \div n)
  <2> SUFFICES ASSUME r # Absent
               PROVE  /\ r >= MinReservation
                      /\ 2 * (r * sorters) <= pool * ((sorters + n - 1) \div n)
    OBVIOUS
  <2>1. HasSort /\ n # Absent /\ n \in Nat /\ n >= 1
    BY <1>6, <1>9, <1>10
  <2>2. PICK sorts \in Shapes : r = SortReservation(sorts, SortMemory(budget))
    BY <1>6
  <2>3. SortMemory(budget) = pool \div n
    BY <1>3, <2>1 DEF SortMemory, MemoryPerPartition, OrElse, AtLeast
  <2> DEFINE memory == pool \div n
  <2>4. memory \in Nat
    BY <1>4, <2>1
  <2>5. IsShape(sorts)
    BY ShapesAre
  <2> HIDE DEF memory
  <2>6. r = SortReservation(sorts, memory)
    BY <2>2, <2>3 DEF memory
  <2>7. r \in Nat /\ MinReservation <= r /\ r <= memory \div 2
    BY <2>4, <2>5, <2>6, SortReservationIs
  <2>8. MinReservation \in Nat
    BY BudgetsAssumption
  <2>9. r >= MinReservation
    BY <2>7, <2>8
  <2>10. 2 * r * n <= pool
    BY <1>4, <2>1, <2>7, HalfShared DEF memory
  <2>11. plan.sorts \in Shapes
    BY DEF BudgetInv, HasBudget, Reserved, r
  <2>12. sorters \in Nat
    BY <2>11, ShapesAre, SortersAre
  <2> HIDE DEF sorters
  <2>13. 2 * (r * sorters) <= pool * ((sorters + n - 1) \div n)
    BY <1>4, <2>1, <2>7, <2>10, <2>12, HalvesShared
  <2> QED BY <2>9, <2>13
<1> QED BY <1>3, <1>4, <1>8, <1>9, <1>11, <1>12 DEF BudgetsFit, r, sorters

(***************************************************************************)
(* BudgetsFit, for any machine, command line and plan: the partitions of   *)
(* all sorts keep at most half of the pool for their merges where there    *)
(* are no more of them than the pool was divided by, and at most k halves  *)
(* where there are up to k times as many, the reserve leaves something,    *)
(* and no division has a divisor of zero (options.rs, sort_memory.rs).     *)
(***************************************************************************)
THEOREM BudgetsAreKept == CommandSpec => []BudgetsFit
<1>1. CommandSpec => [](CatalogInv /\ ChosenInv /\ BudgetInv)
  <2>1. CommandInit => CatalogInv /\ ChosenInv /\ BudgetInv
    BY CatalogInvInit, ChosenInvInit, BudgetInvInit
  <2>2. CatalogInv /\ ChosenInv /\ BudgetInv /\ [CommandNext]_commandState
          => (CatalogInv /\ ChosenInv /\ BudgetInv)'
    BY CatalogInvStep, ChosenInvStep, BudgetInvStep
  <2> QED BY <2>1, <2>2, PTL DEF CommandSpec, commandState
<1> QED BY <1>1, BudgetKnown, PTL

-----------------------------------------------------------------------------
(* Sort orders *)

(* No column name twice. *)
Distinct(s) == \A i, j \in 1..Len(s) : s[i].name = s[j].name => i = j

(* Place i of s is the first with its name. *)
IsFirst(s, i) == \A j \in 1..(i - 1) : s[j].name # s[i].name

(* u keeps the columns of s whose name comes for the first time. *)
KeepsFirst(e, s, u) ==
  /\ e \in Seq(DOMAIN s) /\ Len(e) \in Nat /\ u = [k \in 1..Len(e) |-> s[e[k]]]
  /\ \A k \in 1..Len(e) : e[k] \in DOMAIN s
  /\ \A j, k \in 1..Len(e) : j < k => e[j] < e[k]
  /\ \A i \in DOMAIN s : IsFirst(s, i) <=> \E k \in 1..Len(e) : e[k] = i

(* The places of an order and their columns. *)
Places(s) == [i \in DOMAIN s |-> [at |-> i, c |-> s[i]]]

(* Unique keeps the places whose name comes for the first time. *)
LEMMA UniqueIs ==
  ASSUME NEW s
  PROVE  /\ Unique(s) = Filtered(Places(s), {i \in DOMAIN s : IsFirst(s, i)})
         /\ DOMAIN Places(s) = DOMAIN s
         /\ \A i \in DOMAIN s : Places(s)[i].at = i /\ Places(s)[i].c = s[i]
<1> DEFINE x == Places(s)
           T == {i \in DOMAIN s : IsFirst(s, i)}
<1>1. DOMAIN x = DOMAIN s /\ \A i \in DOMAIN s : x[i].at = i /\ x[i].c = s[i]
  BY DEF Places
<1>2. \A i \in DOMAIN s : (\A j \in 1..(x[i].at - 1) : s[j].name # x[i].c.name) <=> i \in T
  BY <1>1 DEF IsFirst
<1>3. Unique(s) = FlattenSeq([i \in DOMAIN x |->
        IF \A j \in 1..(x[i].at - 1) : s[j].name # x[i].c.name THEN <<x[i]>> ELSE <<>>])
  BY DEF Unique, Filter, Places
<1> HIDE DEF x, T
<1>4. [i \in DOMAIN x |->
        IF \A j \in 1..(x[i].at - 1) : s[j].name # x[i].c.name THEN <<x[i]>> ELSE <<>>]
       = [i \in DOMAIN x |-> IF i \in T THEN <<x[i]>> ELSE <<>>]
  BY <1>1, <1>2
<1>5. Unique(s) = Filtered(x, T)
  BY <1>3, <1>4 DEF Filtered, Passed
<1> QED BY <1>1, <1>5 DEF x, T

(* The places of a list are a list as long. *)
LEMMA PlacesList ==
  ASSUME NEW s, IsList(s)
  PROVE  Places(s) \in Seq(Range(Places(s))) /\ Len(Places(s)) = Len(s) /\ Len(s) \in Nat
         /\ DOMAIN s = 1..Len(s)
<1>1. s \in Seq(Range(s))
  BY DEF IsList
<1>2. DOMAIN s = 1..Len(s) /\ Len(s) \in Nat
  BY <1>1
<1> DEFINE x == Places(s)
<1>3. x = [i \in 1..Len(s) |-> [at |-> i, c |-> s[i]]]
  BY <1>2 DEF Places
<1>4. \A i \in 1..Len(s) : x[i] \in Range(x)
  BY <1>3 DEF Range
<1>5. x = [i \in 1..Len(s) |-> x[i]]
  BY <1>3
<1> HIDE DEF x
<1> DEFINE D == Range(x)
           l == Len(s)
<1>6. l \in Nat /\ \A i \in 1..l : x[i] \in D
  BY <1>2, <1>4
<1>7. x = [i \in 1..l |-> x[i]]
  BY <1>5
<1> HIDE DEF D, l
<1>8. x \in Seq(D) /\ Len(x) = l
  BY <1>6, <1>7
<1> QED BY <1>2, <1>8 DEF x, D, l

(* UniqueByName keeps the columns whose name comes for the first time. *)
LEMMA UniqueByNameIs ==
  ASSUME NEW s, IsList(s)
  PROVE  \E e : KeepsFirst(e, s, UniqueByName(s))
<1> DEFINE x == Places(s)
           T == {i \in DOMAIN s : IsFirst(s, i)}
           r == Unique(s)
<1>1. /\ r = Filtered(x, T) /\ DOMAIN x = DOMAIN s
      /\ \A i \in DOMAIN s : x[i].at = i /\ x[i].c = s[i]
  BY UniqueIs
<1>2. x \in Seq(Range(x))
  BY PlacesList
<1>3. PICK e : IsPick(e, x, T, r)
  <2>1. \E e : IsPick(e, x, T, Filtered(x, T))
    BY <1>2, FilterPicks
  <2> QED BY <1>1, <2>1
<1> DEFINE m == Len(e)
<1> HIDE DEF r, x
<1>4. e \in Seq(DOMAIN s) /\ m \in Nat /\ DOMAIN e = 1..m /\ \A k \in 1..m : e[k] \in DOMAIN s
  BY <1>1, <1>3 DEF IsPick
<1>5. r = [k \in 1..m |-> x[e[k]]]
  BY <1>3 DEF IsPick
<1> HIDE DEF m
<1>6. DOMAIN r = 1..m /\ \A k \in 1..m : r[k].c = s[e[k]]
  BY <1>1, <1>4, <1>5
<1>7. UniqueByName(s) = [i \in DOMAIN r |-> r[i].c]
  BY DEF UniqueByName, r
<1>8. UniqueByName(s) = [k \in 1..m |-> s[e[k]]]
  BY <1>6, <1>7
<1>9. \A j, k \in 1..m : j < k => e[j] < e[k]
  BY <1>3, <1>4 DEF IsPick
<1>10. \A i \in DOMAIN s : IsFirst(s, i) <=> \E k \in 1..m : e[k] = i
  BY <1>1, <1>3, <1>4 DEF IsPick
<1> QED BY <1>4, <1>8, <1>9, <1>10 DEF KeepsFirst, m

(* What is kept is distinct. *)
LEMMA KeptOnes ==
  ASSUME NEW s, IsList(s), NEW e, NEW u, KeepsFirst(e, s, u)
  PROVE  /\ IsList(u) /\ Distinct(u) /\ Len(u) = Len(e) /\ DOMAIN u = 1..Len(e)
         /\ \A k \in 1..Len(e) : u[k] = s[e[k]] /\ e[k] \in DOMAIN s
<1> DEFINE m == Len(e)
<1>1. /\ m \in Nat /\ u = [k \in 1..m |-> s[e[k]]]
      /\ \A k \in 1..m : e[k] \in DOMAIN s /\ IsFirst(s, e[k])
      /\ \A j, k \in 1..m : j < k => e[j] < e[k]
  BY DEF KeepsFirst
<1>2. s \in Seq(Range(s)) /\ DOMAIN s = 1..Len(s) /\ \A i \in DOMAIN s : i \in Nat /\ i > 0
  BY DEF IsList
<1> HIDE DEF m
<1>3. DOMAIN u = 1..m /\ \A k \in 1..m : u[k] = s[e[k]] /\ s[e[k]] \in Range(s)
  BY <1>1 DEF Range
<1>4. u \in Seq(Range(s)) /\ Len(u) = m
  BY <1>1, <1>3
<1>5. IsList(u)
  BY <1>4, RangeIsList DEF IsList
<1>6. ASSUME NEW j \in 1..m, NEW k \in 1..m, j < k PROVE u[j].name # u[k].name
  <2>1. e[j] \in DOMAIN s /\ e[k] \in DOMAIN s /\ e[j] < e[k]
    BY <1>1, <1>6
  <2>2. e[j] \in 1..(e[k] - 1)
    BY <1>2, <2>1
  <2>3. s[e[j]].name # s[e[k]].name
    BY <1>1, <2>2 DEF IsFirst
  <2> QED BY <1>3, <2>3
<1>7. Distinct(u)
  <2> SUFFICES ASSUME NEW i \in 1..m, NEW j \in 1..m, u[i].name = u[j].name PROVE i = j
    BY <1>4 DEF Distinct
  <2>1. i \in Nat /\ j \in Nat
    BY <1>1
  <2>2. ~(i < j) /\ ~(j < i)
    BY <1>6
  <2> QED BY <2>1, <2>2
<1> QED BY <1>1, <1>3, <1>4, <1>5, <1>7 DEF m

(* An order of distinct columns stays as it is. *)
LEMMA DistinctStays ==
  ASSUME NEW s, IsList(s), Distinct(s)
  PROVE  UniqueByName(s) = s
<1> DEFINE x == Places(s)
           T == {i \in DOMAIN s : IsFirst(s, i)}
           n == Len(s)
<1>1. x \in Seq(Range(x)) /\ Len(x) = n /\ n \in Nat /\ DOMAIN s = 1..n
  BY PlacesList
<1>2. 1..n \subseteq T
  <2> SUFFICES ASSUME NEW i \in 1..n, NEW j \in 1..(i - 1) PROVE s[j].name # s[i].name
    BY <1>1 DEF IsFirst
  <2>1. j \in 1..n /\ j # i
    BY <1>1
  <2> QED BY <2>1 DEF Distinct
<1>3. Unique(s) = Filtered(x, T) /\ \A i \in 1..n : x[i].c = s[i]
  BY <1>1, UniqueIs
<1> HIDE DEF x, T
<1>4. Filtered(x, T) = x
  BY <1>1, <1>2, FilterAll
<1>5. DOMAIN x = 1..n
  BY <1>1
<1>6. UniqueByName(s) = [i \in 1..n |-> s[i]]
  BY <1>3, <1>4, <1>5 DEF UniqueByName
<1>7. s = [i \in 1..n |-> s[i]]
  <2>1. s \in Seq(Range(s))
    BY DEF IsList
  <2> QED BY <2>1
<1> QED BY <1>6, <1>7

-----------------------------------------------------------------------------
(* The orders of the command *)

(* Given(Args.by) names a list of columns, and so does Given(Args.sortBy). *)
OrdersGiven == IsList(By) /\ (Given(Args.sortBy) => IsList(Args.sortBy))

(* The orders of an accepted command line are lists. *)
LEMMA OrdersAreGiven ==
  ASSUME CatalogInv, ArgsKnown
  PROVE  OrdersGiven
<1> DEFINE a == Args
<1>1. IsArguments(a)
  BY CommandAssumption DEF CatalogInv, ArgsKnown, Args
<1> HIDE DEF a
<1>2. (a.by # None => IsList(a.by)) /\ (a.sortBy # None => IsList(a.sortBy))
  BY <1>1 DEF IsArguments
<1> QED BY <1>2, ListOfNothing DEF OrdersGiven, By, Given, a

(* The columns the user sorts by, but for those of the partitions. *)
LEMMA UserSortIs ==
  ASSUME OrdersGiven
  PROVE  /\ IsList(UserSortInFile) /\ Distinct(UserSortInFile)
         /\ \A i \in 1..Len(UserSortInFile) : UserSortInFile[i].name \notin Range(By)
<1> DEFINE s == UserSort
           u == UserSortInFile
           T == {i \in DOMAIN s : s[i].name \notin Range(By)}
<1>1. IsList(s) /\ Distinct(s)
  <2>1. CASE Given(Args.sortBy)
    <3>1. IsList(Args.sortBy) /\ s = UniqueByName(Args.sortBy)
      BY <2>1 DEF OrdersGiven, UserSort
    <3> QED BY <3>1, UniqueByNameIs, KeptOnes
  <2>2. CASE ~Given(Args.sortBy)
    <3>1. s = <<>> /\ Len(<<>>) = 0
      BY <2>2 DEF UserSort
    <3> QED BY <3>1, ListOfNothing DEF Distinct
  <2> QED BY <2>1, <2>2
<1>2. u = FlattenSeq([i \in DOMAIN s |-> IF s[i].name \notin Range(By) THEN <<s[i]>> ELSE <<>>])
  BY DEF UserSortInFile, Filter
<1>3. [i \in DOMAIN s |-> IF s[i].name \notin Range(By) THEN <<s[i]>> ELSE <<>>]
        = [i \in DOMAIN s |-> IF i \in T THEN <<s[i]>> ELSE <<>>]
  OBVIOUS
<1>4. u = Filtered(s, T)
  BY <1>2, <1>3 DEF Filtered, Passed
<1>5. s \in Seq(Range(s)) /\ DOMAIN s = 1..Len(s) /\ Len(s) \in Nat
  BY <1>1 DEF IsList
<1>6. PICK e : IsPick(e, s, T, u)
  BY <1>4, <1>5, FilterPicks
<1> DEFINE m == Len(e)
<1> HIDE DEF s, u
<1>7. e \in Seq(DOMAIN s) /\ m \in Nat /\ DOMAIN e = 1..m /\ \A k \in 1..m : e[k] \in DOMAIN s
  BY <1>6 DEF IsPick
<1>8. u = [k \in 1..m |-> s[e[k]]] /\ \A k \in 1..m : e[k] \in T
  BY <1>6, <1>7 DEF IsPick
<1>9. \A j, k \in 1..m : j < k => e[j] < e[k]
  BY <1>6, <1>7 DEF IsPick
<1> HIDE DEF m, T
<1>10. DOMAIN u = 1..m /\ \A k \in 1..m : u[k] = s[e[k]] /\ s[e[k]] \in Range(s)
  BY <1>7, <1>8 DEF Range
<1>11. u \in Seq(Range(s)) /\ Len(u) = m
  BY <1>7, <1>8, <1>10
<1>12. IsList(u)
  BY <1>11, RangeIsList DEF IsList
<1>13. Distinct(u)
  <2> SUFFICES ASSUME NEW i \in 1..m, NEW j \in 1..m, u[i].name = u[j].name PROVE i = j
    BY <1>11 DEF Distinct
  <2>1. e[i] = e[j]
    BY <1>1, <1>5, <1>7, <1>10 DEF Distinct
  <2>2. e[i] \in Nat /\ e[j] \in Nat
    BY <1>5, <1>7
  <2> QED BY <1>9, <2>1, <2>2
<1>14. \A i \in 1..m : u[i].name \notin Range(By)
  BY <1>8, <1>10 DEF T
<1> QED BY <1>11, <1>12, <1>13, <1>14 DEF u

(* A function on 1..n is a list. *)
LEMMA FunctionIsList ==
  ASSUME NEW n \in Nat, NEW f, f = [i \in 1..n |-> f[i]]
  PROVE  IsList(f) /\ Len(f) = n
<1>1. DOMAIN f = 1..n
  OBVIOUS
<1> DEFINE D == Range(f)
<1>2. \A i \in 1..n : f[i] \in D
  BY <1>1 DEF Range
<1> HIDE DEF D
<1>3. f \in Seq(D) /\ Len(f) = n
  BY <1>2
<1> QED BY <1>3 DEF IsList, D

(* The columns of the partitions, each once. *)
LEMMA PartitionSortIs ==
  ASSUME OrdersGiven
  PROVE  /\ IsList(PartitionSort) /\ Distinct(PartitionSort)
         /\ \A i \in 1..Len(PartitionSort) : PartitionSort[i].name \in Range(By)
         /\ Args.strategy = "sort-single" => \A c \in Range(By) :
              \E i \in 1..Len(PartitionSort) : PartitionSort[i].name = c
<1>1. CASE Args.strategy # "sort-single"
  <2>1. PartitionSort = <<>> /\ Len(<<>>) = 0
    BY <1>1 DEF PartitionSort
  <2> QED BY <1>1, <2>1, ListOfNothing DEF Distinct
<1>2. CASE Args.strategy = "sort-single"
  <2> DEFINE b == By
             n == Len(b)
             w == [i \in DOMAIN b |-> [name |-> b[i], desc |-> FALSE]]
             u == UniqueByName(w)
  <2>1. b \in Seq(Range(b))
    BY DEF OrdersGiven, IsList
  <2>2. PartitionSort = u
    BY <1>2 DEF PartitionSort, Ascending
  <2> HIDE DEF b
  <2>3. DOMAIN b = 1..n /\ n \in Nat
    BY <2>1
  <2>4. w = [i \in 1..n |-> w[i]] /\ \A i \in 1..n : w[i].name = b[i]
    BY <2>3
  <2> HIDE DEF w
  <2>5. IsList(w) /\ Len(w) = n
    BY <2>3, <2>4, FunctionIsList
  <2>6. PICK e : KeepsFirst(e, w, u)
    BY <2>5, UniqueByNameIs
  <2>7. /\ IsList(u) /\ Distinct(u) /\ Len(u) = Len(e)
        /\ \A k \in 1..Len(e) : u[k] = w[e[k]] /\ e[k] \in DOMAIN w
    BY <2>5, <2>6, KeptOnes
  <2>8. DOMAIN w = 1..n
    BY <2>4
  <2> HIDE DEF u
  <2>9. \A i \in 1..Len(u) : u[i].name \in Range(b)
    <3> SUFFICES ASSUME NEW i \in 1..Len(u) PROVE u[i].name \in Range(b)
      OBVIOUS
    <3>1. e[i] \in 1..n /\ u[i].name = b[e[i]]
      BY <2>4, <2>7, <2>8
    <3> QED BY <2>3, <3>1 DEF Range
  <2>10. ASSUME NEW c \in Range(b) PROVE \E i \in 1..Len(u) : u[i].name = c
    <3> DEFINE I == {i \in 1..n : b[i] = c}
    <3>1. I \subseteq Nat /\ I # {}
      BY <2>3 DEF Range
    <3>2. PICK i \in I : \A j \in I : i <= j
      <4> HIDE DEF I
      <4> QED BY <3>1, LeastNumber
    <3>3. i \in 1..n /\ b[i] = c
      OBVIOUS
    <3>4. IsFirst(w, i)
      <4> SUFFICES ASSUME NEW j \in 1..(i - 1) PROVE w[j].name # w[i].name
        BY DEF IsFirst
      <4>1. j \in 1..n /\ ~(i <= j)
        BY <2>3, <3>3
      <4>2. b[j] # c
        BY <3>2, <4>1
      <4> QED BY <2>4, <3>3, <4>1, <4>2
    <3>5. PICK k \in 1..Len(e) : e[k] = i
      BY <2>6, <2>8, <3>3, <3>4 DEF KeepsFirst
    <3>6. u[k].name = c
      BY <2>4, <2>7, <3>3, <3>5
    <3> QED BY <2>7, <3>6
  <2> QED BY <2>2, <2>7, <2>9, <2>10 DEF b
<1> QED BY <1>1, <1>2

(* The columns of the partitions, and then the user's. *)
LEMMA FullSortIs ==
  ASSUME OrdersGiven
  PROVE  FullSort = PartitionSort \o UserSortInFile
<1> DEFINE p == PartitionSort
           u == UserSortInFile
           w == p \o u
           m == Len(p)
           n == Len(u)
<1>1. /\ IsList(p) /\ Distinct(p) /\ \A i \in 1..m : p[i].name \in Range(By)
      /\ IsList(u) /\ Distinct(u) /\ \A i \in 1..n : u[i].name \notin Range(By)
  BY PartitionSortIs, UserSortIs
<1>2. FullSort = UniqueByName(w)
  BY DEF FullSort
<1> HIDE DEF p, u
<1> DEFINE S == Range(p) \cup Range(u)
<1>3. p \in Seq(S) /\ u \in Seq(S) /\ m \in Nat /\ n \in Nat
  BY <1>1 DEF IsList
<1>4. w \in Seq(S) /\ Len(w) = m + n
      /\ \A i \in 1..(m + n) : w[i] = IF i <= m THEN p[i] ELSE u[i - m]
  BY <1>3, ConcatProperties
<1>5. IsList(w)
  BY <1>1, ListConcat
<1> HIDE DEF w, m, n
<1>6. ASSUME NEW i \in 1..(m + n), NEW j \in 1..(m + n), w[i].name = w[j].name PROVE i = j
  <2>1. CASE i <= m /\ j <= m
    <3>1. i \in 1..m /\ j \in 1..m /\ w[i] = p[i] /\ w[j] = p[j]
      BY <1>3, <1>4, <2>1
    <3> QED BY <1>1, <1>6, <3>1 DEF Distinct, m
  <2>2. CASE ~(i <= m) /\ ~(j <= m)
    <3>1. i - m \in 1..n /\ j - m \in 1..n /\ w[i] = u[i - m] /\ w[j] = u[j - m]
      BY <1>3, <1>4, <2>2
    <3>2. i - m = j - m
      BY <1>1, <1>6, <3>1 DEF Distinct, n
    <3> QED BY <1>3, <3>2
  <2>3. CASE i <= m /\ ~(j <= m)
    <3>1. i \in 1..m /\ j - m \in 1..n /\ w[i] = p[i] /\ w[j] = u[j - m]
      BY <1>3, <1>4, <2>3
    <3> QED BY <1>1, <1>6, <3>1
  <2>4. CASE ~(i <= m) /\ j <= m
    <3>1. j \in 1..m /\ i - m \in 1..n /\ w[j] = p[j] /\ w[i] = u[i - m]
      BY <1>3, <1>4, <2>4
    <3> QED BY <1>1, <1>6, <3>1
  <2> QED BY <2>1, <2>2, <2>3, <2>4
<1>7. Distinct(w)
  BY <1>4, <1>6 DEF Distinct
<1>8. UniqueByName(w) = w
  BY <1>5, <1>7, DistinctStays
<1> QED BY <1>2, <1>8 DEF w, p, u

(* Rows of one partition in the order of the whole are in the user's order. *)
LEMMA OrderlyInPartition ==
  ASSUME OrdersGiven, NEW r, NEW s, \A c \in Range(By) : r[c] = s[c],
         Orderly(PartitionSort \o UserSortInFile, r, s)
  PROVE  Orderly(UserSortInFile, r, s)
<1> DEFINE p == PartitionSort
           u == UserSortInFile
           w == p \o u
           m == Len(p)
           n == Len(u)
<1>1. /\ IsList(p) /\ \A i \in 1..m : p[i].name \in Range(By)
      /\ IsList(u)
  BY PartitionSortIs, UserSortIs
<1>2. Orderly(w, r, s)
  OBVIOUS
<1> HIDE DEF p, u
<1> DEFINE S == Range(p) \cup Range(u)
<1>3. p \in Seq(S) /\ u \in Seq(S) /\ m \in Nat /\ n \in Nat /\ DOMAIN u = 1..n
  BY <1>1 DEF IsList
<1>4. w \in Seq(S) /\ Len(w) = m + n
      /\ \A i \in 1..(m + n) : w[i] = IF i <= m THEN p[i] ELSE u[i - m]
  BY <1>3, ConcatProperties
<1>5. DOMAIN w = 1..(m + n)
  BY <1>4
<1> HIDE DEF w, m, n
<1>6. SUFFICES ASSUME NEW k \in 1..n, \A j \in 1..(k - 1) : r[u[j].name] = s[u[j].name]
               PROVE  IF u[k].desc THEN r[u[k].name] >= s[u[k].name]
                      ELSE r[u[k].name] <= s[u[k].name]
  BY <1>3 DEF Orderly, u
<1> DEFINE q == m + k
<1>7. q \in 1..(m + n) /\ w[q] = u[k] /\ q - 1 <= m + n
  BY <1>3, <1>4
<1>8. ASSUME NEW j \in 1..(q - 1) PROVE r[w[j].name] = s[w[j].name]
  <2>1. CASE j <= m
    <3>1. j \in 1..m /\ w[j] = p[j]
      BY <1>3, <1>4, <2>1
    <3> QED BY <1>1, <3>1
  <2>2. CASE ~(j <= m)
    <3>1. j - m \in 1..(k - 1) /\ w[j] = u[j - m]
      BY <1>3, <1>4, <2>2
    <3> QED BY <1>6, <3>1
  <2> QED BY <2>1, <2>2
<1> HIDE DEF q
<1>9. IF w[q].desc THEN r[w[q].name] >= s[w[q].name] ELSE r[w[q].name] <= s[w[q].name]
  BY <1>2, <1>5, <1>7, <1>8 DEF Orderly
<1> QED BY <1>7, <1>9

(* The partitions come first, each once. *)
LEMMA PartitionsFirst ==
  ASSUME OrdersGiven, Args.strategy = "sort-single"
  PROVE  LET w == PartitionSort \o UserSortInFile
         IN {w[i].name : i \in 1..Cardinality(Range(By))} = Range(By)
<1> DEFINE p == PartitionSort
           u == UserSortInFile
           w == p \o u
           m == Len(p)
           n == Len(u)
<1>1. /\ IsList(p) /\ Distinct(p) /\ \A i \in 1..m : p[i].name \in Range(By)
      /\ \A c \in Range(By) : \E i \in 1..m : p[i].name = c
      /\ IsList(u)
  BY PartitionSortIs, UserSortIs
<1> HIDE DEF p, u
<1> DEFINE S == Range(p) \cup Range(u)
<1>3. p \in Seq(S) /\ u \in Seq(S) /\ m \in Nat /\ n \in Nat
  BY <1>1 DEF IsList
<1>4. \A i \in 1..(m + n) : w[i] = IF i <= m THEN p[i] ELSE u[i - m]
  BY <1>3, ConcatProperties
<1>5. \A i \in 1..m : w[i] = p[i]
  BY <1>3, <1>4
<1> HIDE DEF w, n
<1>6. Cardinality(Range(By)) = m
  <2> DEFINE B == Range(By)
             f == [i \in 1..m |-> p[i].name]
  <2>1. f \in [1..m -> B]
    BY <1>1
  <2>2. \A i, j \in 1..m : f[i] = f[j] => i = j
    BY <1>1 DEF Distinct
  <2>3. \A c \in B : \E i \in 1..m : f[i] = c
    BY <1>1
  <2> HIDE DEF f, B, m
  <2>4. f \in Bijection(1..m, B)
    BY <2>1, <2>2, <2>3 DEF Bijection, Injection, IsInjective, Surjection
  <2>5. Cardinality(B) = m
    BY <1>3, <2>4, FS_CountingElements DEF ExistsBijection
  <2> QED BY <2>5 DEF B
<1> HIDE DEF m
<1>7. {w[i].name : i \in 1..m} = Range(By)
  BY <1>1, <1>5 DEF m
<1> QED BY <1>6, <1>7 DEF w, p, u

(* What an input order that is preserved excludes. *)
LEMMA NothingSorted ==
  ASSUME ~Given(Args.sortBy), ~Given(Args.by)
  PROVE  FullSort = <<>>
<1>1. By = <<>> /\ UserSort = <<>>
  BY DEF By, UserSort
<1>2. OrdersGiven
  BY <1>1, ListOfNothing DEF OrdersGiven
<1> DEFINE p == PartitionSort
           u == UserSortInFile
<1>3. IsList(p) /\ \A i \in 1..Len(p) : p[i].name \in {}
  BY <1>1, <1>2, PartitionSortIs, ListOfNothing
<1>4. u = FlattenSeq(<<>>)
  <2>1. [i \in DOMAIN UserSort |-> IF UserSort[i].name \notin Range(By) THEN <<UserSort[i]>> ELSE <<>>]
          = <<>>
    BY <1>1
  <2> QED BY <2>1 DEF UserSortInFile, Filter
<1> HIDE DEF p, u
<1>5. p = <<>>
  <2>1. p \in Seq(Range(p))
    BY <1>3 DEF IsList
  <2> QED BY <1>3, <2>1
<1>6. u = <<>>
  <2> DEFINE E == <<>>
  <2>1. E \in Seq(Seq({})) /\ Passed(E, {}) = E
    BY DEF Passed
  <2>2. PICK e : IsPick(e, E, {}, Filtered(E, {}))
    <3>1. E \in Seq({})
      OBVIOUS
    <3> HIDE DEF E
    <3> QED BY <3>1, FilterPicks
  <2>3. Filtered(E, {}) = u
    BY <1>4, <2>1 DEF Filtered
  <2>4. e \in Seq(DOMAIN E) /\ u = [k \in 1..Len(e) |-> E[e[k]]]
    BY <2>2, <2>3 DEF IsPick
  <2>5. e \in Seq({})
    BY <2>4
  <2>6. Len(e) = 0
    BY <2>5
  <2> QED BY <2>4, <2>6
<1>7. <<>> \o <<>> = <<>>
  OBVIOUS
<1> QED BY <1>2, <1>5, <1>6, <1>7, FullSortIs DEF p, u

-----------------------------------------------------------------------------
(* Orders that are told *)

AfterPlan == phase \in {"output", "consume", "bound", "write", "written", "failed"}
OrderInv ==
  /\ AfterPlan => plan.order = FullSort
  /\ sink # None => AfterPlan /\ sink.ordering = UserSortInFile

(* Nothing is planned at the start. *)
LEMMA OrderInvInit == CommandInit => OrderInv
BY DEF CommandInit, InputsInit, OrderInv, AfterPlan

(* The orders depend on the command line alone. *)
LEMMA OrdersOfArgs ==
  ASSUME chosen' = chosen
  PROVE  FullSort' = FullSort /\ UserSortInFile' = UserSortInFile /\ By' = By /\ Args' = Args
<1>1. Args' = Args
  BY DEF Args
<1>2. By' = By /\ UserSort' = UserSort /\ PartitionSort' = PartitionSort
  BY <1>1 DEF By, UserSort, PartitionSort
<1>3. UserSortInFile' = UserSortInFile
  BY <1>2, Zenon DEF UserSortInFile, Filter
<1>4. FullSort' = FullSort
  BY <1>2, <1>3, Zenon DEF FullSort
<1> QED BY <1>1, <1>2, <1>3, <1>4

(* Steps that leave the plan and the sink as they are. *)
LEMMA OrderStays ==
  ASSUME OrderInv, chosen' = chosen \/ ~AfterPlan, AfterPlan' <=> AfterPlan, plan' = plan,
         sink' = sink
  PROVE  OrderInv'
BY OrdersOfArgs DEF OrderInv

(* Every step keeps the invariant of the orders. *)
LEMMA OrderInvStep ==
  ASSUME ChosenInv, OrderInv, [CommandNext]_commandState
  PROVE  OrderInv'
<1>1. CASE CatalogNext /\ UNCHANGED <<inputVars, commandVars>>
  <2>1. phase' = phase /\ plan' = plan /\ sink' = sink
    BY <1>1 DEF inputVars, commandVars
  <2>2. CASE BuildFormats \/ BuildServices \/ FromParts \/ RunDetect \/ RunInspect
    <3>1. chosen' = chosen
      BY <2>2 DEF BuildFormats, BuildServices, FromParts, RunDetect, RunInspect, End
    <3> QED BY <2>1, <3>1, OrderStays DEF AfterPlan
  <2>3. CASE BindDetect \/ BindInspect
    <3>1. stage = "assembled"
      BY <2>3 DEF BindDetect, BindInspect, Bind
    <3>2. ~AfterPlan
      BY <3>1 DEF ChosenInv, Choosing, Untouched, AfterPlan
    <3> QED BY <2>1, <3>2, OrderStays DEF AfterPlan
  <2> QED BY <1>1, <2>2, <2>3 DEF CatalogNext
<1>2. CASE BindTransform
  <2>1. stage = "assembled" /\ phase' = phase /\ plan' = plan /\ sink' = sink
    BY <1>2 DEF BindTransform, Bind, commandVars, inputVars
  <2>2. ~AfterPlan
    BY <2>1 DEF ChosenInv, Choosing, Untouched, AfterPlan
  <2> QED BY <2>1, <2>2, OrderStays DEF AfterPlan
<1>3. CASE RunCommand
  <2>1. chosen' = chosen
    BY <1>3 DEF RunCommand
  <2>2. CASE Options
    <3>1. ~AfterPlan /\ ~AfterPlan' /\ sink' = sink
      BY <2>2 DEF Options, CreateSession, Running, AfterPlan
    <3> QED BY <3>1 DEF OrderInv
  <2>3. CASE Plan
    <3>1. ~AfterPlan /\ sink' = sink
      BY <2>3 DEF Plan, Running, AfterPlan, FailCommand, Planned
    <3>2. CASE FailCommand("Plan")
      <4>1. phase' = phase /\ plan' = plan
        BY <3>2 DEF FailCommand
      <4> QED BY <2>1, <3>1, <4>1, OrderStays DEF AfterPlan
    <3>3. ASSUME NEW columns, NEW sorts, Planned(columns, sorts, TRUE) PROVE OrderInv'
      <4>1. plan'.order = FullSort
        BY <3>3 DEF Planned
      <4> QED BY <2>1, <3>1, <4>1, OrdersOfArgs DEF OrderInv
    <3> QED BY <2>3, <3>2, <3>3 DEF Plan
  <2>4. CASE BindOutput
    <3>1. AfterPlan /\ AfterPlan' /\ plan' = plan
      BY <2>4 DEF BindOutput, Running, AfterPlan, FailCommand
    <3>2. sink' = sink \/ sink' = Sink
      BY <2>4 DEF BindOutput, FailCommand
    <3>3. Sink.ordering = UserSortInFile
      BY DEF Sink, SinkOrdering
    <3> QED BY <2>1, <3>1, <3>2, <3>3, OrdersOfArgs DEF OrderInv
  <2>5. CASE ServiceOutput \/ Consume \/ WrongOutput \/ BeginExecution
    <3>1. AfterPlan /\ AfterPlan' /\ plan' = plan /\ sink' = sink
      BY <2>5 DEF ServiceOutput, Consume, WrongOutput, BeginExecution, Running, AfterPlan,
         FailCommand
    <3> QED BY <2>1, <3>1, OrderStays
  <2>6. CASE CompleteOutput \/ Write \/ Finish
    <3>1. AfterPlan /\ AfterPlan' /\ plan' = plan /\ sink' = sink
      BY <2>6 DEF CompleteOutput, Write, Finish, Running, AfterPlan
    <3> QED BY <2>1, <3>1, OrderStays
  <2>7. CASE UnboundedPlan
    <3>1. ~AfterPlan /\ ~AfterPlan' /\ plan' = plan /\ sink' = sink
      BY <2>7 DEF UnboundedPlan, Running, AfterPlan, FailCommand
    <3> QED BY <2>1, <3>1, OrderStays
  <2> QED BY <1>3, <2>2, <2>3, <2>4, <2>5, <2>6, <2>7 DEF RunCommand
<1>4. CASE MakeInputs
  <2>1. chosen' = chosen /\ plan' = plan /\ sink' = sink
    BY <1>4 DEF MakeInputs
  <2>2. phase \in {"patterns", "inputs"} /\ phase' \in {"patterns", "inputs", "planning"}
    BY <1>4 DEF MakeInputs, InputsNext, CheckPatterns, UnsupportedScheme, ServiceInput, FileOperand,
       Identify, StartGroup, ProviderBuilt, InputsDone, Checking, Idle, Running, Quiet,
       ReadOrdering, CheckSchema
  <2> QED BY <2>1, <2>2, OrderStays DEF AfterPlan
<1>5. CASE OthersWrite
  <2>1. chosen' = chosen /\ phase' = phase /\ plan' = plan /\ sink' = sink
    BY <1>5 DEF OthersWrite, commandVars, Rewrite
  <2> QED BY <2>1, OrderStays DEF AfterPlan
<1>6. CASE UNCHANGED commandState
  BY <1>6, OrderStays DEF commandState, catalogVars, commandVars, inputVars, AfterPlan
<1> QED BY <1>1, <1>2, <1>3, <1>4, <1>5, <1>6 DEF CommandNext

-----------------------------------------------------------------------------
(* One input, where its order is preserved *)

Early == phase \in {"options", "patterns"}
NothingYet == operands = <<>> /\ found = <<>> /\ groups = <<>> /\ building = NoGroup
              /\ finished = <<>> /\ providers = <<>>

(* What is left to do and what was done for the inputs. *)
Ongoing == IF building = NoGroup THEN 0 ELSE 1
Work == Len(operands) + Len(found) + Len(groups) + Ongoing + Len(providers)

NothingInv == stage = "bound" /\ Early => NothingYet
ReferenceInv == phase # "options" /\ Args.preserve => Len(Args.references) = 1
OfCommandInv == ~Early => Range(operands) \subseteq Range(Args.references) \cup Range(Args.patterns)
OneInputInv == ~Early /\ Args.preserve => Work <= 1
SomeInputInv == ~Early /\ phase # "inputs" => providers # <<>>
WorkInv == NothingInv /\ ReferenceInv /\ OfCommandInv /\ OneInputInv /\ SomeInputInv

(* No input is made at the start. *)
LEMMA WorkInvInit == CommandInit => WorkInv
BY DEF CommandInit, InputsInit, CatalogInit, WorkInv, NothingInv, ReferenceInv, OfCommandInv,
   OneInputInv, SomeInputInv, Early, NothingYet

(* Steps that leave the inputs as they are. *)
LEMMA WorkStays ==
  ASSUME WorkInv, UNCHANGED <<operands, found, groups, building, finished, providers>>,
         chosen' = chosen \/ phase' = "options",
         stage' = "bound" => stage = "bound" \/ NothingYet,
         Early => Early', Early' => Early,
         phase' # "options" => phase # "options",
         phase' = "inputs" \/ Early' <=> phase = "inputs" \/ Early
  PROVE  WorkInv'
<1>1. NothingInv'
  BY DEF WorkInv, NothingInv, NothingYet
<1>2. ReferenceInv'
  BY DEF WorkInv, ReferenceInv, Args
<1>3. OfCommandInv'
  BY DEF WorkInv, OfCommandInv, Args, Early
<1>4. OneInputInv'
  BY DEF WorkInv, OneInputInv, Args, Early, Work, Ongoing
<1>5. SomeInputInv'
  BY DEF WorkInv, SomeInputInv
<1> QED BY <1>1, <1>2, <1>3, <1>4, <1>5 DEF WorkInv

(* Steps that make the inputs. *)
LEMMA WorkDone ==
  ASSUME WorkInv, phase = "inputs", phase' \in {"inputs", "planning"},
         phase' = "planning" => providers' # <<>>, chosen' = chosen,
         Range(operands') \subseteq Range(operands),
         Args.preserve /\ Work <= 1 => Work' <= 1
  PROVE  WorkInv'
<1>1. NothingInv'
  BY DEF NothingInv, Early
<1>2. ReferenceInv'
  BY DEF WorkInv, ReferenceInv, Args
<1>3. OfCommandInv'
  BY DEF WorkInv, OfCommandInv, Args, Early
<1>4. OneInputInv'
  BY DEF WorkInv, OneInputInv, Args, Early
<1>5. SomeInputInv'
  BY DEF SomeInputInv
<1> QED BY <1>1, <1>2, <1>3, <1>4, <1>5 DEF WorkInv

(* The length of a list. *)
LEMMA LenOf ==
  ASSUME NEW s, IsList(s)
  PROVE  Len(s) \in Nat /\ (s # <<>> => Len(s) >= 1) /\ (s = <<>> => Len(s) = 0)
<1>1. s \in Seq(Range(s))
  BY DEF IsList
<1>2. Len(s) \in Nat /\ (s = <<>> <=> Len(s) = 0)
  BY <1>1, EmptySeq
<1> QED BY <1>2

(* What is left and what was done are numbers. *)
LEMMA WorkIsNat ==
  ASSUME InputsInv
  PROVE  /\ Len(operands) \in Nat /\ Len(found) \in Nat /\ Len(groups) \in Nat
         /\ Len(providers) \in Nat /\ Ongoing \in 0..1
<1>1. IsList(operands) /\ IsList(groups) /\ IsList(providers) /\ found \in Seq(Objects)
  BY DEF InputsInv, OperandsInv, GroupsInv, ProvidersInv, InOrder
<1>2. Len(operands) \in Nat
  BY <1>1, LenOf
<1>3. Len(groups) \in Nat
  BY <1>1, LenOf
<1>4. Len(providers) \in Nat
  BY <1>1, LenOf
<1> QED BY <1>1, <1>2, <1>3, <1>4 DEF Ongoing

(* A list is one shorter without its head. *)
LEMMA LenTail ==
  ASSUME NEW s, IsList(s), s # <<>>
  PROVE  Len(Tail(s)) = Len(s) - 1
<1>1. s \in Seq(Range(s))
  BY DEF IsList
<1> QED BY <1>1, HeadTailProperties

(* A list is one longer with another element. *)
LEMMA LenAppend ==
  ASSUME NEW s, IsList(s), NEW x
  PROVE  Len(Append(s, x)) = Len(s) + 1
<1>1. s \in Seq(Range(s) \cup {x}) /\ x \in Range(s) \cup {x}
  BY DEF IsList
<1> QED BY <1>1

(* The patterns are accepted: the operands of the command are what is left. *)
LEMMA WorkStarts ==
  ASSUME CatalogInv, ChosenInv, InputsInv, WorkInv, CheckPatterns, chosen' = chosen
  PROVE  WorkInv'
<1>1. ArgsKnown /\ phase = "patterns" /\ stage = "bound"
  BY DEF ChosenInv, CheckPatterns, Running
<1>2. NothingYet
  BY <1>1 DEF WorkInv, NothingInv, Early
<1>3. /\ operands' = Args.references \o Args.patterns
      /\ UNCHANGED <<found, groups, building, finished, providers>>
      /\ phase' \in {"patterns", "inputs"} /\ (phase' = "patterns" => stage' = "ended")
  BY <1>1 DEF CheckPatterns, groupVars, Fail
<1>4. Args' = Args
  BY DEF Args
<1>5. Args.preserve => Len(Args.references) = 1
  BY <1>1 DEF WorkInv, ReferenceInv
<1>6. IsList(Args.references) /\ IsList(Args.patterns)
  BY <1>1, CommandOperands
<1>7. Range(operands') = Range(Args.references) \cup Range(Args.patterns)
  BY <1>3, <1>6, ListConcat
<1>8. Args.preserve => Work' <= 1
  <2> SUFFICES ASSUME Args.preserve PROVE Work' <= 1
    OBVIOUS
  <2>1. Args.patterns = <<>>
    BY <1>1 DEF ArgsKnown, Accepted
  <2>2. Args.references \in Seq(Range(Args.references))
    BY <1>6 DEF IsList
  <2> DEFINE s == Args.references
  <2>3. operands' = s \o <<>>
    BY <1>3, <2>1
  <2>4. s \in Seq(Range(s)) /\ Len(s) = 1
    BY <1>5, <2>2
  <2> HIDE DEF s
  <2>5. Len(s \o <<>>) = 1
    BY <2>4
  <2>6. Len(<<>>) = 0
    OBVIOUS
  <2>7. found' = <<>> /\ groups' = <<>> /\ building' = NoGroup /\ providers' = <<>>
    BY <1>2, <1>3 DEF NothingYet
  <2>8. Len(operands') = 1
    BY <2>3, <2>5
  <2>9. Len(found') = 0 /\ Len(groups') = 0 /\ Len(providers') = 0
    BY <2>6, <2>7
  <2>10. Ongoing' = 0
    BY <2>7 DEF Ongoing
  <2> QED BY <2>8, <2>9, <2>10 DEF Work
<1>9. NothingInv'
  BY <1>3 DEF NothingInv, Early
<1>10. ReferenceInv'
  BY <1>4, <1>5 DEF ReferenceInv
<1>11. OfCommandInv'
  BY <1>4, <1>7 DEF OfCommandInv
<1>12. OneInputInv'
  BY <1>4, <1>8 DEF OneInputInv
<1>13. SomeInputInv'
  BY <1>3 DEF SomeInputInv, Early
<1> QED BY <1>9, <1>10, <1>11, <1>12, <1>13 DEF WorkInv

(* An operand of a service becomes at most one provider. *)
LEMMA WorkOfService ==
  ASSUME InputsInv, WorkInv, ServiceInput, chosen' = chosen
  PROVE  WorkInv'
<1> DEFINE p == [kind |-> "Service", files |-> <<>>]
<1>1. /\ operands # <<>> /\ operands' = Tail(operands) /\ phase = "inputs" /\ phase' = phase
      /\ UNCHANGED <<found, groups, building>>
      /\ providers' \in {providers, Append(providers, p)}
  BY DEF ServiceInput, Quiet, Idle, Running, groupVars
<1>2. IsList(operands) /\ IsList(providers)
  BY DEF InputsInv, OperandsInv, ProvidersInv
<1>3. Len(operands') = Len(operands) - 1 /\ Range(operands') \subseteq Range(operands)
  BY <1>1, <1>2, LenTail, ListTail
<1>4. Len(providers') \in {Len(providers), Len(providers) + 1}
  BY <1>1, <1>2, LenAppend
<1>5. Work <= 1 => Work' <= 1
  BY <1>1, <1>3, <1>4, WorkIsNat DEF Work, Ongoing
<1> QED BY <1>1, <1>3, <1>5, WorkDone

(* An exact reference names at most one object. *)
LEMMA WorkOfFiles ==
  ASSUME CatalogInv, ArgsKnown, InputsInv, WorkInv, FileOperand, chosen' = chosen
  PROVE  WorkInv'
<1>1. /\ operands # <<>> /\ operands' = Tail(operands) /\ phase = "inputs" /\ phase' = phase
      /\ found = <<>> /\ UNCHANGED <<groups, building, providers>>
      /\ found' = found \/ found' = InUrlOrder(Head(operands).objects)
  BY DEF FileOperand, Quiet, Idle, Running
<1>2. IsList(operands)
  BY DEF InputsInv, OperandsInv
<1>3. Len(operands') = Len(operands) - 1 /\ Range(operands') \subseteq Range(operands)
      /\ Head(operands) \in Range(operands)
  BY <1>1, <1>2, LenTail, ListTail
<1>4. Args.preserve => Len(found') \in 0..1
  <2> SUFFICES ASSUME Args.preserve PROVE Len(found') \in 0..1
    OBVIOUS
  <2>1. Head(operands) \in Range(Args.references) \cup Range(Args.patterns)
    BY <1>1, <1>3 DEF WorkInv, OfCommandInv, Early
  <2>2. Args.patterns = <<>>
    BY DEF ArgsKnown, Accepted
  <2>3. Head(operands) \in Range(Args.references)
    BY <2>1, <2>2, ListOfNothing
  <2> DEFINE S == Head(operands).objects
  <2>4. Cardinality(S) <= 1
    BY <2>3, CommandAssumption DEF CatalogInv, ArgsKnown, Args, IsArguments
  <2>5. S \subseteq Objects /\ IsFiniteSet(S)
    BY <1>3 DEF InputsInv, OperandsInv, IsOperand
  <2> HIDE DEF S
  <2>6. Len(InUrlOrder(S)) = Cardinality(S) /\ Cardinality(S) \in Nat
    BY <2>5, UrlOrderIs, FS_CardinalityType
  <2>7. Len(<<>>) = 0
    OBVIOUS
  <2>8. found' = <<>> \/ found' = InUrlOrder(S)
    BY <1>1 DEF S
  <2>9. Len(found') = 0 \/ Len(found') = Cardinality(S)
    BY <2>6, <2>7, <2>8
  <2> DEFINE c == Cardinality(S)
             n == Len(found')
  <2>10. c <= 1 /\ c \in Nat /\ (n = 0 \/ n = c)
    BY <2>4, <2>6, <2>9
  <2> HIDE DEF c, n
  <2>11. n \in 0..1
    BY <2>10
  <2> QED BY <2>11 DEF n
<1>5. Args.preserve /\ Work <= 1 => Work' <= 1
  <2>1. Len(found) = 0
    BY <1>1
  <2>2. Ongoing' = Ongoing /\ Len(groups') = Len(groups) /\ Len(providers') = Len(providers)
    BY <1>1 DEF Ongoing
  <2>3. SUFFICES ASSUME Args.preserve, Work <= 1 PROVE Work' <= 1
    OBVIOUS
  <2>4. Len(found') \in 0..1
    BY <1>4, <2>3
  <2>5. Len(operands') = Len(operands) - 1
    BY <1>3
  <2> DEFINE a == Len(operands)
             f == Len(found')
             g == Len(groups)
             o == Ongoing
             p == Len(providers)
  <2>6. Work = a + 0 + g + o + p /\ Work' = (a - 1) + f + g + o + p
    BY <2>1, <2>2, <2>5 DEF Work
  <2>7. a \in Nat /\ f \in 0..1 /\ g \in Nat /\ o \in Nat /\ p \in Nat
    BY <2>4, WorkIsNat
  <2> HIDE DEF a, f, g, o, p
  <2> QED BY <2>3, <2>6, <2>7
<1> QED BY <1>1, <1>3, <1>5, WorkDone

(* An object that was found makes at most one group. *)
LEMMA WorkOfIdentify ==
  ASSUME InputsInv, WorkInv, Identify, chosen' = chosen
  PROVE  WorkInv'
<1> DEFINE o == Head(found)
           d == Identified(o)
<1>1. /\ found # <<>> /\ phase = "inputs" /\ phase' = phase
      /\ UNCHANGED <<operands, building, providers>>
      /\ \/ groups' = groups /\ found' = found
         \/ groups' = Joined(groups, d, o) /\ found' = Tail(found)
  BY DEF Identify, Quiet, Running
<1>2. found \in Seq(Objects) /\ IsList(groups)
      /\ \A g \in Range(groups) : g = [format |-> g.format, variant |-> g.variant, files |-> g.files]
  BY DEF InputsInv, GroupsInv, InOrder, IsGroup
<1>3. Len(Tail(found)) = Len(found) - 1
  BY <1>1, <1>2
<1>4. \A i \in DOMAIN groups : groups[i] = [format |-> groups[i].format,
         variant |-> groups[i].variant, files |-> groups[i].files]
  BY <1>2 DEF Range
<1> HIDE DEF o, d
<1>5. Len(Joined(groups, d, o)) \in {Len(groups), Len(groups) + 1}
  <2>1. CASE Joined(groups, d, o) = Append(groups, NewGroup(d, o))
    <3>1. Len(Append(groups, NewGroup(d, o))) = Len(groups) + 1
      BY <1>2, LenAppend
    <3> QED BY <2>1, <3>1
  <2>2. CASE \E i \in DOMAIN groups : Joined(groups, d, o) = [groups EXCEPT ![i] = Longer1(groups[i], o)]
    <3>1. PICK i \in DOMAIN groups : Joined(groups, d, o) = [groups EXCEPT ![i] = Longer1(groups[i], o)]
      BY <2>2
    <3> DEFINE x == Longer1(groups[i], o)
    <3> HIDE DEF x
    <3>2. groups \in Seq(Range(groups) \cup {x}) /\ i \in 1..Len(groups)
      BY <1>2 DEF IsList
    <3>3. Len([groups EXCEPT ![i] = x]) = Len(groups)
      BY <3>2
    <3> QED BY <3>1, <3>3 DEF x
  <2> QED BY <1>4, <2>1, <2>2, JoinedIs
<1>6. Work <= 1 => Work' <= 1
  BY <1>1, <1>3, <1>5, WorkIsNat DEF Work, Ongoing
<1> QED BY <1>1, <1>6, WorkDone

(* A group becomes the one that is being built. *)
LEMMA WorkOfStart ==
  ASSUME InputsInv, WorkInv, StartGroup, chosen' = chosen
  PROVE  WorkInv'
<1>1. /\ groups # <<>> /\ groups' = Tail(groups) /\ building = NoGroup
      /\ phase = "inputs" /\ phase' = phase /\ UNCHANGED <<operands, found, providers>>
  BY DEF StartGroup, Running
<1>2. IsList(groups)
  BY DEF InputsInv, GroupsInv
<1>3. Len(groups') = Len(groups) - 1
  BY <1>1, <1>2, LenTail
<1>4. Work <= 1 => Work' <= 1
  BY <1>1, <1>3, WorkIsNat DEF Work, Ongoing
<1> QED BY <1>1, <1>4, WorkDone

(* What is being built becomes at most one provider. *)
LEMMA WorkOfBuilding ==
  ASSUME InputsInv, WorkInv, chosen' = chosen, phase = "inputs", building # NoGroup,
         ProviderBuilt \/ \E i \in InFlight : ReadOrdering(i) \/ CheckSchema(i)
  PROVE  WorkInv'
<1>1. CASE ProviderBuilt
  <2>1. /\ building' = NoGroup /\ phase' = phase /\ UNCHANGED <<operands, found, groups>>
        /\ providers' = providers \/ \E p : providers' = Append(providers, p)
    BY <1>1 DEF ProviderBuilt, Quiet
  <2>2. IsList(providers)
    BY DEF InputsInv, ProvidersInv
  <2>3. Len(providers') \in {Len(providers), Len(providers) + 1}
    BY <2>1, <2>2, LenAppend
  <2>4. Work <= 1 => Work' <= 1
    BY <2>1, <2>3, WorkIsNat DEF Work, Ongoing
  <2> QED BY <2>1, <2>4, WorkDone
<1>2. CASE \E i \in InFlight : ReadOrdering(i) \/ CheckSchema(i)
  <2>1. UNCHANGED <<operands, found, groups, providers, phase>>
    BY <1>2 DEF ReadOrdering, CheckSchema, Quiet
  <2>2. Work <= 1 => Work' <= 1
    BY <2>1, WorkIsNat DEF Work, Ongoing
  <2> QED BY <2>1, <2>2, WorkDone
<1> QED BY <1>1, <1>2

(* The command's other steps leave the inputs alone; its options demand one
   reference where the order of the input is preserved. *)
LEMMA WorkOfCommand ==
  ASSUME WorkInv, RunCommand
  PROVE  WorkInv'
<1>1. UNCHANGED <<operands, found, groups, building, finished, providers, chosen>>
  BY DEF RunCommand, groupVars
<1>2. CASE Options
  <2>1. phase = "options" /\ stage = "bound" /\ phase' \in {"options", "patterns"}
        /\ (phase' = "patterns" => ~(Args.preserve /\ Len(Args.references) # 1))
    BY <1>2 DEF Options, Running, CreateSession
  <2>2. NothingYet /\ NothingYet'
    BY <1>1, <2>1 DEF WorkInv, NothingInv, Early, NothingYet
  <2>3. Args' = Args
    BY <1>1 DEF Args
  <2> QED BY <2>1, <2>2, <2>3 DEF WorkInv, NothingInv, ReferenceInv, OfCommandInv, OneInputInv,
        SomeInputInv, Early
<1>3. CASE ~Options
  <2>1. phase \notin {"options", "patterns", "inputs"} /\ phase' \notin {"options", "patterns", "inputs"}
    BY <1>3 DEF RunCommand, Plan, Planned, UnboundedPlan, ServiceOutput, Consume, WrongOutput, FailCommand,
       BindOutput, BeginExecution, CompleteOutput, Write, Finish, Running
  <2>2. stage = "bound"
    BY ForTransform
  <2> QED BY <1>1, <2>1, <2>2, WorkStays DEF Early
<1> QED BY <1>2, <1>3

(* Every step keeps the invariant of what is left to do. *)
LEMMA WorkInvStep ==
  ASSUME CatalogInv, ChosenInv, InputsInv, WorkInv, [CommandNext]_commandState
  PROVE  WorkInv'
<1>1. CASE CatalogNext /\ UNCHANGED <<inputVars, commandVars>>
  <2>1. UNCHANGED <<phase, operands, found, groups, building, finished, providers>>
    BY <1>1 DEF inputVars
  <2>2. CASE BuildFormats \/ BuildServices \/ FromParts \/ BindDetect \/ BindInspect
    <3>1. Choosing
      BY <2>2 DEF BuildFormats, BuildServices, FromParts, BindDetect, BindInspect, Bind, Choosing
    <3>2. NothingYet /\ phase = "options"
      BY <3>1 DEF ChosenInv, Untouched, NothingYet
    <3> QED BY <2>1, <3>2, WorkStays DEF Early
  <2>3. CASE RunDetect \/ RunInspect
    <3>1. stage' = "ended" /\ chosen' = chosen
      BY <2>3 DEF RunDetect, RunInspect, End
    <3> QED BY <2>1, <3>1, WorkStays DEF Early
  <2> QED BY <1>1, <2>2, <2>3 DEF CatalogNext
<1>2. CASE BindTransform
  <2>1. UNCHANGED <<phase, operands, found, groups, building, finished, providers>> /\ Choosing
    BY <1>2 DEF BindTransform, inputVars, Choosing
  <2>2. NothingYet /\ phase = "options"
    BY <2>1 DEF ChosenInv, Untouched, NothingYet
  <2> QED BY <2>1, <2>2, WorkStays DEF Early
<1>3. CASE RunCommand
  BY <1>3, WorkOfCommand
<1>4. CASE MakeInputs
  <2>1. chosen' = chosen /\ InputsNext
    BY <1>4 DEF MakeInputs
  <2>2. ArgsKnown
    BY <2>1, ForTransform DEF ChosenInv
  <2>3. CASE CheckPatterns
    BY <2>1, <2>3, WorkStarts
  <2>4. CASE ServiceInput
    BY <2>1, <2>4, WorkOfService
  <2>5. CASE FileOperand
    BY <2>1, <2>2, <2>5, WorkOfFiles
  <2>6. CASE Identify
    BY <2>1, <2>6, WorkOfIdentify
  <2>7. CASE StartGroup
    BY <2>1, <2>7, WorkOfStart
  <2>8. CASE ProviderBuilt
    <3>1. phase = "inputs" /\ building # NoGroup
      BY <2>8 DEF ProviderBuilt, Running
    <3> QED BY <2>1, <2>8, <3>1, WorkOfBuilding
  <2>9. CASE Checking /\ \E i \in InFlight : ReadOrdering(i) \/ CheckSchema(i)
    <3>1. phase = "inputs" /\ building # NoGroup
      BY <2>9 DEF Checking, Running
    <3> QED BY <2>1, <2>9, <3>1, WorkOfBuilding
  <2>10. CASE UnsupportedScheme
    <3>1. UNCHANGED <<phase, operands, found, groups, building, finished, providers>> /\ phase = "inputs"
          /\ stage' = "ended"
      BY <2>10 DEF UnsupportedScheme, groupVars, Quiet, Idle, Running, Fail
    <3> QED BY <2>1, <3>1, WorkStays DEF Early
  <2>11. CASE InputsDone
    <3>1. /\ UNCHANGED <<operands, found, groups, building, finished, providers>> /\ phase = "inputs"
          /\ phase' \in {"inputs", "planning"} /\ (phase' = "planning" => providers # <<>>)
      BY <2>11 DEF InputsDone, groupVars, Idle, Running
    <3>2. Work' = Work
      BY <3>1 DEF Work, Ongoing
    <3> QED BY <2>1, <3>1, <3>2, WorkDone
  <2> QED BY <2>1, <2>3, <2>4, <2>5, <2>6, <2>7, <2>8, <2>9, <2>10, <2>11 DEF InputsNext
<1>5. CASE OthersWrite
  <2>1. UNCHANGED <<phase, operands, found, groups, building, finished, providers, chosen, stage>>
    BY <1>5 DEF OthersWrite, Rewrite, groupVars, Goes
  <2> QED BY <2>1, WorkStays DEF Early
<1>6. CASE UNCHANGED commandState
  <2>1. UNCHANGED <<phase, operands, found, groups, building, finished, providers, chosen, stage>>
    BY <1>6 DEF commandState, inputVars, catalogVars
  <2> QED BY <2>1, WorkStays DEF Early
<1> QED BY <1>1, <1>2, <1>3, <1>4, <1>5, <1>6 DEF CommandNext

(* The budget holds the partitions that the options ask for. *)
LEMMA PartitionsPlanned ==
  ASSUME BudgetInv, HasBudget
  PROVE  \E t, h, c : budget.partitions = TargetPartitions(Args.preserve, t, h, c)
<1>1. PICK m \in Machines : BudgetIs(budget, m)
  BY DEF BudgetInv
<1>2. budget.partitions = TargetPartitions(Args.preserve, Args.targetPartitions, HasSort, Cpus(m))
  BY <1>1 DEF BudgetIs, IsBudget
<1> QED BY <1>2

(* Where the order of the input is preserved, nothing else orders the output. *)
LEMMA InputPreserved ==
  ASSUME CatalogInv, ChosenInv, InputsInv, BudgetInv, OrderInv, WorkInv, sink # None, Args.preserve
  PROVE  budget.partitions = 1 /\ Len(providers) = 1 /\ plan.order = <<>>
<1>1. ArgsKnown /\ AfterPlan
  BY DEF ChosenInv, OrderInv
<1>2. budget.partitions = 1
  <2>1. PICK t, h, c : budget.partitions = TargetPartitions(Args.preserve, t, h, c)
    BY <1>1, PartitionsPlanned DEF HasBudget, AfterPlan
  <2> DEFINE y == IF t # Absent THEN t ELSE IF h THEN ThreeQuarters(c) ELSE Absent
  <2>2. budget.partitions = IF Args.preserve THEN 1 ELSE y
    BY <2>1 DEF TargetPartitions
  <2> HIDE DEF y
  <2> QED BY <2>2
<1>3. Len(providers) = 1
  <2>1. Work <= 1 /\ providers # <<>>
    BY <1>1 DEF WorkInv, OneInputInv, SomeInputInv, Early, AfterPlan
  <2>2. IsList(providers)
    BY DEF InputsInv, ProvidersInv
  <2>3. Len(providers) >= 1
    BY <2>1, <2>2, LenOf
  <2> DEFINE a == Len(operands)
             f == Len(found)
             g == Len(groups)
             o == Ongoing
             p == Len(providers)
  <2>4. a + f + g + o + p <= 1
    BY <2>1 DEF Work
  <2>5. a \in Nat /\ f \in Nat /\ g \in Nat /\ o \in Nat /\ p \in Nat /\ p >= 1
    BY <2>3, WorkIsNat
  <2> HIDE DEF a, f, g, o, p
  <2>6. p = 1
    BY <2>4, <2>5
  <2> QED BY <2>6 DEF p
<1>4. plan.order = <<>>
  <2>1. ~Given(Args.sortBy) /\ ~Given(Args.by)
    BY <1>1 DEF ArgsKnown, Accepted
  <2>2. FullSort = <<>>
    BY <2>1, NothingSorted
  <2> QED BY <1>1, <2>2 DEF OrderInv
<1> QED BY <1>2, <1>3, <1>4

(* The invariants make what is told about order true. *)
LEMMA OrderKnown ==
  CatalogInv /\ ChosenInv /\ InputsInv /\ BudgetInv /\ OrderInv /\ WorkInv => OrderIsTrue
<1> SUFFICES ASSUME CatalogInv, ChosenInv, InputsInv, BudgetInv, OrderInv, WorkInv, sink # None
             PROVE  OrderIsTrue
  BY DEF OrderIsTrue
<1>1. ArgsKnown /\ plan.order = FullSort /\ sink.ordering = UserSortInFile
  BY DEF ChosenInv, OrderInv
<1>2. OrdersGiven
  BY <1>1, OrdersAreGiven
<1>3. plan.order = PartitionSort \o UserSortInFile
  BY <1>1, <1>2, FullSortIs
<1>4. ASSUME NEW r, NEW s, Orderly(plan.order, r, s), \A c \in Range(By) : r[c] = s[c]
      PROVE  Orderly(sink.ordering, r, s)
  <2>1. Orderly(PartitionSort \o UserSortInFile, r, s)
    BY <1>3, <1>4
  <2>2. Orderly(UserSortInFile, r, s)
    BY <1>2, <1>4, <2>1, OrderlyInPartition
  <2> QED BY <1>1, <2>2
<1>5. Args.strategy = "sort-single" =>
        {plan.order[i].name : i \in 1..Cardinality(Range(By))} = Range(By)
  BY <1>2, <1>3, PartitionsFirst
<1>6. Args.preserve => budget.partitions = 1 /\ Len(providers) = 1 /\ plan.order = <<>>
  BY InputPreserved
<1> QED BY <1>4, <1>5, <1>6 DEF OrderIsTrue

(***************************************************************************)
(* OrderIsTrue, for any command line, columns and rows: what the sinks are *)
(* told of the order within a file follows from the order the plan has,    *)
(* sort-single reads each partition's rows together, and an order of the   *)
(* input that is preserved (transform.rs) is that of one provider in one   *)
(* partition, with nothing sorted.                                         *)
(***************************************************************************)
THEOREM OrderIsKept == CommandSpec => []OrderIsTrue
<1> DEFINE Inv == CatalogInv /\ ChosenInv /\ InputsInv /\ BudgetInv /\ OrderInv /\ WorkInv
<1>1. CommandInit => Inv
  BY CatalogInvInit, ChosenInvInit, InputsInvInit, BudgetInvInit, OrderInvInit, WorkInvInit
<1>2. Inv /\ [CommandNext]_commandState => Inv'
  BY CatalogInvStep, ChosenInvStep, InputsInvStep, BudgetInvStep, OrderInvStep, WorkInvStep
<1>3. Inv => OrderIsTrue
  BY OrderKnown
<1> QED BY <1>1, <1>2, <1>3, PTL DEF CommandSpec, commandState

-----------------------------------------------------------------------------
(* Counting files *)

Lens(s) == SumOf([i \in DOMAIN s |-> Len(s[i].files)])
Cards(s) == SumOf([i \in DOMAIN s |-> Cardinality(s[i].objects)])

(* The numbers of a list whose elements are counted. *)
LEMMA CountsAre ==
  ASSUME NEW s, IsList(s), NEW f, f = [i \in DOMAIN s |-> f[i]], \A i \in DOMAIN s : f[i] \in Nat
  PROVE  f \in Seq(Nat) /\ Len(f) = Len(s) /\ Len(s) \in Nat /\ DOMAIN s = 1..Len(s)
<1>1. s \in Seq(Range(s))
  BY DEF IsList
<1>2. Len(s) \in Nat /\ DOMAIN s = 1..Len(s)
  BY <1>1
<1> DEFINE n == Len(s)
<1> HIDE DEF n
<1>3. f = [i \in 1..n |-> f[i]] /\ \A i \in 1..n : f[i] \in Nat
  BY <1>2 DEF n
<1>4. f \in Seq(Nat) /\ Len(f) = n
  <2>1. f \in [1..n -> Nat]
    BY <1>3
  <2> QED BY <1>2, <2>1 DEF n
<1> QED BY <1>2, <1>4 DEF n

(* Sums over a list that gets longer or shorter, or in which one changes. *)
LEMMA CountMore ==
  ASSUME NEW f \in Seq(Nat), NEW g \in Seq(Nat), Len(g) = Len(f) + 1,
         \A i \in 1..Len(f) : g[i] = f[i]
  PROVE  SumOf(g) = SumOf(f) + g[Len(f) + 1] /\ SumOf(f) \in Nat
<1> DEFINE x == g[Len(f) + 1]
<1>1. x \in Nat
  OBVIOUS
<1>2. g = Append(f, x)
  OBVIOUS
<1> HIDE DEF x
<1>3. SumOf(Append(f, x)) = SumOf(f) + x
  BY <1>1, SumAppend
<1>4. SumOf(f) \in Nat
  BY SumType
<1> QED BY <1>2, <1>3, <1>4 DEF x

(* One more list at the end of a list of lists adds its length. *)
LEMMA LensAppend ==
  ASSUME NEW s, IsList(s), \A i \in DOMAIN s : Len(s[i].files) \in Nat,
         NEW y, Len(y.files) \in Nat
  PROVE  Lens(Append(s, y)) = Lens(s) + Len(y.files) /\ Lens(s) \in Nat
<1> DEFINE t == Append(s, y)
           f == [i \in DOMAIN s |-> Len(s[i].files)]
           g == [i \in DOMAIN t |-> Len(t[i].files)]
<1>1. /\ s \in Seq(Range(s) \cup {y}) /\ y \in Range(s) \cup {y}
  BY DEF IsList
<1>2. /\ Len(t) = Len(s) + 1 /\ t[Len(s) + 1] = y /\ \A i \in 1..Len(s) : t[i] = s[i]
      /\ DOMAIN t = 1..(Len(s) + 1) /\ DOMAIN s = 1..Len(s) /\ Len(s) \in Nat
  BY <1>1
<1>3. IsList(t)
  BY ListAppend
<1> HIDE DEF t
<1>4. \A i \in DOMAIN t : Len(t[i].files) \in Nat
  BY <1>2
<1>5. f = [i \in DOMAIN s |-> f[i]] /\ \A i \in DOMAIN s : f[i] = Len(s[i].files)
  OBVIOUS
<1>6. g = [i \in DOMAIN t |-> g[i]] /\ \A i \in DOMAIN t : g[i] = Len(t[i].files)
  OBVIOUS
<1> HIDE DEF f, g
<1>7. f \in Seq(Nat) /\ Len(f) = Len(s)
  BY <1>5, CountsAre
<1>8. g \in Seq(Nat) /\ Len(g) = Len(t)
  BY <1>3, <1>4, <1>6, CountsAre
<1>9. g[Len(s) + 1] = Len(y.files) /\ \A i \in 1..Len(s) : g[i] = f[i]
  <2>1. Len(s) + 1 \in DOMAIN t
    BY <1>2
  <2>2. g[Len(s) + 1] = Len(y.files)
    BY <1>2, <1>6, <2>1
  <2>3. ASSUME NEW i \in 1..Len(s) PROVE g[i] = f[i]
    <3>1. i \in DOMAIN s /\ i \in DOMAIN t /\ t[i] = s[i]
      BY <1>2
    <3> QED BY <1>5, <1>6, <3>1
  <2> QED BY <2>2, <2>3
<1>10. SumOf(g) = SumOf(f) + Len(y.files) /\ SumOf(f) \in Nat
  <2>1. f \in Seq(Nat)
    BY <1>7
  <2>2. g \in Seq(Nat)
    BY <1>8
  <2>3. Len(f) = Len(s)
    BY <1>7
  <2>4. Len(g) = Len(f) + 1
    BY <1>2, <1>8, <2>3
  <2>5. \A i \in 1..Len(f) : g[i] = f[i]
    BY <1>9, <2>3
  <2>6. SumOf(g) = SumOf(f) + g[Len(f) + 1] /\ SumOf(f) \in Nat
    BY ONLY <2>1, <2>2, <2>4, <2>5, CountMore
  <2> QED BY <1>9, <2>3, <2>6
<1> QED BY <1>10 DEF Lens, f, g, t

(* One more set at the end of a list adds as many members as it has. *)
LEMMA CardsAppend ==
  ASSUME NEW s, IsList(s), \A i \in DOMAIN s : Cardinality(s[i].objects) \in Nat,
         NEW y, Cardinality(y.objects) \in Nat
  PROVE  Cards(Append(s, y)) = Cards(s) + Cardinality(y.objects) /\ Cards(s) \in Nat
<1> DEFINE t == Append(s, y)
           f == [i \in DOMAIN s |-> Cardinality(s[i].objects)]
           g == [i \in DOMAIN t |-> Cardinality(t[i].objects)]
<1>1. /\ s \in Seq(Range(s) \cup {y}) /\ y \in Range(s) \cup {y}
  BY DEF IsList
<1>2. /\ Len(t) = Len(s) + 1 /\ t[Len(s) + 1] = y /\ \A i \in 1..Len(s) : t[i] = s[i]
      /\ DOMAIN t = 1..(Len(s) + 1) /\ DOMAIN s = 1..Len(s) /\ Len(s) \in Nat
  BY <1>1
<1>3. IsList(t)
  BY ListAppend
<1> HIDE DEF t
<1>4. \A i \in DOMAIN t : Cardinality(t[i].objects) \in Nat
  BY <1>2
<1>5. f = [i \in DOMAIN s |-> f[i]] /\ \A i \in DOMAIN s : f[i] = Cardinality(s[i].objects)
  OBVIOUS
<1>6. g = [i \in DOMAIN t |-> g[i]] /\ \A i \in DOMAIN t : g[i] = Cardinality(t[i].objects)
  OBVIOUS
<1> HIDE DEF f, g
<1>7. f \in Seq(Nat) /\ Len(f) = Len(s)
  BY <1>5, CountsAre
<1>8. g \in Seq(Nat) /\ Len(g) = Len(t)
  BY <1>3, <1>4, <1>6, CountsAre
<1>9. g[Len(s) + 1] = Cardinality(y.objects) /\ \A i \in 1..Len(s) : g[i] = f[i]
  <2>1. Len(s) + 1 \in DOMAIN t
    BY <1>2
  <2>2. g[Len(s) + 1] = Cardinality(y.objects)
    BY <1>2, <1>6, <2>1
  <2>3. ASSUME NEW i \in 1..Len(s) PROVE g[i] = f[i]
    <3>1. i \in DOMAIN s /\ i \in DOMAIN t /\ t[i] = s[i]
      BY <1>2
    <3> QED BY <1>5, <1>6, <3>1
  <2> QED BY <2>2, <2>3
<1>10. SumOf(g) = SumOf(f) + Cardinality(y.objects) /\ SumOf(f) \in Nat
  <2>1. f \in Seq(Nat)
    BY <1>7
  <2>2. g \in Seq(Nat)
    BY <1>8
  <2>3. Len(f) = Len(s)
    BY <1>7
  <2>4. Len(g) = Len(f) + 1
    BY <1>2, <1>8, <2>3
  <2>5. \A i \in 1..Len(f) : g[i] = f[i]
    BY <1>9, <2>3
  <2>6. SumOf(g) = SumOf(f) + g[Len(f) + 1] /\ SumOf(f) \in Nat
    BY ONLY <2>1, <2>2, <2>4, <2>5, CountMore
  <2> QED BY <1>9, <2>3, <2>6
<1> QED BY <1>10 DEF Cards, f, g, t

(* The first list that leaves a list of lists takes its length along. *)
LEMMA LensTail ==
  ASSUME NEW s, IsList(s), s # <<>>, \A i \in DOMAIN s : Len(s[i].files) \in Nat
  PROVE  Lens(s) = Len(Head(s).files) + Lens(Tail(s)) /\ Lens(s) \in Nat /\ Lens(Tail(s)) \in Nat
<1> DEFINE t == Tail(s)
           f == [i \in DOMAIN s |-> Len(s[i].files)]
           g == [i \in DOMAIN t |-> Len(t[i].files)]
<1>1. s \in Seq(Range(s))
  BY DEF IsList
<1>2. /\ Len(s) \in Nat /\ Len(s) # 0 /\ Len(t) = Len(s) - 1 /\ Head(s) = s[1]
      /\ DOMAIN t = 1..(Len(s) - 1) /\ DOMAIN s = 1..Len(s)
      /\ \A i \in 1..(Len(s) - 1) : t[i] = s[i + 1]
  BY <1>1, EmptySeq, HeadTailProperties
<1>3. IsList(t)
  BY ListTail
<1> HIDE DEF t
<1>4. \A i \in DOMAIN t : Len(t[i].files) \in Nat
  BY <1>2
<1>5. f = [i \in DOMAIN s |-> f[i]] /\ \A i \in DOMAIN s : f[i] = Len(s[i].files)
  OBVIOUS
<1>6. g = [i \in DOMAIN t |-> g[i]] /\ \A i \in DOMAIN t : g[i] = Len(t[i].files)
  OBVIOUS
<1> HIDE DEF f, g
<1>7. f \in Seq(Nat) /\ Len(f) = Len(s)
  BY <1>5, CountsAre
<1>8. g \in Seq(Nat) /\ Len(g) = Len(s) - 1
  <2>1. g \in Seq(Nat) /\ Len(g) = Len(t)
    BY <1>3, <1>4, <1>6, CountsAre
  <2> QED BY <1>2, <2>1
<1>9. f[1] = Len(Head(s).files) /\ \A i \in 1..(Len(s) - 1) : g[i] = f[i + 1]
  <2>1. f[1] = Len(s[1].files)
    <3>1. 1 \in DOMAIN s
      BY <1>2
    <3> QED BY <1>5, <3>1
  <2>2. ASSUME NEW i \in 1..(Len(s) - 1) PROVE g[i] = f[i + 1]
    <3>1. i \in DOMAIN t /\ i + 1 \in DOMAIN s
      BY <1>2
    <3>2. g[i] = Len(t[i].files)
      BY <1>6, <3>1
    <3>3. f[i + 1] = Len(s[i + 1].files)
      BY <1>5, <3>1
    <3>4. t[i] = s[i + 1]
      BY <1>2
    <3> QED BY <3>2, <3>3, <3>4
  <2>3. Head(s) = s[1]
    BY <1>2
  <2> QED BY <2>1, <2>2, <2>3
<1>10. f # <<>>
  BY <1>2, <1>7
<1>11. g = Tail(f)
  <2>1. Tail(f) \in Seq(Nat) /\ Len(Tail(f)) = Len(s) - 1
        /\ \A i \in 1..(Len(s) - 1) : Tail(f)[i] = f[i + 1]
    BY <1>7, <1>10, HeadTailProperties
  <2> DEFINE h == Tail(f)
             m == Len(s) - 1
  <2>2. m \in Nat
    BY <1>2
  <2>3. h \in Seq(Nat) /\ Len(h) = m /\ Len(g) = m /\ \A i \in 1..m : g[i] = h[i]
    BY <1>8, <1>9, <2>1
  <2> HIDE DEF h, m
  <2>4. g = h
    BY <1>8, <2>2, <2>3
  <2> QED BY <2>4 DEF h
<1>12. SumOf(f) = f[1] + SumOf(g) /\ SumOf(f) \in Nat /\ SumOf(g) \in Nat
  BY <1>7, <1>8, <1>10, <1>11, SumTail, SumType
<1> QED BY <1>9, <1>12 DEF Lens, f, g, t

(* Where one list of a list of lists changes, the sum changes by as much. *)
LEMMA LensExcept ==
  ASSUME NEW s, IsList(s), \A i \in DOMAIN s : Len(s[i].files) \in Nat,
         NEW i \in DOMAIN s, NEW y, Len(y.files) \in Nat
  PROVE  /\ Lens([s EXCEPT ![i] = y]) + Len(s[i].files) = Lens(s) + Len(y.files)
         /\ Lens(s) \in Nat /\ Lens([s EXCEPT ![i] = y]) \in Nat
<1> DEFINE t == [s EXCEPT ![i] = y]
           f == [k \in DOMAIN s |-> Len(s[k].files)]
           g == [k \in DOMAIN t |-> Len(t[k].files)]
<1>2. DOMAIN t = DOMAIN s /\ t[i] = y /\ \A k \in DOMAIN s : k # i => t[k] = s[k]
  OBVIOUS
<1>3. IsList(t)
  BY ListExcept
<1> HIDE DEF t
<1>4. \A k \in DOMAIN t : Len(t[k].files) \in Nat
  BY <1>2
<1>5. f = [k \in DOMAIN s |-> f[k]] /\ \A k \in DOMAIN s : f[k] = Len(s[k].files)
  OBVIOUS
<1>6. g = [k \in DOMAIN t |-> g[k]] /\ \A k \in DOMAIN t : g[k] = Len(t[k].files)
  OBVIOUS
<1> HIDE DEF f, g
<1>7. f \in Seq(Nat) /\ Len(f) = Len(s) /\ DOMAIN s = 1..Len(s) /\ Len(s) \in Nat
  <2>1. \A k \in DOMAIN s : f[k] \in Nat
    BY <1>5
  <2>2. f = [k \in DOMAIN s |-> f[k]]
    BY <1>5
  <2> QED BY ONLY IsList(s), <2>1, <2>2, CountsAre
<1>8. g \in Seq(Nat) /\ Len(g) = Len(t) /\ DOMAIN t = 1..Len(t) /\ Len(t) \in Nat
  <2>1. \A k \in DOMAIN t : g[k] \in Nat
    BY <1>4, <1>6
  <2>2. g = [k \in DOMAIN t |-> g[k]]
    BY <1>6
  <2> QED BY ONLY <1>3, <2>1, <2>2, CountsAre
<1>9. Len(t) = Len(s)
  BY <1>2, <1>7, <1>8
<1>10. g[i] = Len(y.files) /\ f[i] = Len(s[i].files) /\ \A k \in DOMAIN s : k # i => g[k] = f[k]
  BY <1>2, <1>5, <1>6
<1>11. SumOf(g) + f[i] = SumOf(f) + g[i]
  BY <1>7, <1>8, <1>9, <1>10, SumChanged
<1>12. SumOf(f) \in Nat /\ SumOf(g) \in Nat
  BY <1>7, <1>8, SumType
<1> QED BY <1>10, <1>11, <1>12 DEF Lens, f, g, t

-----------------------------------------------------------------------------
(* Operands and providers of files, in their order among all *)

FilesOf(s) == Filtered(s, {i \in DOMAIN s : OwnerOf(s[i]) = Files})
FilesIn(s) == Filtered(s, {i \in DOMAIN s : s[i].kind = "File"})

(* What is filtered of a list. *)
LEMMA FilteredAre ==
  ASSUME NEW s, IsList(s), NEW T
  PROVE  /\ IsList(Filtered(s, T))
         /\ \A x : x \in Range(Filtered(s, T)) <=> \E i \in DOMAIN s : i \in T /\ s[i] = x
<1> DEFINE r == Filtered(s, T)
<1>1. s \in Seq(Range(s))
  BY DEF IsList
<1>2. PICK e : IsPick(e, s, T, r)
  BY <1>1, FilterPicks
<1> DEFINE m == Len(e)
<1>3. e \in Seq(DOMAIN s) /\ m \in Nat /\ DOMAIN e = 1..m
  BY <1>2 DEF IsPick
<1>4. r = [k \in 1..m |-> s[e[k]]]
  BY <1>2 DEF IsPick
<1>5. \A i \in DOMAIN s : i \in T <=> \E k \in 1..m : e[k] = i
  BY <1>2, <1>3 DEF IsPick
<1> HIDE DEF r, m
<1>6. DOMAIN r = 1..m /\ \A k \in 1..m : e[k] \in DOMAIN s /\ r[k] = s[e[k]]
  BY <1>3, <1>4
<1>7. ASSUME NEW x PROVE x \in Range(r) <=> \E i \in DOMAIN s : i \in T /\ s[i] = x
  <2>1. x \in Range(r) => \E i \in DOMAIN s : i \in T /\ s[i] = x
    BY <1>5, <1>6 DEF Range
  <2>2. (\E i \in DOMAIN s : i \in T /\ s[i] = x) => x \in Range(r)
    BY <1>5, <1>6 DEF Range
  <2> QED BY <2>1, <2>2
<1>8. IsList(r)
  <2>1. r \in Seq(Range(s))
    BY <1>1, <1>3, <1>4, <1>6 DEF Range
  <2> QED BY <2>1, RangeIsList DEF IsList
<1> QED BY <1>7, <1>8 DEF r

(* The operands that name files, as file_operands filters them. *)
LEMMA FilesOfIs ==
  ASSUME NEW s
  PROVE  Filter(s, LAMBDA r : OwnerOf(r) = Files) = FilesOf(s)
<1> DEFINE T == {i \in DOMAIN s : OwnerOf(s[i]) = Files}
<1>1. [i \in DOMAIN s |-> IF OwnerOf(s[i]) = Files THEN <<s[i]>> ELSE <<>>]
        = [i \in DOMAIN s |-> IF i \in T THEN <<s[i]>> ELSE <<>>]
  OBVIOUS
<1> QED BY <1>1 DEF FilesOf, Filter, Filtered, Passed

(* The providers of files, before and after a step. *)
LEMMA FilesInIs ==
  FileProviders = FilesIn(providers) /\ FileProviders' = FilesIn(providers')
<1>1. [i \in DOMAIN providers |-> IF providers[i].kind = "File" THEN <<providers[i]>> ELSE <<>>]
        = [i \in DOMAIN providers |->
             IF i \in {j \in DOMAIN providers : providers[j].kind = "File"}
             THEN <<providers[i]>> ELSE <<>>]
  OBVIOUS
<1>2. [i \in DOMAIN providers' |-> IF providers'[i].kind = "File" THEN <<providers'[i]>> ELSE <<>>]
        = [i \in DOMAIN providers' |->
             IF i \in {j \in DOMAIN providers' : providers'[j].kind = "File"}
             THEN <<providers'[i]>> ELSE <<>>]
  OBVIOUS
<1>3. FileProviders = FilesIn(providers)
  BY <1>1 DEF FileProviders, FilesIn, Filter, Filtered, Passed
<1>4. FileProviders' = FilesIn(providers')
  BY <1>2 DEF FileProviders, FilesIn, Filter, Filtered, Passed
<1> QED BY <1>3, <1>4

(* Which operands name files, none of none and one more of one more. *)
LEMMA FilesOfAppend ==
  ASSUME NEW s, IsList(s), NEW r
  PROVE  FilesOf(Append(s, r)) = IF OwnerOf(r) = Files THEN Append(FilesOf(s), r) ELSE FilesOf(s)
<1> DEFINE t == Append(s, r)
           D == Range(s) \cup {r}
           T == {i \in DOMAIN t : OwnerOf(t[i]) = Files}
           Q == {i \in DOMAIN s : OwnerOf(s[i]) = Files}
<1>1. s \in Seq(D) /\ r \in D
  BY DEF IsList
<1>2. /\ Len(s) \in Nat /\ DOMAIN s = 1..Len(s) /\ DOMAIN t = 1..(Len(s) + 1)
      /\ t[Len(s) + 1] = r /\ \A i \in 1..Len(s) : t[i] = s[i]
  BY <1>1
<1> HIDE DEF t
<1>3. \A i \in 1..Len(s) : i \in T <=> i \in Q
  BY <1>2
<1>4. Len(s) + 1 \in T <=> OwnerOf(r) = Files
  BY <1>2
<1>5. FilesOf(t) = Filtered(t, T) /\ FilesOf(s) = Filtered(s, Q)
  BY DEF FilesOf
<1> HIDE DEF T, Q, D
<1>6. Filtered(t, T) = IF Len(s) + 1 \in T THEN Append(Filtered(s, Q), r) ELSE Filtered(s, Q)
  BY <1>1, <1>3, FilterAppend DEF t
<1>7. FilesOf(t) = IF OwnerOf(r) = Files THEN Append(FilesOf(s), r) ELSE FilesOf(s)
  BY <1>4, <1>5, <1>6
<1> QED BY <1>7 DEF t

(* One more provider is one more of files where it is one of files. *)
LEMMA FilesInAppend ==
  ASSUME NEW s, IsList(s), NEW r
  PROVE  FilesIn(Append(s, r)) = IF r.kind = "File" THEN Append(FilesIn(s), r) ELSE FilesIn(s)
<1> DEFINE t == Append(s, r)
           D == Range(s) \cup {r}
           T == {i \in DOMAIN t : t[i].kind = "File"}
           Q == {i \in DOMAIN s : s[i].kind = "File"}
<1>1. s \in Seq(D) /\ r \in D
  BY DEF IsList
<1>2. /\ Len(s) \in Nat /\ DOMAIN s = 1..Len(s) /\ DOMAIN t = 1..(Len(s) + 1)
      /\ t[Len(s) + 1] = r /\ \A i \in 1..Len(s) : t[i] = s[i]
  BY <1>1
<1> HIDE DEF t
<1>3. \A i \in 1..Len(s) : i \in T <=> i \in Q
  BY <1>2
<1>4. Len(s) + 1 \in T <=> r.kind = "File"
  BY <1>2
<1>5. FilesIn(t) = Filtered(t, T) /\ FilesIn(s) = Filtered(s, Q)
  BY DEF FilesIn
<1> HIDE DEF T, Q, D
<1>6. Filtered(t, T) = IF Len(s) + 1 \in T THEN Append(Filtered(s, Q), r) ELSE Filtered(s, Q)
  BY <1>1, <1>3, FilterAppend DEF t
<1>7. FilesIn(t) = IF r.kind = "File" THEN Append(FilesIn(s), r) ELSE FilesIn(s)
  BY <1>4, <1>5, <1>6
<1> QED BY <1>7 DEF t

(* Nothing is filtered of no operands and of no providers. *)
LEMMA NothingFiltered == FilesOf(<<>>) = <<>> /\ FilesIn(<<>>) = <<>>
<1>1. <<>> \in Seq({}) /\ Len(<<>>) = 0
  OBVIOUS
<1>2. \A T : Filtered(<<>>, T) = <<>>
  <2> TAKE T
  <2>1. 1..Len(<<>>) \subseteq T
    BY <1>1
  <2> QED BY <1>1, <2>1, FilterAll
<1> QED BY <1>2 DEF FilesOf, FilesIn

(* Where all patterns name files, the operands that do are those of the exact
   references and then the patterns. *)
LEMMA FilesOfCommand ==
  ASSUME NEW s, IsList(s), NEW t, IsList(t), \A r \in Range(t) : OwnerOf(r) = Files
  PROVE  FilesOf(s \o t) = FilesOf(s) \o t
<1> DEFINE u == s \o t
           D == Range(s) \cup Range(t)
           T == {i \in DOMAIN u : OwnerOf(u[i]) = Files}
           Q == {i \in DOMAIN s : OwnerOf(s[i]) = Files}
           P == 1..Len(t)
<1>1. s \in Seq(D) /\ t \in Seq(D)
  BY DEF IsList
<1>2. /\ Len(s) \in Nat /\ Len(t) \in Nat /\ DOMAIN s = 1..Len(s) /\ DOMAIN t = 1..Len(t)
      /\ DOMAIN u = 1..(Len(s) + Len(t))
      /\ \A i \in 1..(Len(s) + Len(t)) : u[i] = IF i <= Len(s) THEN s[i] ELSE t[i - Len(s)]
  <2>1. u \in Seq(D) /\ Len(u) = Len(s) + Len(t) /\ Len(s) \in Nat /\ Len(t) \in Nat
    BY <1>1, ConcatProperties
  <2>2. \A i \in 1..(Len(s) + Len(t)) : u[i] = IF i <= Len(s) THEN s[i] ELSE t[i - Len(s)]
    BY <1>1, <2>1, ConcatProperties
  <2>3. DOMAIN u = 1..(Len(s) + Len(t))
    <3> HIDE DEF u
    <3> QED BY <2>1
  <2> QED BY <1>1, <2>1, <2>2, <2>3
<1> HIDE DEF u
<1>3. \A i \in 1..Len(s) : i \in T <=> i \in Q
  BY <1>2
<1>4. ASSUME NEW i \in 1..Len(t) PROVE Len(s) + i \in T <=> i \in P
  <2> DEFINE k == Len(s) + i
  <2>1. k \in 1..(Len(s) + Len(t)) /\ ~(k <= Len(s)) /\ k - Len(s) = i
    BY <1>2
  <2> HIDE DEF k
  <2>2. u[k] = t[i]
    BY <1>2, <2>1
  <2>3. t[i] \in Range(t)
    BY <1>2 DEF Range
  <2> QED BY <1>2, <2>1, <2>2, <2>3 DEF k
<1>5. FilesOf(u) = Filtered(u, T) /\ FilesOf(s) = Filtered(s, Q)
  BY DEF FilesOf
<1>6. Filtered(t, P) = t
  BY <1>1, FilterAll
<1> HIDE DEF T, Q, P, D
<1>7. Filtered(u, T) = Filtered(s, Q) \o Filtered(t, P)
  BY <1>1, <1>3, <1>4, FilterJoin DEF u
<1> QED BY <1>5, <1>6, <1>7 DEF u

-----------------------------------------------------------------------------
(* The invariant of what is gathered *)

(* The files of the operand at hand that no provider reads yet. *)
Current == Range(found) \cup Range(building.files) \cup UNION {Range(g.files) : g \in Range(groups)}

(* o is a file of g, and is what g says it is. *)
Kind(g, o) ==
  o \in Range(g.files) /\ Identified(o) = [format |-> g.format, answer |-> g.variant]
(* A provider, or what the operand at hand found or grouped, has o for r. *)
InProvider(r, o) == \E p \in Range(providers) :
  p.kind = "File" /\ Kind(p, o) /\ Range(p.files) \subseteq r.objects
InCurrent(r, o) ==
  /\ Current \subseteq r.objects
  /\ o \in Range(found) \/ Kind(building, o) \/ \E g \in Range(groups) : Kind(g, o)

(* As many files are found, grouped, built or provided as the operands done
   name, each of them where it belongs. *)
Held == Lens(FilesIn(providers)) + Len(building.files) + Lens(groups) + Len(found)
Done(d) ==
  /\ IsList(d) /\ Args.references \o Args.patterns = d \o operands
  /\ Held = Cards(FilesOf(d))
  /\ \A r \in Range(FilesOf(d)) : \A o \in r.objects : InProvider(r, o) \/ InCurrent(r, o)

(* It holds while the inputs are made; nothing is at hand once they are; and
   patterns name files. *)
HeldInv == stage = "bound" /\ ~Early => \E d : Done(d)
ReadyInv ==
  ~Early /\ phase # "inputs" => operands = <<>> /\ found = <<>> /\ groups = <<>> /\ building = NoGroup
PatternsInv == ~Early /\ stage = "bound" => \A r \in Range(Args.patterns) : OwnerOf(r) = Files
GatherInv == HeldInv /\ ReadyInv /\ PatternsInv

(* At first there are no inputs. *)
LEMMA GatherInvInit == CommandInit => GatherInv
BY DEF CommandInit, InputsInit, GatherInv, HeldInv, ReadyInv, PatternsInv, Early

(* What an object is depends on the parts and the command line alone. *)
LEMMA SameAsEver ==
  ASSUME parts' = parts, chosen' = chosen
  PROVE  /\ Args' = Args
         /\ \A r : OwnerOf(r)' = OwnerOf(r)
         /\ \A s : FilesOf(s)' = FilesOf(s)
         /\ \A g, o : Kind(g, o)' <=> Kind(g, o)
<1>1. Args' = Args
  BY DEF Args
<1>2. \A r : OwnerOf(r)' = OwnerOf(r)
  BY DEF OwnerOf
<1>3. \A s : FilesOf(s)' = FilesOf(s)
  <2> TAKE s
  <2>1. {i \in DOMAIN s : OwnerOf(s[i])' = Files} = {i \in DOMAIN s : OwnerOf(s[i]) = Files}
    BY <1>2
  <2> QED BY <2>1 DEF FilesOf
<1>4. \A o : Identified(o)' = Identified(o)
  BY <1>1 DEF Identified
<1>5. \A g, o : Kind(g, o)' <=> Kind(g, o)
  BY <1>4 DEF Kind
<1> QED BY <1>1, <1>2, <1>3, <1>5

(* Steps that leave the inputs alone. *)
LEMMA GatherStays ==
  ASSUME GatherInv, UNCHANGED <<operands, found, groups, building, providers>>,
         stage' = "bound" => stage = "bound" /\ UNCHANGED <<parts, chosen>>,
         Early' <=> Early, ~Early' /\ phase' # "inputs" =>
            \/ phase # "inputs"
            \/ operands = <<>> /\ found = <<>> /\ groups = <<>> /\ building = NoGroup
  PROVE  GatherInv'
<1>1. HeldInv'
  <2> SUFFICES ASSUME stage' = "bound", ~Early' PROVE (\E d : Done(d))'
    BY DEF HeldInv
  <2>1. parts' = parts /\ chosen' = chosen
    OBVIOUS
  <2>2. PICK d : Done(d)
    BY DEF GatherInv, HeldInv
  <2>3. /\ Args' = Args /\ FilesOf(d)' = FilesOf(d)
        /\ \A g, o : Kind(g, o)' <=> Kind(g, o)
    BY <2>1, SameAsEver
  <2>4. Current' = Current /\ Held' = Held
    BY DEF Current, Held
  <2>5. \A r, o : InProvider(r, o) => InProvider(r, o)'
    BY <2>3 DEF InProvider
  <2>6. \A r, o : InCurrent(r, o) => InCurrent(r, o)'
    BY <2>3, <2>4 DEF InCurrent
  <2>7. Done(d)'
    BY <2>2, <2>3, <2>4, <2>5, <2>6 DEF Done
  <2> QED BY <2>7
<1>2. ReadyInv'
  BY DEF GatherInv, ReadyInv
<1>3. PatternsInv'
  <2> SUFFICES ASSUME ~Early', stage' = "bound" PROVE \A r \in Range(Args'.patterns) : OwnerOf(r)' = Files
    BY DEF PatternsInv
  <2>1. Args' = Args /\ \A r : OwnerOf(r)' = OwnerOf(r)
    BY SameAsEver
  <2> QED BY <2>1 DEF GatherInv, PatternsInv
<1> QED BY <1>1, <1>2, <1>3 DEF GatherInv

(* Sums of numbers of files are numbers. *)
LEMMA LensIsNat ==
  ASSUME NEW s, IsList(s), \A i \in DOMAIN s : Len(s[i].files) \in Nat
  PROVE  Lens(s) \in Nat
<1> DEFINE f == [i \in DOMAIN s |-> Len(s[i].files)]
<1>1. \A i \in DOMAIN s : f[i] \in Nat
  OBVIOUS
<1>2. f = [i \in DOMAIN s |-> f[i]]
  OBVIOUS
<1> HIDE DEF f
<1>3. f \in Seq(Nat)
  BY <1>1, <1>2, CountsAre
<1> QED BY <1>3, SumType DEF Lens, f

(* The files of each part are counted. *)
LEMMA NumbersHeld ==
  ASSUME InputsInv
  PROVE  /\ IsList(providers) /\ IsList(groups) /\ found \in Seq(Objects)
         /\ IsList(FilesIn(providers))
         /\ \A i \in DOMAIN FilesIn(providers) : Len(FilesIn(providers)[i].files) \in Nat
         /\ \A i \in DOMAIN groups : Len(groups[i].files) \in Nat
         /\ Len(building.files) \in Nat /\ Len(found) \in Nat
         /\ Lens(FilesIn(providers)) \in Nat /\ Lens(groups) \in Nat
<1>1. IsList(providers) /\ IsList(groups) /\ found \in Seq(Objects)
  BY DEF InputsInv, ProvidersInv, GroupsInv, InOrder
<1>2. \A fs : InOrder(fs) => Len(fs) \in Nat
  BY DEF InOrder
<1> DEFINE F == FilesIn(providers)
<1>3. IsList(F) /\ \A p \in Range(F) : p \in Range(providers) /\ p.kind = "File"
  <2>1. F = Filtered(providers, {i \in DOMAIN providers : providers[i].kind = "File"})
    BY DEF FilesIn
  <2> HIDE DEF F
  <2>2. IsList(F)
    BY <1>1, <2>1, FilteredAre
  <2>3. ASSUME NEW p \in Range(F) PROVE p \in Range(providers) /\ p.kind = "File"
    <3>1. \E i \in DOMAIN providers : i \in {j \in DOMAIN providers : providers[j].kind = "File"}
                                      /\ providers[i] = p
      BY <1>1, <2>1, FilteredAre
    <3> QED BY <3>1 DEF Range
  <2> QED BY <2>2, <2>3
<1> HIDE DEF F
<1>4. ASSUME NEW i \in DOMAIN F PROVE Len(F[i].files) \in Nat
  <2>1. F[i] \in Range(F)
    BY DEF Range
  <2>2. InOrder(F[i].files)
    BY <1>3, <2>1 DEF InputsInv, ProvidersInv, IsProvider
  <2> QED BY <1>2, <2>2
<1>5. ASSUME NEW i \in DOMAIN groups PROVE Len(groups[i].files) \in Nat
  <2>1. groups[i] \in Range(groups)
    BY DEF Range
  <2>2. InOrder(groups[i].files)
    BY <2>1 DEF InputsInv, GroupsInv, IsGroup
  <2> QED BY <1>2, <2>2
<1>6. Len(building.files) \in Nat
  <2>1. CASE building = NoGroup
    <3>1. building.files = <<>>
      BY <2>1 DEF NoGroup
    <3> QED BY <3>1
  <2>2. CASE building # NoGroup
    <3>1. InOrder(building.files)
      BY <2>2 DEF InputsInv, BuildingInv, IsBuilding
    <3> QED BY <1>2, <3>1
  <2> QED BY <2>1, <2>2
<1>7. Len(found) \in Nat
  BY <1>1
<1>8. Lens(F) \in Nat
  BY <1>3, <1>4, LensIsNat
<1>9. Lens(groups) \in Nat
  BY <1>1, <1>5, LensIsNat
<1> QED BY <1>1, <1>3, <1>4, <1>5, <1>6, <1>7, <1>8, <1>9 DEF F

(* One operand is done: it follows those that were. *)
LEMMA NextDone ==
  ASSUME NEW d, IsList(d), NEW s, IsList(s), s # <<>>
  PROVE  d \o s = Append(d, Head(s)) \o Tail(s) /\ IsList(Append(d, Head(s)))
<1> DEFINE D == Range(d) \cup Range(s)
           x == Head(s)
           t == Tail(s)
<1>1. d \in Seq(D) /\ s \in Seq(D)
  BY DEF IsList
<1>2. /\ x = s[1] /\ x \in D /\ t \in Seq(D) /\ Len(t) = Len(s) - 1 /\ Len(s) \in Nat /\ Len(s) # 0
      /\ \A i \in 1..(Len(s) - 1) : t[i] = s[i + 1]
  BY <1>1, EmptySeq, HeadTailProperties
<1> HIDE DEF D, x, t
<1> DEFINE u == d \o s
           e == Append(d, x)
           v == e \o t
<1>3. e \in Seq(D) /\ Len(e) = Len(d) + 1 /\ e[Len(d) + 1] = x /\ Len(d) \in Nat
      /\ \A i \in 1..Len(d) : e[i] = d[i]
  BY <1>1, <1>2
<1> HIDE DEF e
<1>4. u \in Seq(D) /\ Len(u) = Len(d) + Len(s)
      /\ \A i \in 1..(Len(d) + Len(s)) : u[i] = IF i <= Len(d) THEN d[i] ELSE s[i - Len(d)]
  BY <1>1, ConcatProperties
<1>5. v \in Seq(D) /\ Len(v) = Len(e) + Len(t)
      /\ \A i \in 1..(Len(e) + Len(t)) : v[i] = IF i <= Len(e) THEN e[i] ELSE t[i - Len(e)]
  BY <1>2, <1>3, ConcatProperties
<1> HIDE DEF u, v
<1>6. Len(v) = Len(u)
  BY <1>2, <1>3, <1>4, <1>5
<1>7. ASSUME NEW i \in 1..Len(u) PROVE u[i] = v[i]
  <2>1. i \in 1..(Len(d) + Len(s)) /\ i \in 1..(Len(e) + Len(t))
    BY <1>4, <1>5, <1>6
  <2>2. CASE i <= Len(d)
    <3>1. u[i] = d[i]
      BY <1>4, <2>1, <2>2
    <3>2. v[i] = e[i]
      BY <1>3, <1>5, <2>1, <2>2
    <3> QED BY <1>3, <2>2, <3>1, <3>2
  <2>3. CASE i = Len(d) + 1
    <3>1. u[i] = s[i - Len(d)] /\ i - Len(d) = 1
      BY <1>3, <1>4, <2>1, <2>3
    <3>2. v[i] = e[i]
      BY <1>3, <1>5, <2>1, <2>3
    <3> QED BY <1>2, <1>3, <2>3, <3>1, <3>2
  <2>4. CASE i > Len(d) + 1
    <3>1. u[i] = s[i - Len(d)]
      BY <1>3, <1>4, <2>1, <2>4
    <3>2. v[i] = t[i - Len(e)] /\ i - Len(e) = i - Len(d) - 1
      BY <1>3, <1>5, <2>1, <2>4
    <3> DEFINE j == i - Len(d) - 1
    <3>3. j \in 1..(Len(s) - 1) /\ j + 1 = i - Len(d)
      BY <1>2, <1>3, <1>4, <2>1, <2>4
    <3> HIDE DEF j
    <3>4. t[j] = s[j + 1]
      BY <1>2, <3>3
    <3>5. v[i] = t[j]
      BY <3>2 DEF j
    <3> QED BY <3>1, <3>3, <3>4, <3>5
  <2> QED BY <1>3, <2>1, <2>2, <2>3, <2>4
<1>8. u = v
  BY <1>4, <1>5, <1>6, <1>7, SeqEqual
<1>9. IsList(e)
  BY ListAppend DEF e
<1> QED BY <1>8, <1>9 DEF u, v, e, x, t

(* While the inputs are made, only what is gathered changes. *)
LEMMA GatherOn ==
  ASSUME GatherInv, parts' = parts, chosen' = chosen, stage = "bound", phase = "inputs",
         phase' = phase, stage' = "bound" => \E d : Done(d)'
  PROVE  GatherInv'
<1>1. HeldInv'
  <2> SUFFICES ASSUME stage' = "bound" PROVE (\E d : Done(d))'
    BY DEF HeldInv
  <2> QED OBVIOUS
<1>2. ReadyInv'
  BY DEF ReadyInv
<1>3. PatternsInv'
  <2> SUFFICES ASSUME ~Early', stage' = "bound" PROVE \A r \in Range(Args'.patterns) : OwnerOf(r)' = Files
    BY DEF PatternsInv
  <2>1. Args' = Args /\ \A r : OwnerOf(r)' = OwnerOf(r)
    BY SameAsEver
  <2>2. ~Early
    BY DEF Early
  <2> QED BY <2>1, <2>2 DEF GatherInv, PatternsInv
<1> QED BY <1>1, <1>2, <1>3 DEF GatherInv

(* The operands done are those of the command. *)
LEMMA DoneNumbers ==
  ASSUME CatalogInv, ArgsKnown, InputsInv, NEW d, Done(d)
  PROVE  /\ IsList(FilesOf(d)) /\ \A i \in DOMAIN FilesOf(d) : Cardinality(FilesOf(d)[i].objects) \in Nat
         /\ \A r \in Range(FilesOf(d)) : OwnerOf(r) = Files
<1> DEFINE F == FilesOf(d)
           T == {i \in DOMAIN d : OwnerOf(d[i]) = Files}
           refs == Args.references
           pats == Args.patterns
<1>1. IsList(refs) /\ IsList(pats) /\ \A r \in Range(refs) \cup Range(pats) : IsOperand(r)
  BY CommandOperands
<1>2. IsList(d) /\ IsList(operands) /\ refs \o pats = d \o operands
  BY DEF Done, InputsInv, OperandsInv
<1> HIDE DEF refs, pats
<1>3. Range(refs \o pats) = Range(refs) \cup Range(pats)
  BY <1>1, ListConcat
<1>4. Range(d \o operands) = Range(d) \cup Range(operands)
  BY <1>2, ListConcat
<1>5. \A r \in Range(d) : IsOperand(r)
  BY <1>1, <1>2, <1>3, <1>4
<1>6. F = Filtered(d, T)
  BY DEF FilesOf
<1> HIDE DEF F
<1>7. IsList(F) /\ \A x : x \in Range(F) <=> \E i \in DOMAIN d : i \in T /\ d[i] = x
  BY <1>2, <1>6, FilteredAre
<1>8. \A x \in Range(F) : x \in Range(d) /\ OwnerOf(x) = Files
  BY <1>7 DEF Range
<1>9. \A i \in DOMAIN F : Cardinality(F[i].objects) \in Nat
  <2> SUFFICES ASSUME NEW i \in DOMAIN F PROVE Cardinality(F[i].objects) \in Nat
    OBVIOUS
  <2>1. F[i] \in Range(F)
    BY DEF Range
  <2>2. IsFiniteSet(F[i].objects)
    BY <1>5, <1>8, <2>1 DEF IsOperand
  <2> QED BY <2>2, FS_CardinalityType
<1> QED BY <1>7, <1>8, <1>9 DEF F

(* The patterns are accepted, and nothing is done. *)
LEMMA GatherStarts ==
  ASSUME CatalogInv, ChosenInv, InputsInv, WorkInv, GatherInv, CheckPatterns,
         parts' = parts, chosen' = chosen
  PROVE  GatherInv'
<1>1. /\ phase = "patterns" /\ stage = "bound"
      /\ operands' = Args.references \o Args.patterns
      /\ UNCHANGED <<found, groups, building, providers>>
      /\ phase' \in {"patterns", "inputs"}
      /\ stage' = "bound" => phase' = "inputs" /\ \A r \in Range(Args.patterns) : PatternAccepted(r)
      /\ phase' = "inputs" => \A r \in Range(Args.patterns) : PatternAccepted(r)
  BY DEF CheckPatterns, Running, groupVars, Fail
<1>2. ArgsKnown
  <2>1. chosen.name = "transform"
    BY DEF CheckPatterns, Running
  <2> QED BY <1>1, <2>1 DEF ChosenInv
<1>3. NothingYet
  BY <1>1 DEF WorkInv, NothingInv, Early
<1>4. Args' = Args /\ (\A r : OwnerOf(r)' = OwnerOf(r)) /\ \A s : FilesOf(s)' = FilesOf(s)
  BY SameAsEver
<1>5. IsList(Args.references) /\ IsList(Args.patterns)
  BY <1>1, <1>2, CommandOperands
<1>6. Done(<<>>)'
  <2> DEFINE u == Args.references \o Args.patterns
  <2>1. IsList(u)
    BY <1>5, ListConcat
  <2> HIDE DEF u
  <2>2. <<>> \o u = u
    <3>1. u \in Seq(Range(u))
      BY <2>1 DEF IsList
    <3> QED BY <3>1
  <2>3. FilesOf(<<>>)' = <<>>
    BY <1>4, NothingFiltered
  <2>4. FilesIn(providers') = <<>> /\ groups' = <<>> /\ found' = <<>> /\ building'.files = <<>>
    BY <1>1, <1>3, NothingFiltered DEF NothingYet, NoGroup
  <2>5. Lens(<<>>) = 0 /\ Cards(<<>>) = 0
    <3>1. [i \in DOMAIN <<>> |-> Len((<<>>)[i].files)] = <<>>
      OBVIOUS
    <3>2. [i \in DOMAIN <<>> |-> Cardinality((<<>>)[i].objects)] = <<>>
      OBVIOUS
    <3> QED BY <3>1, <3>2, SumOfNothing DEF Lens, Cards
  <2>6. Held' = 0
    <3>1. Len(<<>>) = 0
      OBVIOUS
    <3> QED BY <2>4, <2>5, <3>1 DEF Held
  <2>7. IsList(<<>>) /\ Range(<<>>) = {}
    BY ListOfNothing
  <2>8. Args'.references \o Args'.patterns = <<>> \o operands'
    BY <1>1, <1>4, <2>2 DEF u
  <2>9. Held' = Cards(FilesOf(<<>>)')
    BY <2>3, <2>5, <2>6
  <2>10. \A r \in Range(FilesOf(<<>>)') : FALSE
    BY <2>3, <2>7
  <2> QED BY <2>7, <2>8, <2>9, <2>10 DEF Done
<1>7. HeldInv'
  BY <1>6 DEF HeldInv
<1>8. ReadyInv'
  BY <1>1 DEF ReadyInv, Early
<1>9. PatternsInv'
  <2> SUFFICES ASSUME stage' = "bound" PROVE \A r \in Range(Args'.patterns) : OwnerOf(r)' = Files
    BY DEF PatternsInv
  <2>1. \A r \in Range(Args.patterns) : OwnerOf(r) = Files
    BY <1>1 DEF PatternAccepted, OwnerOf
  <2> QED BY <1>4, <2>1
<1> QED BY <1>7, <1>8, <1>9 DEF GatherInv

(* What was placed stays where it is while the providers stay, or there is one
   more, and nothing is at hand. *)
LEMMA StaysProvided ==
  ASSUME parts' = parts, chosen' = chosen, Range(providers) \subseteq Range(providers')
  PROVE  \A r, o : InProvider(r, o) => InProvider(r, o)'
<1>1. \A g, o : Kind(g, o)' <=> Kind(g, o)
  BY SameAsEver
<1> QED BY <1>1 DEF InProvider

(* An object at hand is in no group and in no match once nothing is. *)
LEMMA NothingCurrent ==
  ASSUME found = <<>>, groups = <<>>, building = NoGroup
  PROVE  \A r, o : ~InCurrent(r, o)
<1>1. Range(found) = {} /\ Range(groups) = {} /\ Range(building.files) = {}
  BY ListOfNothing DEF NoGroup
<1> QED BY <1>1 DEF InCurrent, Kind

(* An operand of a service is not one of files. *)
LEMMA GatherOfService ==
  ASSUME CatalogInv, ArgsKnown, InputsInv, GatherInv, ServiceInput, parts' = parts, chosen' = chosen
  PROVE  GatherInv'
<1> DEFINE p == [kind |-> "Service", files |-> <<>>]
<1>0. PICK r : r = Head(operands)
  OBVIOUS
<1>1. /\ stage = "bound" /\ phase = "inputs" /\ phase' = phase
      /\ found = <<>> /\ groups = <<>> /\ building = NoGroup
      /\ operands # <<>> /\ OwnerOf(r) > Files /\ operands' = Tail(operands)
      /\ UNCHANGED <<found, groups, building>>
      /\ stage' = "bound" => providers' = Append(providers, p)
  BY <1>0 DEF ServiceInput, Idle, Running, groupVars, Quiet, Fail
<1>2. ASSUME stage' = "bound" PROVE \E d : Done(d)'
  <2>1. PICK d : Done(d)
    BY <1>1 DEF GatherInv, HeldInv, Early
  <2>2. IsList(d) /\ IsList(operands) /\ IsList(providers)
    BY <2>1, NumbersHeld DEF Done, InputsInv, OperandsInv
  <2>0. PICK e : e = Append(d, r)
    OBVIOUS
  <2>3. d \o operands = e \o operands' /\ IsList(e)
    BY <1>0, <1>1, <2>0, <2>2, NextDone
  <2>4. Args' = Args /\ FilesOf(e)' = FilesOf(e)
    BY SameAsEver
  <2>5. FilesOf(e) = FilesOf(d)
    <3>1. OwnerOf(r) # Files
      BY <1>1 DEF Files
    <3> QED BY <2>0, <2>2, <3>1, FilesOfAppend
  <2> HIDE DEF p
  <2>6. FilesIn(providers') = FilesIn(providers)
    <3>1. p.kind # "File"
      BY DEF p
    <3> QED BY <1>1, <1>2, <2>2, <3>1, FilesInAppend
  <2>7. Held' = Held
    BY <1>1, <2>6 DEF Held
  <2>8. Range(providers) \subseteq Range(providers')
    <3>1. Range(Append(providers, p)) = Range(providers) \cup {p}
      BY <2>2, ListAppend
    <3>2. providers' = Append(providers, p)
      BY <1>1, <1>2
    <3> QED BY <3>1, <3>2
  <2>9. \A q \in Range(FilesOf(e)') : \A o \in q.objects : InProvider(q, o)'
    <3> SUFFICES ASSUME NEW q \in Range(FilesOf(d)), NEW o \in q.objects PROVE InProvider(q, o)'
      BY <2>4, <2>5
    <3>1. InProvider(q, o)
      BY <1>1, <2>1, NothingCurrent DEF Done
    <3> QED BY <2>8, <3>1, StaysProvided
  <2>10. Args'.references \o Args'.patterns = e \o operands'
    BY <2>1, <2>3, <2>4 DEF Done
  <2>11. Held' = Cards(FilesOf(e)')
    BY <2>1, <2>4, <2>5, <2>7 DEF Done
  <2>12. Done(e)'
    BY <2>3, <2>9, <2>10, <2>11 DEF Done
  <2> QED BY <2>12
<1> QED BY <1>1, <1>2, GatherOn

(* The matches of an operand are all found. *)
LEMMA GatherOfFiles ==
  ASSUME CatalogInv, ArgsKnown, InputsInv, GatherInv, FileOperand, parts' = parts, chosen' = chosen
  PROVE  GatherInv'
<1>9. PICK r : r = Head(operands)
  OBVIOUS
<1> DEFINE S == r.objects
<1>1. /\ stage = "bound" /\ phase = "inputs" /\ phase' = phase
      /\ found = <<>> /\ groups = <<>> /\ building = NoGroup
      /\ operands # <<>> /\ OwnerOf(r) = Files /\ operands' = Tail(operands)
      /\ UNCHANGED <<groups, building, providers>>
      /\ stage' = "bound" => found' = InUrlOrder(S)
  BY <1>9 DEF FileOperand, Idle, Running, Quiet, Fail
<1>0. S \subseteq Objects /\ IsFiniteSet(S)
  BY <1>1, <1>9, ListTail DEF InputsInv, OperandsInv, IsOperand
<1> HIDE DEF S
<1>2. ASSUME stage' = "bound" PROVE \E d : Done(d)'
  <2>1. PICK d : Done(d)
    BY <1>1 DEF GatherInv, HeldInv, Early
  <2>2. IsList(d) /\ IsList(operands)
    BY <2>1 DEF Done, InputsInv, OperandsInv
  <2>0. PICK e : e = Append(d, r)
    OBVIOUS
  <2>3. d \o operands = e \o operands' /\ IsList(e)
    BY <1>1, <1>9, <2>0, <2>2, NextDone
  <2>4. Args' = Args /\ FilesOf(e)' = FilesOf(e)
    BY SameAsEver
  <2>5. FilesOf(e) = Append(FilesOf(d), r)
    BY <1>1, <2>0, <2>2, FilesOfAppend
  <2>6. /\ Len(found') = Cardinality(S) /\ Cardinality(S) \in Nat
        /\ Range(found') = S
    <3> DEFINE s == InUrlOrder(S)
    <3>1. Len(s) = Cardinality(S) /\ s \in Seq(S) /\ \A x \in S : \E i \in 1..Len(s) : s[i] = x
      BY <1>0, UrlOrderIs
    <3> HIDE DEF s
    <3>2. Range(s) = S
      <4>1. DOMAIN s = 1..Len(s) /\ \A i \in 1..Len(s) : s[i] \in S
        BY <3>1
      <4> QED BY <3>1, <4>1 DEF Range
    <3>3. found' = s
      BY <1>1, <1>2 DEF s
    <3> QED BY <1>0, <3>1, <3>2, <3>3, FS_CardinalityType
  <2>7. Cards(FilesOf(e)) = Cards(FilesOf(d)) + Cardinality(S) /\ Cards(FilesOf(d)) \in Nat
    <3>1. IsList(FilesOf(d)) /\ \A i \in DOMAIN FilesOf(d) : Cardinality(FilesOf(d)[i].objects) \in Nat
      BY <2>1, DoneNumbers
    <3>2. Cardinality(r.objects) \in Nat
      BY <2>6 DEF S
    <3> QED BY <2>5, <3>1, <3>2, CardsAppend DEF S
  <2>8. Held' = Held + Cardinality(S)
    <3>1. /\ FilesIn(providers') = FilesIn(providers) /\ groups' = groups /\ building' = building
      BY <1>1
    <3>2. Len(found) = 0
      BY <1>1
    <3> DEFINE a == Lens(FilesIn(providers))
               b == Len(building.files)
               c == Lens(groups)
               k == Cardinality(S)
    <3>3. a \in Nat /\ b \in Nat /\ c \in Nat /\ k \in Nat
      BY <2>6, NumbersHeld
    <3>4. Held = a + b + c + 0 /\ Held' = a + b + c + k
      BY <2>6, <3>1, <3>2 DEF Held
    <3> HIDE DEF a, b, c, k
    <3>5. Held' = Held + k
      BY <3>3, <3>4
    <3> QED BY <3>5 DEF k
  <2>9. Current' = S
    <3>1. Range(groups') = {} /\ Range(building'.files) = {}
      BY <1>1, ListOfNothing DEF NoGroup
    <3> QED BY <2>6, <3>1 DEF Current
  <2>10. ASSUME NEW q \in Range(FilesOf(e)'), NEW o \in q.objects
         PROVE  InProvider(q, o)' \/ InCurrent(q, o)'
    <3>0. IsList(FilesOf(d))
      BY <2>1, DoneNumbers
    <3>1. q \in Range(FilesOf(d)) \/ q = r
      BY <2>4, <2>5, <2>10, <3>0, ListAppend
    <3>2. CASE q \in Range(FilesOf(d))
      <4>1. InProvider(q, o)
        BY <1>1, <2>1, <2>10, <3>2, NothingCurrent DEF Done
      <4> QED BY <1>1, <4>1, StaysProvided
    <3>3. CASE q = r
      <4>1. q.objects = S
        BY <3>3 DEF S
      <4>2. InCurrent(q, o)'
        BY <2>6, <2>9, <2>10, <4>1 DEF InCurrent
      <4> QED BY <4>2
    <3> QED BY <3>1, <3>2, <3>3
  <2>11. Args'.references \o Args'.patterns = e \o operands'
    BY <2>1, <2>3, <2>4 DEF Done
  <2>12. Held' = Cards(FilesOf(e)')
    BY <2>1, <2>4, <2>7, <2>8 DEF Done
  <2>13. Done(e)'
    BY <2>3, <2>10, <2>11, <2>12 DEF Done
  <2> QED BY <2>13
<1> QED BY <1>1, <1>2, GatherOn

(* What is identified is a format and its answer. *)
LEMMA IdentifiedIs ==
  ASSUME NEW o
  PROVE  Identified(o) = [format |-> Identified(o).format, answer |-> Identified(o).answer]
<1> DEFINE IsAnswer(d) == d = [format |-> d.format, answer |-> d.answer]
<1>1. \A f, a : IsAnswer([format |-> f, answer |-> a])
  OBVIOUS
<1>2. \A F, S, R : IsAnswer(Ask(F, S, R, o))
  <2> TAKE F, S, R
  <2>1. \E f, a : Ask(F, S, R, o) = [format |-> f, answer |-> a]
    BY DEF Ask
  <2> HIDE DEF IsAnswer
  <2> QED BY <1>1, <2>1
<1>3. \E f, a : Unknown = [format |-> f, answer |-> a]
  BY DEF Unknown
<1> DEFINE B == Bound(parts.formats)
           i == Get(B, Args.inputFormat)
<1>4. \/ Identified(o) = BindingsDetect(parts.formats, o)
      \/ Identified(o) = Unknown
      \/ Identified(o) = [format |-> B[i].name, answer |-> o.answers[B[i].name]]
      \/ Identified(o) = [format |-> B[i].name, answer |-> "Unnamed"]
  BY DEF Identified
<1>5. IsAnswer(BindingsDetect(parts.formats, o))
  <2> HIDE DEF IsAnswer
  <2> QED BY <1>2 DEF BindingsDetect
<1>6. IsAnswer(Identified(o))
  <2> HIDE DEF IsAnswer, B, i
  <2> QED BY <1>1, <1>3, <1>4, <1>5
<1> QED BY <1>6

(* The groups G after o, which is what d says, joined them. *)
IsGrouped(G) == \A i \in DOMAIN G :
  /\ Len(G[i].files) \in Nat /\ IsList(G[i].files)
  /\ G[i] = [format |-> G[i].format, variant |-> G[i].variant, files |-> G[i].files]
IsJoined(G, d, o, H) ==
  /\ Lens(H) = Lens(G) + 1
  /\ \A g \in Range(G) : \E h \in Range(H) :
       h.format = g.format /\ h.variant = g.variant /\ Range(g.files) \subseteq Range(h.files)
  /\ \E h \in Range(H) : h.format = d.format /\ h.variant = d.answer /\ o \in Range(h.files)
  /\ \A h \in Range(H) : \/ h \in Range(G) \/ Range(h.files) = {o}
                         \/ \E g \in Range(G) : Range(h.files) = Range(g.files) \cup {o}

(* A file that joins the groups is in one of its kind; no other file leaves. *)
LEMMA JoinedAdds ==
  ASSUME NEW G, IsList(G), IsGrouped(G), NEW d, NEW o, NEW H, H = Joined(G, d, o)
  PROVE  IsJoined(G, d, o, H)
<1>0. \A i \in DOMAIN G :
        /\ Len(G[i].files) \in Nat /\ IsList(G[i].files)
        /\ G[i] = [format |-> G[i].format, variant |-> G[i].variant, files |-> G[i].files]
  BY DEF IsGrouped
<1>1. CASE H = Append(G, NewGroup(d, o))
  <2> DEFINE n == NewGroup(d, o)
  <2>1. n.format = d.format /\ n.variant = d.answer /\ n.files = <<o>>
    BY DEF NewGroup
  <2>2. Len(<<o>>) = 1 /\ DOMAIN <<o>> = {1} /\ (<<o>>)[1] = o
    OBVIOUS
  <2>3. Range(<<o>>) = {o}
    BY <2>2 DEF Range
  <2> HIDE DEF n
  <2>4. Range(H) = Range(G) \cup {n}
    BY <1>1, ListAppend DEF n
  <2>5. Lens(H) = Lens(G) + 1
    <3>1. \A i \in DOMAIN G : Len(G[i].files) \in Nat
      BY <1>0
    <3>2. Len(n.files) = 1 /\ Len(n.files) \in Nat
      BY <2>1, <2>2
    <3>3. H = Append(G, n)
      BY <1>1 DEF n
    <3>4. IsList(G)
      OBVIOUS
    <3>5. Lens(Append(G, n)) = Lens(G) + Len(n.files)
      BY ONLY <3>1, <3>2, <3>4, LensAppend
    <3> QED BY <3>2, <3>3, <3>5
  <2>6. \A g \in Range(G) : g \in Range(H)
    BY <2>4
  <2>7. n \in Range(H) /\ o \in Range(n.files) /\ Range(n.files) = {o}
    BY <2>1, <2>3, <2>4
  <2>8. \A h \in Range(H) : h \in Range(G) \/ Range(h.files) = {o}
    BY <2>4, <2>7
  <2>9. n.format = d.format /\ n.variant = d.answer /\ n \in Range(H) /\ o \in Range(n.files)
    BY <2>1, <2>7
  <2>10. \A g \in Range(G) : \E h \in Range(H) :
           h.format = g.format /\ h.variant = g.variant /\ Range(g.files) \subseteq Range(h.files)
    BY <2>6
  <2> QED BY <2>5, <2>8, <2>9, <2>10 DEF IsJoined
<1>2. ASSUME NEW i \in DOMAIN G, SameKind(G[i], d, o), H = [G EXCEPT ![i] = Longer1(G[i], o)]
      PROVE  IsJoined(G, d, o, H)
  <2> DEFINE x == Longer1(G[i], o)
             fs == G[i].files
  <2>1. x.format = G[i].format /\ x.variant = G[i].variant /\ x.files = Append(fs, o)
    BY DEF Longer1
  <2>2. G[i].format = d.format /\ G[i].variant = d.answer
    BY <1>2 DEF SameKind
  <2>3. IsList(fs) /\ Len(fs) \in Nat
    BY <1>0
  <2> HIDE DEF x, fs
  <2>4. Range(x.files) = Range(fs) \cup {o} /\ Len(x.files) = Len(fs) + 1
    BY <2>1, <2>3, ListAppend, LenAppend
  <2>5. H = [G EXCEPT ![i] = x]
    BY <1>2 DEF x
  <2>6. DOMAIN H = DOMAIN G /\ H[i] = x /\ \A k \in DOMAIN G : k # i => H[k] = G[k]
    BY <2>5
  <2>7. Lens(H) = Lens(G) + 1
    <3>1. \A k \in DOMAIN G : Len(G[k].files) \in Nat
      BY <1>0
    <3>2. Len(x.files) \in Nat
      BY <2>3, <2>4
    <3>3. Lens(H) + Len(fs) = Lens(G) + Len(x.files) /\ Lens(G) \in Nat /\ Lens(H) \in Nat
      <4>1. IsList(G) /\ i \in DOMAIN G
        OBVIOUS
      <4>2. /\ Lens([G EXCEPT ![i] = x]) + Len(G[i].files) = Lens(G) + Len(x.files)
            /\ Lens(G) \in Nat /\ Lens([G EXCEPT ![i] = x]) \in Nat
        BY ONLY <3>1, <3>2, <4>1, LensExcept
      <4> QED BY <2>5, <4>2 DEF fs
    <3> QED BY <2>3, <2>4, <3>3
  <2>8. ASSUME NEW g \in Range(G)
        PROVE  \E h \in Range(H) :
                  h.format = g.format /\ h.variant = g.variant /\ Range(g.files) \subseteq Range(h.files)
    <3>1. PICK k \in DOMAIN G : G[k] = g
      BY DEF Range
    <3>2. H[k] \in Range(H)
      BY <2>6 DEF Range
    <3>3. CASE k = i
      BY <2>1, <2>4, <2>6, <3>1, <3>2, <3>3 DEF fs
    <3>4. CASE k # i
      BY <2>6, <3>1, <3>2, <3>4
    <3> QED BY <3>3, <3>4
  <2>9. x \in Range(H) /\ o \in Range(x.files)
    BY <2>4, <2>6 DEF Range
  <2>10. ASSUME NEW h \in Range(H)
         PROVE  h \in Range(G) \/ \E g \in Range(G) : Range(h.files) = Range(g.files) \cup {o}
    <3>1. PICK k \in DOMAIN G : H[k] = h
      BY <2>6 DEF Range
    <3>2. G[k] \in Range(G)
      BY DEF Range
    <3>3. CASE k = i
      BY <2>4, <2>6, <3>1, <3>2, <3>3 DEF fs
    <3>4. CASE k # i
      BY <2>6, <3>1, <3>2, <3>4
    <3> QED BY <3>3, <3>4
  <2>11. x.format = d.format /\ x.variant = d.answer
    BY <2>1, <2>2
  <2> QED BY <2>7, <2>8, <2>9, <2>10, <2>11 DEF IsJoined
<1>3. \/ H = Append(G, NewGroup(d, o))
      \/ \E i \in DOMAIN G : SameKind(G[i], d, o) /\ H = [G EXCEPT ![i] = Longer1(G[i], o)]
  <2>1. \A i \in DOMAIN G : G[i] = [format |-> G[i].format, variant |-> G[i].variant,
                                   files |-> G[i].files]
    BY <1>0
  <2>2. \/ Joined(G, d, o) = Append(G, NewGroup(d, o))
        \/ \E i \in DOMAIN G : /\ SameKind(G[i], d, o)
                               /\ Joined(G, d, o) = [G EXCEPT ![i] = Longer1(G[i], o)]
    BY ONLY <2>1, JoinedIs
  <2> QED BY <2>2
<1>4. CASE \E i \in DOMAIN G : SameKind(G[i], d, o) /\ H = [G EXCEPT ![i] = Longer1(G[i], o)]
  <2>1. PICK i \in DOMAIN G : SameKind(G[i], d, o) /\ H = [G EXCEPT ![i] = Longer1(G[i], o)]
    BY <1>4
  <2> QED BY <1>2, <2>1
<1> QED BY <1>1, <1>3, <1>4

(* Steps within an operand: as many files as before, each of its kind, and no
   other file. *)
LEMMA GatherWithin ==
  ASSUME GatherInv, parts' = parts, chosen' = chosen, stage = "bound", phase = "inputs",
         UNCHANGED <<phase, operands>>, Range(providers) \subseteq Range(providers'),
         stage' = "bound" =>
           /\ Held' = Held /\ Current' \subseteq Current
           /\ \A r, o : InCurrent(r, o) => InProvider(r, o)' \/ InCurrent(r, o)'
  PROVE  GatherInv'
<1>1. ASSUME stage' = "bound" PROVE \E d : Done(d)'
  <2>1. PICK d : Done(d)
    BY DEF GatherInv, HeldInv, Early
  <2>2. Args' = Args /\ FilesOf(d)' = FilesOf(d)
    BY SameAsEver
  <2>3. \A r \in Range(FilesOf(d)') : \A o \in r.objects : InProvider(r, o)' \/ InCurrent(r, o)'
    <3> SUFFICES ASSUME NEW r \in Range(FilesOf(d)), NEW o \in r.objects
                 PROVE  InProvider(r, o)' \/ InCurrent(r, o)'
      BY <2>2
    <3>1. InProvider(r, o) \/ InCurrent(r, o)
      BY <2>1 DEF Done
    <3> QED BY <1>1, <3>1, StaysProvided
  <2>4. Done(d)'
    BY <1>1, <2>1, <2>2, <2>3 DEF Done
  <2> QED BY <2>4
<1> QED BY <1>1, GatherOn

(* An object that was found joins a group of its kind. *)
LEMMA GatherOfIdentify ==
  ASSUME InputsInv, GatherInv, Identify, parts' = parts, chosen' = chosen
  PROVE  GatherInv'
<1>1. PICK o : o = Head(found)
  OBVIOUS
<1>2. PICK d : d = Identified(o)
  OBVIOUS
<1>3. /\ stage = "bound" /\ phase = "inputs" /\ found # <<>>
      /\ UNCHANGED <<phase, operands, building, providers>>
      /\ stage' = "bound" => groups' = Joined(groups, d, o) /\ found' = Tail(found)
  BY <1>1, <1>2 DEF Identify, Running, Quiet, Fail
<1>4. IsList(groups) /\ InOrder(found) /\ \A g \in Range(groups) : IsGroup(g, found)
  BY DEF InputsInv, GroupsInv
<1>5. ASSUME stage' = "bound"
      PROVE  /\ Held' = Held /\ Current' \subseteq Current
             /\ \A r, a : InCurrent(r, a) => InProvider(r, a)' \/ InCurrent(r, a)'
  <2>1. groups' = Joined(groups, d, o) /\ found' = Tail(found)
    BY <1>3, <1>5
  <2>2. IsGrouped(groups)
    <3> SUFFICES ASSUME NEW i \in DOMAIN groups
                 PROVE  /\ Len(groups[i].files) \in Nat /\ IsList(groups[i].files)
                        /\ groups[i] = [format |-> groups[i].format, variant |-> groups[i].variant,
                                        files |-> groups[i].files]
      BY DEF IsGrouped
    <3> DEFINE g == groups[i]
    <3>1. g \in Range(groups)
      BY DEF Range
    <3> HIDE DEF g
    <3>2. g.files \in Seq(Objects) /\ g = [format |-> g.format, variant |-> g.variant, files |-> g.files]
      BY <1>4, <3>1 DEF IsGroup, InOrder
    <3>3. Len(g.files) \in Nat
      BY <3>2
    <3>4. IsList(g.files)
      BY <3>2, RangeIsList DEF IsList
    <3> QED BY <3>2, <3>3, <3>4 DEF g
  <2>3. IsJoined(groups, d, o, groups')
    BY <1>4, <2>1, <2>2, JoinedAdds
  <2>4. Range(found') \subseteq Range(found) /\ o \in Range(found) /\ IsList(found)
        /\ \A a \in Range(found) : a = o \/ a \in Range(found')
    <3> DEFINE s == found
               t == Tail(found)
               n == Len(t)
    <3>1. /\ s # <<>> /\ s \in Seq(Objects) /\ Len(s) = n + 1 /\ n \in Nat /\ o = s[1]
          /\ \A j \in 1..n : t[j] = s[j + 1]
          /\ t \in Seq(Objects)
      BY <1>1, <1>3, <1>4, FirstFound DEF InOrder
    <3>2. IsList(s)
      BY <3>1, RangeIsList DEF IsList
    <3> HIDE DEF s, t, n
    <3>3. Range(t) \subseteq Range(s) /\ o \in Range(s)
      <4>1. Range(Tail(s)) \subseteq Range(s) /\ Head(s) \in Range(s)
        BY <3>1, <3>2, ListTail
      <4> QED BY <1>1, <4>1 DEF s, t
    <3>4. ASSUME NEW a \in Range(s) PROVE a = o \/ a \in Range(t)
      <4>1. DOMAIN s = 1..(n + 1) /\ DOMAIN t = 1..n
        BY <3>1 DEF n
      <4>2. PICK k \in 1..(n + 1) : s[k] = a
        BY <4>1 DEF Range
      <4>3. CASE k = 1
        BY <3>1, <4>2, <4>3
      <4>4. CASE k # 1
        <5> DEFINE j == k - 1
        <5>1. j \in 1..n /\ k = j + 1
          BY <3>1, <4>4
        <5> HIDE DEF j
        <5>2. t[j] = a
          BY <3>1, <4>2, <5>1
        <5> QED BY <4>1, <5>1, <5>2 DEF Range
      <4> QED BY <4>3, <4>4
    <3> QED BY <2>1, <3>2, <3>3, <3>4 DEF s, t
  <2>5. Held' = Held
    <3>1. Len(found') = Len(found) - 1
      BY <1>3, <2>1, <2>4, LenTail
    <3> DEFINE x == Lens(FilesIn(providers))
               y == Len(building.files)
               z == Lens(groups)
               n == Len(found)
    <3>2. x \in Nat /\ y \in Nat /\ z \in Nat /\ n \in Nat
      BY NumbersHeld
    <3>3. Held = x + y + z + n /\ Held' = x + y + (z + 1) + (n - 1)
      BY <1>3, <2>3, <3>1 DEF Held, IsJoined
    <3> HIDE DEF x, y, z, n
    <3> QED BY <3>2, <3>3
  <2>6. Current' \subseteq Current
    <3>1. \A h \in Range(groups') : Range(h.files) \subseteq Current
      BY <2>3, <2>4 DEF Current, IsJoined
    <3> QED BY <1>3, <2>4, <3>1 DEF Current
  <2>7. ASSUME NEW r, NEW a, InCurrent(r, a) PROVE InCurrent(r, a)'
    <3>1. Current' \subseteq r.objects
      BY <2>6, <2>7 DEF InCurrent
    <3>2. \A g, b : Kind(g, b)' <=> Kind(g, b)
      BY SameAsEver
    <3>3. CASE a \in Range(found')
      BY <3>1, <3>3 DEF InCurrent
    <3>4. CASE a = o
      <4>1. PICK h \in Range(groups') : h.format = d.format /\ h.variant = d.answer /\ o \in Range(h.files)
        BY <2>3 DEF IsJoined
      <4>2. d = [format |-> d.format, answer |-> d.answer]
        BY <1>2, IdentifiedIs
      <4>3. Kind(h, a)
        BY <1>2, <3>4, <4>1, <4>2 DEF Kind
      <4> QED BY <3>1, <3>2, <4>3 DEF InCurrent
    <3>5. CASE Kind(building, a)
      BY <1>3, <3>1, <3>2, <3>5 DEF InCurrent
    <3>6. CASE \E g \in Range(groups) : Kind(g, a)
      <4>1. PICK g \in Range(groups) : Kind(g, a)
        BY <3>6
      <4>2. PICK h \in Range(groups') :
              h.format = g.format /\ h.variant = g.variant /\ Range(g.files) \subseteq Range(h.files)
        BY <2>3 DEF IsJoined
      <4>3. Kind(h, a)
        BY <4>1, <4>2 DEF Kind
      <4> QED BY <3>1, <3>2, <4>3 DEF InCurrent
    <3> QED BY <2>4, <2>7, <3>3, <3>4, <3>5, <3>6 DEF InCurrent
  <2> QED BY <2>5, <2>6, <2>7
<1> QED BY <1>3, <1>5, GatherWithin

(* A member of a list is its head or in the rest. *)
LEMMA HeadOrTail ==
  ASSUME NEW s, IsList(s), s # <<>>
  PROVE  \A x \in Range(s) : x = Head(s) \/ x \in Range(Tail(s))
<1> DEFINE t == Tail(s)
           n == Len(t)
<1>1. /\ s \in Seq(Range(s)) /\ Len(s) = n + 1 /\ n \in Nat /\ Head(s) = s[1]
      /\ t \in Seq(Range(s)) /\ \A j \in 1..n : t[j] = s[j + 1]
  <2>1. s \in Seq(Range(s)) /\ Len(s) \in Nat /\ Len(s) # 0
    BY EmptySeq DEF IsList
  <2>2. /\ Head(s) = s[1] /\ t \in Seq(Range(s)) /\ Len(t) = Len(s) - 1
        /\ \A j \in 1..(Len(s) - 1) : t[j] = s[j + 1]
    BY <2>1, HeadTailProperties
  <2> HIDE DEF t
  <2> QED BY <2>1, <2>2
<1> HIDE DEF t
<1>2. DOMAIN s = 1..(n + 1) /\ DOMAIN t = 1..n
  BY <1>1
<1> HIDE DEF n
<1>3. ASSUME NEW x \in Range(s) PROVE x = s[1] \/ x \in Range(t)
  <2>1. PICK k \in 1..(n + 1) : s[k] = x
    BY <1>2 DEF Range
  <2>2. CASE k = 1
    BY <2>1, <2>2
  <2>3. CASE k # 1
    <3> DEFINE j == k - 1
    <3>1. j \in 1..n /\ k = j + 1
      BY <1>1, <2>3
    <3> HIDE DEF j
    <3>2. t[j] = x
      BY <1>1, <2>1, <3>1
    <3> QED BY <1>2, <3>1, <3>2 DEF Range
  <2> QED BY <2>2, <2>3
<1> QED BY <1>1, <1>3 DEF t

(* The first group is the one that is built. *)
LEMMA GatherOfStart ==
  ASSUME InputsInv, GatherInv, StartGroup, parts' = parts, chosen' = chosen
  PROVE  GatherInv'
<1>1. PICK g : g = Head(groups)
  OBVIOUS
<1>2. /\ stage = "bound" /\ phase = "inputs" /\ groups # <<>> /\ building = NoGroup
      /\ UNCHANGED <<phase, operands, found, providers>> /\ groups' = Tail(groups)
      /\ stage' = "bound" =>
           building'.files = g.files /\ building'.format = g.format /\ building'.variant = g.variant
  BY <1>1 DEF StartGroup, Running, Fail
<1>3. ASSUME stage' = "bound"
      PROVE  /\ Held' = Held /\ Current' \subseteq Current
             /\ \A r, a : InCurrent(r, a) => InProvider(r, a)' \/ InCurrent(r, a)'
  <2>1. building'.files = g.files /\ building'.format = g.format /\ building'.variant = g.variant
    BY <1>2, <1>3
  <2>2. /\ IsList(groups) /\ \A i \in DOMAIN groups : Len(groups[i].files) \in Nat
    BY NumbersHeld
  <2>3. Lens(groups) = Len(g.files) + Lens(groups') /\ Lens(groups') \in Nat /\ g \in Range(groups)
        /\ Range(groups') \subseteq Range(groups)
    <3>1. /\ Lens(groups) = Len(Head(groups).files) + Lens(Tail(groups))
          /\ Lens(Tail(groups)) \in Nat
      BY <1>2, <2>2, LensTail
    <3>2. Head(groups) \in Range(groups) /\ Range(Tail(groups)) \subseteq Range(groups)
      BY <1>2, <2>2, ListTail
    <3> QED BY <1>1, <1>2, <3>1, <3>2
  <2>4. building.files = <<>> /\ Len(<<>>) = 0 /\ Range(<<>>) = {}
    BY <1>2, ListOfNothing DEF NoGroup
  <2>5. Held' = Held
    <3>1. Len(g.files) \in Nat
      BY <2>2, <2>3 DEF Range
    <3> DEFINE x == Lens(FilesIn(providers))
               y == Len(g.files)
               z == Lens(groups')
               n == Len(found)
    <3>2. x \in Nat /\ y \in Nat /\ z \in Nat /\ n \in Nat
      BY <2>3, <3>1, NumbersHeld
    <3>3. Held = x + 0 + (y + z) + n /\ Held' = x + y + z + n
      BY <1>2, <2>1, <2>3, <2>4 DEF Held
    <3> HIDE DEF x, y, z, n
    <3> QED BY <3>2, <3>3
  <2>6. Current' \subseteq Current
    BY <1>2, <2>1, <2>3 DEF Current
  <2>7. ASSUME NEW r, NEW a, InCurrent(r, a) PROVE InCurrent(r, a)'
    <3>1. Current' \subseteq r.objects
      BY <2>6, <2>7 DEF InCurrent
    <3>2. \A h, b : Kind(h, b)' <=> Kind(h, b)
      BY SameAsEver
    <3>3. CASE a \in Range(found)
      BY <1>2, <3>1, <3>3 DEF InCurrent
    <3>4. ~Kind(building, a)
      BY <2>4 DEF Kind
    <3>5. CASE \E h \in Range(groups) : Kind(h, a)
      <4>1. PICK h \in Range(groups) : Kind(h, a)
        BY <3>5
      <4>2. CASE h \in Range(groups')
        BY <3>1, <3>2, <4>1, <4>2 DEF InCurrent
      <4>3. CASE h = g
        <5>1. Kind(building', a)
          BY <2>1, <4>1, <4>3 DEF Kind
        <5>2. Kind(building, a)'
          <6>1. \A b : Identified(b)' = Identified(b)
            BY SameAsEver DEF Identified
          <6> QED BY <5>1, <6>1 DEF Kind
        <5> QED BY <3>1, <5>2 DEF InCurrent
      <4>4. h \in Range(groups') \/ h = g
        BY <1>1, <1>2, <2>2, HeadOrTail
      <4> QED BY <4>2, <4>3, <4>4
    <3> QED BY <2>7, <3>3, <3>4, <3>5 DEF InCurrent
  <2> QED BY <2>5, <2>6, <2>7
<1> QED BY <1>2, <1>3, GatherWithin

(* Reading files of the group changes none of them. *)
LEMMA GatherOfReads ==
  ASSUME InputsInv, GatherInv, NEW i, ReadOrdering(i) \/ CheckSchema(i),
         parts' = parts, chosen' = chosen
  PROVE  GatherInv'
<1>1. /\ stage = "bound" /\ phase = "inputs" /\ building # NoGroup
      /\ UNCHANGED <<phase, operands, found, groups, providers>>
      /\ \/ building' = building
         \/ \E v, w : building' = [building EXCEPT !.status[i] = v, !.order[i] = w]
         \/ \E v : building' = [building EXCEPT !.status[i] = v]
  <2>1. CASE ReadOrdering(i)
    <3>1. /\ stage = "bound" /\ phase = "inputs" /\ building # NoGroup
          /\ UNCHANGED <<phase, operands, found, groups, providers>>
          /\ \/ building' = building
             \/ building' = [building EXCEPT !.status[i] = "ordered",
                              !.order[i] = contents[building.files[i]].ordering]
      BY <2>1 DEF ReadOrdering, Checking, Running, Quiet
    <3> QED BY <3>1
  <2>2. CASE CheckSchema(i)
    <3>1. /\ stage = "bound" /\ phase = "inputs" /\ building # NoGroup
          /\ UNCHANGED <<phase, operands, found, groups, providers>>
          /\ \/ building' = building
             \/ building' = [building EXCEPT !.status[i] = "done"]
      BY <2>2 DEF CheckSchema, Checking, Running, Quiet
    <3> QED BY <3>1
  <2> QED BY <2>1, <2>2
<1>2. building'.files = building.files /\ building'.format = building.format
      /\ building'.variant = building.variant
  <2> DEFINE b == building
             f1 == b.format
             f2 == b.variant
             f3 == b.files
             f4 == b.schema
             f5 == b.order
             f6 == b.status
  <2>1. b = [format |-> f1, variant |-> f2, files |-> f3, schema |-> f4, order |-> f5, status |-> f6]
    BY <1>1 DEF InputsInv, BuildingInv, IsBuilding
  <2> HIDE DEF b, f1, f2, f3, f4, f5, f6
  <2>2. b.format = f1 /\ b.variant = f2 /\ b.files = f3
    BY <2>1
  <2>3. CASE building' = b
    BY <2>3 DEF b
  <2>4. ASSUME NEW v, NEW w, building' = [b EXCEPT !.status[i] = v, !.order[i] = w]
        PROVE  building'.files = f3 /\ building'.format = f1 /\ building'.variant = f2
    BY <2>1, <2>4
  <2>5. ASSUME NEW v, building' = [b EXCEPT !.status[i] = v]
        PROVE  building'.files = f3 /\ building'.format = f1 /\ building'.variant = f2
    BY <2>1, <2>5
  <2>6. building'.files = b.files /\ building'.format = b.format /\ building'.variant = b.variant
    <3>1. \/ building' = b
          \/ \E v, w : building' = [b EXCEPT !.status[i] = v, !.order[i] = w]
          \/ \E v : building' = [b EXCEPT !.status[i] = v]
      BY <1>1 DEF b
    <3> QED BY <2>2, <2>4, <2>5, <3>1
  <2> QED BY <2>6 DEF b
<1>3. Held' = Held /\ Current' = Current
  BY <1>1, <1>2 DEF Held, Current
<1>4. \A r, a : InCurrent(r, a) => InCurrent(r, a)'
  <2>1. \A g, b : Kind(g, b)' <=> Kind(g, b)
    BY SameAsEver
  <2>2. \A b : Identified(b)' = Identified(b)
    BY SameAsEver DEF Identified
  <2>3. \A b : Kind(building, b) => Kind(building, b)'
    BY <1>2, <2>2 DEF Kind
  <2> QED BY <1>1, <1>3, <2>1, <2>3 DEF InCurrent
<1> QED BY <1>1, <1>3, <1>4, GatherWithin

(* The provider of a group reads its files. *)
LEMMA GatherOfBuilt ==
  ASSUME InputsInv, GatherInv, ProviderBuilt, parts' = parts, chosen' = chosen
  PROVE  GatherInv'
<1>1. /\ stage = "bound" /\ phase = "inputs" /\ building # NoGroup /\ building' = NoGroup
      /\ UNCHANGED <<phase, operands, found, groups>>
      /\ providers' = providers \/ \E p : providers' = Append(providers, p)
      /\ stage' = "bound" => \E p : providers' = Append(providers, p)
  BY DEF ProviderBuilt, Running, Quiet, Fail
<1>2. IsList(providers)
  BY NumbersHeld
<1>3. Range(providers) \subseteq Range(providers')
  <2>1. CASE providers' = providers
    BY <2>1
  <2>2. ASSUME NEW p, providers' = Append(providers, p) PROVE Range(providers) \subseteq Range(providers')
    <3>1. Range(Append(providers, p)) = Range(providers) \cup {p}
      BY <1>2, ListAppend
    <3> QED BY <2>2, <3>1
  <2> QED BY <1>1, <2>1, <2>2
<1>4. ASSUME stage' = "bound"
      PROVE  /\ Held' = Held /\ Current' \subseteq Current
             /\ \A r, a : InCurrent(r, a) => InProvider(r, a)' \/ InCurrent(r, a)'
  <2>1. providers' # providers
    <3>1. PICK p : providers' = Append(providers, p)
      BY <1>1, <1>4
    <3>2. Len(providers) \in Nat
      BY <1>2, LenOf
    <3>3. Len(Append(providers, p)) = Len(providers) + 1
      BY <1>2, LenAppend
    <3> QED BY <3>1, <3>2, <3>3
  <2>2. PICK p : /\ providers' = Append(providers, p) /\ p.kind = "File" /\ p.files = building.files
                 /\ p.format = building.format /\ p.variant = building.variant
    <3>1. \E q, meta : /\ providers' = Append(providers, q) /\ q = FileProvider(building, meta)
                       /\ IsProvider(q) /\ q.kind = "File" /\ q.files = building.files
                       /\ q.format = building.format /\ q.variant = building.variant
      BY <2>1, BuiltIs
    <3> QED BY <3>1
  <2>3. FilesIn(providers') = Append(FilesIn(providers), p)
    BY <1>2, <2>2, FilesInAppend
  <2>4. Range(providers') = Range(providers) \cup {p}
    BY <1>2, <2>2, ListAppend
  <2>5. building'.files = <<>> /\ Len(<<>>) = 0 /\ Range(<<>>) = {}
    BY <1>1, ListOfNothing DEF NoGroup
  <2>6. Lens(FilesIn(providers')) = Lens(FilesIn(providers)) + Len(building.files)
    <3>1. /\ IsList(FilesIn(providers)) /\ Len(p.files) \in Nat
          /\ \A i \in DOMAIN FilesIn(providers) : Len(FilesIn(providers)[i].files) \in Nat
      BY <2>2, NumbersHeld
    <3>2. Lens(Append(FilesIn(providers), p)) = Lens(FilesIn(providers)) + Len(p.files)
      BY <3>1, LensAppend
    <3> QED BY <2>2, <2>3, <3>2
  <2>7. Held' = Held
    <3> DEFINE x == Lens(FilesIn(providers))
               y == Len(building.files)
               z == Lens(groups)
               n == Len(found)
    <3>2. x \in Nat /\ y \in Nat /\ z \in Nat /\ n \in Nat
      BY NumbersHeld
    <3>3. Held = x + y + z + n /\ Held' = (x + y) + 0 + z + n
      BY <1>1, <2>5, <2>6 DEF Held
    <3> HIDE DEF x, y, z, n
    <3> QED BY <3>2, <3>3
  <2>8. Current' \subseteq Current
    BY <1>1, <2>5 DEF Current
  <2>9. ASSUME NEW r, NEW a, InCurrent(r, a) PROVE InProvider(r, a)' \/ InCurrent(r, a)'
    <3>1. Current' \subseteq r.objects /\ Current \subseteq r.objects
      BY <2>8, <2>9 DEF InCurrent
    <3>2. \A h, b : Kind(h, b)' <=> Kind(h, b)
      BY SameAsEver
    <3>3. CASE a \in Range(found) \/ \E h \in Range(groups) : Kind(h, a)
      BY <1>1, <3>1, <3>2, <3>3 DEF InCurrent
    <3>4. CASE Kind(building, a)
      <4>1. Kind(p, a)
        BY <2>2, <3>4 DEF Kind
      <4>2. Range(p.files) \subseteq r.objects
        BY <2>2, <3>1 DEF Current
      <4> QED BY <2>2, <2>4, <3>2, <4>1, <4>2 DEF InProvider
    <3> QED BY <2>9, <3>3, <3>4 DEF InCurrent
  <2> QED BY <2>7, <2>8, <2>9
<1> QED BY <1>1, <1>3, <1>4, GatherWithin

(* Every step keeps the invariant of what is gathered. *)
LEMMA GatherInvStep ==
  ASSUME CatalogInv, ChosenInv, InputsInv, WorkInv, GatherInv, [CommandNext]_commandState
  PROVE  GatherInv'
<1>1. CASE CatalogNext /\ UNCHANGED <<inputVars, commandVars>>
  <2>1. UNCHANGED <<phase, operands, found, groups, building, finished, providers>>
    BY <1>1 DEF inputVars, groupVars
  <2>2. CASE BuildFormats \/ BuildServices \/ FromParts \/ BindDetect \/ BindInspect
    <3>1. Choosing
      BY <2>2 DEF BuildFormats, BuildServices, FromParts, BindDetect, BindInspect, Bind, Choosing
    <3>2. phase = "options"
      BY <3>1 DEF ChosenInv, Untouched
    <3> QED BY <2>1, <3>2 DEF GatherInv, HeldInv, ReadyInv, PatternsInv, Early
  <2>3. CASE RunDetect \/ RunInspect
    <3>1. stage' = "ended"
      BY <2>3 DEF RunDetect, RunInspect, End
    <3> QED BY <2>1, <3>1, GatherStays DEF Early
  <2> QED BY <1>1, <2>2, <2>3 DEF CatalogNext
<1>2. CASE BindTransform
  <2>1. UNCHANGED <<phase, operands, found, groups, building, finished, providers>> /\ Choosing
    BY <1>2 DEF BindTransform, inputVars, groupVars, Choosing
  <2>2. phase = "options"
    BY <2>1 DEF ChosenInv, Untouched
  <2> QED BY <2>1, <2>2 DEF GatherInv, HeldInv, ReadyInv, PatternsInv, Early
<1>3. CASE RunCommand
  <2>1. /\ UNCHANGED <<operands, found, groups, building, providers, parts, chosen>>
        /\ stage = "bound"
    BY <1>3, ForTransform DEF RunCommand, groupVars
  <2>2. CASE Options
    <3>1. Early /\ Early'
      BY <2>2 DEF Options, Running, CreateSession, Early
    <3> QED BY <2>1, <3>1, GatherStays
  <2>3. CASE ~Options
    <3>1. phase \notin {"options", "patterns", "inputs"} /\ phase' \notin {"options", "patterns", "inputs"}
      BY <1>3, <2>3 DEF RunCommand, Plan, Planned, UnboundedPlan, ServiceOutput, Consume, WrongOutput,
         FailCommand, BindOutput, BeginExecution, CompleteOutput, Write, Finish, Running
    <3>2. Early' <=> Early
      BY <3>1 DEF Early
    <3> QED BY <2>1, <3>1, <3>2, GatherStays
  <2> QED BY <2>2, <2>3
<1>4. CASE MakeInputs
  <2>1. parts' = parts /\ chosen' = chosen /\ InputsNext
    BY <1>4 DEF MakeInputs
  <2>2. ArgsKnown
    BY <2>1, ForTransform DEF ChosenInv
  <2>3. CASE CheckPatterns
    BY <2>1, <2>3, GatherStarts
  <2>4. CASE ServiceInput
    BY <2>1, <2>2, <2>4, GatherOfService
  <2>5. CASE FileOperand
    BY <2>1, <2>2, <2>5, GatherOfFiles
  <2>6. CASE Identify
    BY <2>1, <2>6, GatherOfIdentify
  <2>7. CASE StartGroup
    BY <2>1, <2>7, GatherOfStart
  <2>8. CASE ProviderBuilt
    BY <2>1, <2>8, GatherOfBuilt
  <2>9. ASSUME NEW i, ReadOrdering(i) \/ CheckSchema(i) PROVE GatherInv'
    BY <2>1, <2>9, GatherOfReads
  <2>10. CASE UnsupportedScheme
    <3>1. UNCHANGED <<phase, operands, found, groups, building, providers>> /\ phase = "inputs"
          /\ stage' = "ended"
      BY <2>10 DEF UnsupportedScheme, groupVars, Quiet, Idle, Running, Fail
    <3> QED BY <2>1, <3>1, GatherStays DEF Early
  <2>11. CASE InputsDone
    <3>1. /\ UNCHANGED <<operands, found, groups, building, providers>> /\ phase = "inputs"
          /\ operands = <<>> /\ found = <<>> /\ groups = <<>> /\ building = NoGroup
          /\ phase' \in {"inputs", "planning"} /\ stage = "bound"
      BY <2>11 DEF InputsDone, groupVars, Idle, Running
    <3>2. Early' <=> Early
      BY <3>1 DEF Early
    <3> QED BY <2>1, <3>1, <3>2, GatherStays
  <2> QED BY <2>1, <2>3, <2>4, <2>5, <2>6, <2>7, <2>8, <2>9, <2>10, <2>11 DEF InputsNext
<1>5. CASE OthersWrite
  <2>1. UNCHANGED <<phase, operands, found, groups, building, providers, parts, chosen, stage>>
    BY <1>5 DEF OthersWrite, Rewrite, groupVars, Goes
  <2> QED BY <2>1, GatherStays DEF Early
<1>6. CASE UNCHANGED commandState
  <2>1. UNCHANGED <<phase, operands, found, groups, building, providers, parts, chosen, stage>>
    BY <1>6 DEF commandState, inputVars, groupVars, catalogVars
  <2> QED BY <2>1, GatherStays DEF Early
<1> QED BY <1>1, <1>2, <1>3, <1>4, <1>5, <1>6 DEF CommandNext

(* The invariants make the groups exact once the inputs are ready. *)
LEMMA GroupsKnown ==
  CatalogInv /\ ChosenInv /\ InputsInv /\ GatherInv => GroupsExact
<1> SUFFICES ASSUME CatalogInv, ChosenInv, InputsInv, GatherInv,
                    stage = "bound", chosen.name = "transform", phase = "planning"
             PROVE  /\ Lens(FileProviders) = Cards(Operands)
                    /\ \A r \in Range(Operands) : \A o \in r.objects : \E p \in Range(FileProviders) :
                         /\ o \in Range(p.files) /\ Range(p.files) \subseteq r.objects
                         /\ Identified(o) = [format |-> p.format, answer |-> p.variant]
                    /\ \A p \in Range(FileProviders) : \A i, j \in DOMAIN p.files :
                         /\ i < j => UrlOrder(p.files[i].url, p.files[j].url)
                         /\ p.files[i].store = p.files[j].store
  BY DEF GroupsExact, Lens, Cards
<1>1. ~Early /\ ArgsKnown
  BY DEF Early, ChosenInv
<1>2. operands = <<>> /\ found = <<>> /\ groups = <<>> /\ building = NoGroup
  BY <1>1 DEF GatherInv, ReadyInv
<1>3. PICK d : Done(d)
  BY <1>1 DEF GatherInv, HeldInv
<1>4. IsList(Args.references) /\ IsList(Args.patterns)
  BY <1>1, CommandOperands
<1>5. FilesOf(d) = Operands
  <2> DEFINE refs == Args.references
             pats == Args.patterns
  <2>1. d \o <<>> = d
    <3>1. d \in Seq(Range(d))
      BY <1>3 DEF Done, IsList
    <3> QED BY <3>1
  <2>2. d = refs \o pats
    BY <1>2, <1>3, <2>1 DEF Done
  <2>3. \A r \in Range(pats) : OwnerOf(r) = Files
    BY <1>1 DEF GatherInv, PatternsInv
  <2>4. FilesOf(refs \o pats) = FilesOf(refs) \o pats
    BY <1>4, <2>3, FilesOfCommand
  <2>5. Operands = FilesOf(refs) \o pats
    BY FilesOfIs DEF Operands
  <2> QED BY <2>2, <2>4, <2>5
<1>6. FileProviders = FilesIn(providers)
  BY FilesInIs
<1>7. \A p : p \in Range(FileProviders) <=> p \in Range(providers) /\ p.kind = "File"
  BY FileProvidersAre DEF InputsInv, ProvidersInv
<1>8. Lens(FileProviders) = Cards(Operands)
  <2>1. building.files = <<>> /\ Len(<<>>) = 0
    BY <1>2 DEF NoGroup
  <2>2. Lens(<<>>) = 0
    <3>1. [i \in DOMAIN <<>> |-> Len((<<>>)[i].files)] = <<>>
      OBVIOUS
    <3> QED BY <3>1, SumOfNothing DEF Lens
  <2> DEFINE x == Lens(FilesIn(providers))
  <2>3. x \in Nat
    BY NumbersHeld
  <2>4. Held = x + 0 + 0 + 0
    BY <1>2, <2>1, <2>2 DEF Held
  <2> HIDE DEF x
  <2>5. Held = x
    BY <2>3, <2>4
  <2> QED BY <1>3, <1>5, <1>6, <2>5 DEF Done, x
<1>9. ASSUME NEW r \in Range(Operands), NEW o \in r.objects
      PROVE  \E p \in Range(FileProviders) :
               /\ o \in Range(p.files) /\ Range(p.files) \subseteq r.objects
               /\ Identified(o) = [format |-> p.format, answer |-> p.variant]
  <2>1. InProvider(r, o)
    BY <1>2, <1>3, <1>5, NothingCurrent DEF Done
  <2> QED BY <1>7, <2>1 DEF InProvider, Kind
<1>10. ASSUME NEW p \in Range(FileProviders), NEW i \in DOMAIN p.files, NEW j \in DOMAIN p.files
       PROVE  /\ i < j => UrlOrder(p.files[i].url, p.files[j].url)
              /\ p.files[i].store = p.files[j].store
  <2> DEFINE fs == p.files
  <2>1. InOrder(fs) /\ \A k \in 1..Len(fs) : fs[k].store = fs[1].store
    BY <1>7 DEF InputsInv, ProvidersInv, IsProvider
  <2> HIDE DEF fs
  <2>2. DOMAIN fs = 1..Len(fs)
    BY <2>1 DEF InOrder
  <2>3. i \in 1..Len(fs) /\ j \in 1..Len(fs)
    BY <2>2 DEF fs
  <2>4. fs[i].store = fs[j].store
    BY <2>1, <2>3
  <2>5. i < j => UrlOrder(fs[i].url, fs[j].url)
    BY <2>1, <2>3 DEF InOrder
  <2> QED BY <2>4, <2>5 DEF fs
<1> QED BY <1>8, <1>9, <1>10

(***************************************************************************)
(* GroupsExact, for any catalog, command line and objects, any number of   *)
(* operands and matches: once FileInputPreparer has made the inputs, each  *)
(* object that an operand names is read once for that operand, by a        *)
(* provider of its format, variant and store, in the order of the URLs.    *)
(***************************************************************************)
THEOREM GroupsAreExact == CommandSpec => []GroupsExact
<1> DEFINE Inv == CatalogInv /\ ChosenInv /\ InputsInv /\ WorkInv /\ GatherInv
<1>1. CommandInit => Inv
  BY CatalogInvInit, ChosenInvInit, InputsInvInit, WorkInvInit, GatherInvInit
<1>2. Inv /\ [CommandNext]_commandState => Inv'
  BY CatalogInvStep, ChosenInvStep, InputsInvStep, WorkInvStep, GatherInvStep
<1>3. Inv => GroupsExact
  BY GroupsKnown
<1> QED BY <1>1, <1>2, <1>3, PTL DEF CommandSpec, commandState

(***************************************************************************)
(* The memory pool                                                         *)
(*                                                                         *)
(* PoolState::spillable and ::non_spillable are the sums of the            *)
(* reservations of their kind (DataLemmas), num_spill the number of        *)
(* registered consumers that can spill.  None of these has taken more      *)
(* than an equal share of what the reserve leaves: an equal share among    *)
(* more consumers than there are now, or as many.                          *)
(***************************************************************************)

Others == Consumers \ CanSpill

(* What the reserve leaves to the consumers that can spill. *)
Shared == PoolSize - Reserve

(* The operators and what each holds. *)
SizesInv ==
  /\ live \subseteq Consumers
  /\ size \in [Consumers -> Nat]
  /\ \A c \in Consumers \ live : size[c] = 0

(* The counters of PoolState. *)
CountersInv ==
  /\ numSpill = Cardinality(live \cap CanSpill)
  /\ IsFiniteSet(Cells(CanSpill, size)) /\ spillable = Cardinality(Cells(CanSpill, size))
  /\ IsFiniteSet(Cells(Others, size)) /\ nonSpillable = Cardinality(Cells(Others, size))

(* No consumer that can spill holds more than its share, if all of them came
   before any of them had memory and asked for it. *)
Timely == ~late /\ ~grown
SharesInv == Timely => \A c \in live \cap CanSpill : size[c] <= Shared \div numSpill

PoolInv == SizesInv /\ CountersInv /\ late \in BOOLEAN /\ grown \in BOOLEAN /\ SharesInv

-----------------------------------------------------------------------------
(* Arithmetic *)

(* Shares are numbers, grow with what is shared, shrink with the number of
   sharers and together are no more than what is shared. *)
LEMMA SharesOf ==
  ASSUME NEW r \in Nat, NEW n \in Nat, n > 0
  PROVE  /\ r \div n \in Nat
         /\ n * (r \div n) <= r
         /\ \A q \in Nat : q <= r => q \div n <= r \div n
         /\ \A m \in Nat : n <= m => r \div m <= r \div n
<1>1. r \div n \in Nat
  OBVIOUS
<1>2. n * (r \div n) <= r
  OBVIOUS
<1>3. ASSUME NEW q \in Nat, q <= r PROVE q \div n <= r \div n
  BY <1>3
<1>4. ASSUME NEW m \in Nat, n <= m PROVE r \div m <= r \div n
  BY <1>4
<1> QED BY <1>1, <1>2, <1>3, <1>4

(* What the region of the spillable consumers is: no more than the reserve leaves. *)
LEMMA RegionFits ==
  ASSUME nonSpillable \in Nat
  PROVE  Region \in Nat /\ Shared \in Nat /\ Region <= Shared
BY PoolAssumption DEF Region, Shared, Less, Larger

(* The registered consumers that can spill are finitely many. *)
LEMMA SpillersFinite ==
  ASSUME NEW L, L \subseteq Consumers
  PROVE  IsFiniteSet(L \cap CanSpill) /\ Cardinality(L \cap CanSpill) \in Nat
<1>1. IsFiniteSet(Consumers) /\ L \cap CanSpill \in SUBSET Consumers
  BY PoolAssumption
<1>2. IsFiniteSet(L \cap CanSpill)
  BY <1>1, FS_Subset
<1> QED BY <1>2, FS_CardinalityType

(* The counters are numbers. *)
LEMMA CountersType ==
  ASSUME SizesInv, CountersInv
  PROVE  numSpill \in Nat /\ spillable \in Nat /\ nonSpillable \in Nat
<1>1. numSpill \in Nat
  BY SpillersFinite DEF SizesInv, CountersInv
<1>2. spillable \in Nat /\ nonSpillable \in Nat
  BY FS_CardinalityType DEF CountersInv
<1> QED BY <1>1, <1>2

(* A consumer that can spill is one of num_spill. *)
LEMMA OneOfThem ==
  ASSUME SizesInv, CountersInv, NEW c \in live \cap CanSpill
  PROVE  numSpill \in Nat /\ numSpill > 0
<1>1. IsFiniteSet(live \cap CanSpill) /\ numSpill = Cardinality(live \cap CanSpill)
  BY SpillersFinite DEF SizesInv, CountersInv
<1>2. Cardinality(live \cap CanSpill) # 0
  BY <1>1, FS_EmptySet
<1> QED BY <1>1, <1>2, CountersType

-----------------------------------------------------------------------------
(* The pool's methods                                                       *)

(* A counter follows the reservation that track changes by n. *)
LEMMA TrackCounts ==
  ASSUME SizesInv, CountersInv, NEW c \in Consumers, NEW n \in Int,
         size[c] + n \in Nat, Track(c, n), Resize(c, n)
  PROVE  /\ size' \in [Consumers -> Nat]
         /\ IsFiniteSet(Cells(CanSpill, size')) /\ spillable' = Cardinality(Cells(CanSpill, size'))
         /\ IsFiniteSet(Cells(Others, size')) /\ nonSpillable' = Cardinality(Cells(Others, size'))
<1>1. /\ size' \in [Consumers -> Nat] /\ size[c] \in Nat /\ size'[c] = size[c] + n
      /\ \A d \in Consumers \ {c} : size'[d] = size[d]
  BY DEF SizesInv, Resize
<1>2. spillable \in Nat /\ nonSpillable \in Nat
  BY CountersType
<1>3. CASE c \in CanSpill
  <2>1. /\ IsFiniteSet(Cells(CanSpill, size'))
        /\ Cardinality(Cells(CanSpill, size'))
             = Cardinality(Cells(CanSpill, size)) - size[c] + size'[c]
    <3>1. \A d \in CanSpill \ {c} : size'[d] = size[d]
      BY <1>1, PoolAssumption
    <3>2. Resized(CanSpill, size, size', c) /\ IsFiniteSet(Cells(CanSpill, size))
      BY <1>1, <1>3, <3>1 DEF Resized, CountersInv
    <3> QED BY <3>2, CellsResized
  <2>2. Cells(Others, size') = Cells(Others, size)
    <3>1. \A d \in Others : size'[d] = size[d]
      BY <1>1, <1>3 DEF Others
    <3> QED BY <3>1, CellsSame
  <2>3. spillable' = spillable + n /\ nonSpillable' = nonSpillable
    BY <1>3 DEF Track, Spilling
  <2>4. spillable - size[c] + size'[c] = spillable + n
    BY <1>1, <1>2
  <2> QED BY <1>1, <2>1, <2>2, <2>3, <2>4 DEF CountersInv
<1>4. CASE c \notin CanSpill
  <2>1. /\ IsFiniteSet(Cells(Others, size'))
        /\ Cardinality(Cells(Others, size'))
             = Cardinality(Cells(Others, size)) - size[c] + size'[c]
    <3>1. c \in Others /\ \A d \in Others \ {c} : size'[d] = size[d]
      BY <1>1, <1>4 DEF Others
    <3>2. Resized(Others, size, size', c) /\ IsFiniteSet(Cells(Others, size))
      BY <1>1, <3>1 DEF Resized, CountersInv
    <3> QED BY <3>2, CellsResized
  <2>2. Cells(CanSpill, size') = Cells(CanSpill, size)
    <3>1. \A d \in CanSpill : size'[d] = size[d]
      BY <1>1, <1>4, PoolAssumption
    <3> QED BY <3>1, CellsSame
  <2>3. nonSpillable' = nonSpillable + n /\ spillable' = spillable
    BY <1>4 DEF Track, Spilling
  <2>4. nonSpillable - size[c] + size'[c] = nonSpillable + n
    BY <1>1, <1>2
  <2> QED BY <1>1, <2>1, <2>2, <2>3, <2>4 DEF CountersInv
<1> QED BY <1>3, <1>4

(* register *)
LEMMA RegisterKeeps ==
  ASSUME PoolInv, NEW c \in Consumers, Register(c)
  PROVE  PoolInv'
<1>1. /\ SizesInv /\ CountersInv /\ numSpill \in Nat /\ spillable \in Nat
      /\ IsFiniteSet(live \cap CanSpill) /\ numSpill = Cardinality(live \cap CanSpill)
  BY CountersType, SpillersFinite DEF PoolInv, SizesInv, CountersInv
<1>2. SizesInv'
  BY <1>1 DEF Register, SizesInv
<1>3. numSpill' = Cardinality(live' \cap CanSpill)
  <2>1. CASE c \in CanSpill
    <3>1. live' \cap CanSpill = (live \cap CanSpill) \cup {c} /\ c \notin live \cap CanSpill
      BY <2>1 DEF Register
    <3>2. Cardinality((live \cap CanSpill) \cup {c}) = Cardinality(live \cap CanSpill) + 1
      BY <1>1, <3>1, FS_AddElement
    <3> QED BY <1>1, <2>1, <3>1, <3>2 DEF Register, Spilling
  <2>2. CASE c \notin CanSpill
    <3>1. live' \cap CanSpill = live \cap CanSpill
      BY <2>2 DEF Register
    <3> QED BY <1>1, <2>2, <3>1 DEF Register, Spilling
  <2> QED BY <2>1, <2>2
<1>4. CountersInv'
  BY <1>1, <1>3 DEF Register, CountersInv
<1>5. SharesInv'
  <2> SUFFICES ASSUME Timely', NEW d \in live' \cap CanSpill
               PROVE  size'[d] <= Shared \div numSpill'
    BY DEF SharesInv
  <2>1. Timely /\ size' = size
    BY DEF Register, PoolInv, Timely
  <2>2. CASE c \notin CanSpill
    <3>1. d \in live \cap CanSpill /\ numSpill' = numSpill
      BY <1>1, <2>2 DEF Register, Spilling
    <3> QED BY <2>1, <3>1 DEF PoolInv, SharesInv
  <2>3. CASE c \in CanSpill
    <3>1. spillable = 0
      <4>1. late' <=> late \/ spillable > 0
        BY <2>3 DEF Register, Spilling, PoolInv
      <4>2. ~(spillable > 0)
        BY <4>1 DEF Timely
      <4> QED BY <1>1, <4>2
    <3>2. Cells(CanSpill, size) = {}
      BY <1>1, <3>1, FS_EmptySet DEF CountersInv
    <3>3. size[d] = 0
      <4>1. size[d] \in Nat /\ Row(d, size[d]) = {}
        BY <1>1, <3>2, PoolAssumption DEF Cells, SizesInv
      <4>2. size[d] > 0 => <<d, 1>> \in Row(d, size[d])
        BY <4>1 DEF Row
      <4> QED BY <4>1, <4>2
    <3>4. numSpill' \in Nat /\ numSpill' > 0
      BY <1>1, <2>3 DEF Register, Spilling
    <3>5. Shared \in Nat
      BY PoolAssumption DEF Shared
    <3>6. Shared \div numSpill' \in Nat
      BY <3>4, <3>5, SharesOf
    <3> QED BY <2>1, <3>3, <3>6
  <2> QED BY <2>2, <2>3
<1>6. late' \in BOOLEAN /\ grown' \in BOOLEAN
  BY DEF Register, PoolInv
<1> QED BY <1>2, <1>4, <1>5, <1>6 DEF PoolInv

(* unregister *)
LEMMA UnregisterKeeps ==
  ASSUME PoolInv, NEW c \in Consumers, Unregister(c)
  PROVE  PoolInv'
<1>1. /\ SizesInv /\ CountersInv /\ numSpill \in Nat
      /\ IsFiniteSet(live \cap CanSpill) /\ numSpill = Cardinality(live \cap CanSpill)
      /\ size \in [Consumers -> Nat]
  BY CountersType, SpillersFinite DEF PoolInv, SizesInv, CountersInv
<1>2. /\ Track(c, -size[c]) /\ -size[c] \in Int /\ size[c] + (-size[c]) = 0
      /\ Resize(c, -size[c])
  <2>1. /\ Track(c, -size[c]) /\ size' = [size EXCEPT ![c] = 0]
        /\ size[c] \in Nat
    BY <1>1 DEF Unregister
  <2>2. -size[c] \in Int /\ size[c] + (-size[c]) = 0
    BY <2>1
  <2> QED BY <2>1, <2>2 DEF Resize
<1>3. /\ size' \in [Consumers -> Nat]
      /\ IsFiniteSet(Cells(CanSpill, size')) /\ spillable' = Cardinality(Cells(CanSpill, size'))
      /\ IsFiniteSet(Cells(Others, size')) /\ nonSpillable' = Cardinality(Cells(Others, size'))
  BY <1>1, <1>2, TrackCounts
<1>4. /\ numSpill' = Cardinality(live' \cap CanSpill) /\ numSpill' \in Nat
      /\ numSpill' <= numSpill /\ IsFiniteSet(live' \cap CanSpill)
  <2>1. CASE c \in CanSpill
    <3>1. live' \cap CanSpill = (live \cap CanSpill) \ {c} /\ c \in live \cap CanSpill
      BY <2>1 DEF Unregister
    <3>2. /\ Cardinality((live \cap CanSpill) \ {c}) = Cardinality(live \cap CanSpill) - 1
          /\ IsFiniteSet((live \cap CanSpill) \ {c})
      BY <1>1, <3>1, FS_RemoveElement
    <3>3. Cardinality((live \cap CanSpill) \ {c}) \in Nat
      BY <3>2, FS_CardinalityType
    <3>4. numSpill' = numSpill - 1
      BY <2>1 DEF Unregister, Spilling
    <3> QED BY <1>1, <3>1, <3>2, <3>3, <3>4
  <2>2. CASE c \notin CanSpill
    <3>1. live' \cap CanSpill = live \cap CanSpill
      BY <2>2 DEF Unregister
    <3>2. numSpill' = numSpill
      BY <1>1, <2>2 DEF Unregister, Spilling, PoolInv, CountersInv
    <3> QED BY <1>1, <3>1, <3>2
  <2> QED BY <2>1, <2>2
<1>5. SizesInv'
  BY <1>1, <1>3 DEF Unregister, SizesInv
<1>6. CountersInv'
  BY <1>3, <1>4 DEF CountersInv
<1>7. SharesInv'
  <2> SUFFICES ASSUME Timely', NEW d \in live' \cap CanSpill
               PROVE  size'[d] <= Shared \div numSpill'
    BY DEF SharesInv
  <2>1. d \in live \cap CanSpill /\ d # c /\ size'[d] = size[d] /\ Timely /\ size[d] \in Nat
    BY <1>1, PoolAssumption DEF Unregister, Timely
  <2>2. size[d] <= Shared \div numSpill
    BY <2>1 DEF PoolInv, SharesInv
  <2>3. numSpill' > 0
    <3>1. Cardinality(live' \cap CanSpill) # 0
      BY <1>4, FS_EmptySet
    <3> QED BY <1>4, <3>1
  <2>4. Shared \in Nat
    BY PoolAssumption DEF Shared
  <2>5. /\ Shared \div numSpill <= Shared \div numSpill'
        /\ Shared \div numSpill \in Nat /\ Shared \div numSpill' \in Nat
    BY <1>1, <1>4, <2>3, <2>4, SharesOf
  <2> QED BY <2>1, <2>2, <2>5
<1>8. late' \in BOOLEAN /\ grown' \in BOOLEAN
  BY DEF Unregister, PoolInv
<1> QED BY <1>5, <1>6, <1>7, <1>8 DEF PoolInv

(* What every change of a registered consumer's reservation keeps. *)
LEMMA ResizeKeeps ==
  ASSUME PoolInv, NEW c \in live, NEW n \in Int, size[c] + n \in Nat,
         Track(c, n), Resize(c, n), UNCHANGED <<live, numSpill>>
  PROVE  /\ SizesInv' /\ CountersInv' /\ Shared \in Nat
         /\ size'[c] = size[c] + n
         /\ c \in CanSpill => numSpill \in Nat /\ numSpill > 0
         /\ Timely => \A d \in (live \cap CanSpill) \ {c} : size'[d] <= Shared \div numSpill
<1>1. /\ SizesInv /\ CountersInv /\ c \in Consumers /\ size \in [Consumers -> Nat]
      /\ live \subseteq Consumers
  BY DEF PoolInv, SizesInv
<1>2. /\ size' \in [Consumers -> Nat]
      /\ IsFiniteSet(Cells(CanSpill, size')) /\ spillable' = Cardinality(Cells(CanSpill, size'))
      /\ IsFiniteSet(Cells(Others, size')) /\ nonSpillable' = Cardinality(Cells(Others, size'))
  BY <1>1, TrackCounts
<1>3. size'[c] = size[c] + n /\ \A d \in Consumers \ {c} : size'[d] = size[d]
  BY <1>1 DEF Resize
<1>4. SizesInv'
  BY <1>1, <1>2, <1>3 DEF SizesInv
<1>5. CountersInv'
  BY <1>1, <1>2 DEF CountersInv
<1>6. c \in CanSpill => numSpill \in Nat /\ numSpill > 0
  BY <1>1, OneOfThem
<1>7. Timely => \A d \in (live \cap CanSpill) \ {c} : size'[d] <= Shared \div numSpill
  BY <1>1, <1>3 DEF PoolInv, SharesInv
<1> QED BY <1>3, <1>4, <1>5, <1>6, <1>7, PoolAssumption DEF Shared

(* try_grow: a consumer that can spill does not leave its share. *)
LEMMA TryGrowKeeps ==
  ASSUME PoolInv, NEW c \in Consumers, TryGrow(c)
  PROVE  PoolInv'
<1>1. PICK n \in 1..MaxGrow :
        /\ IF Spilling(c) THEN size[c] + n <= Share ELSE n <= Available
        /\ Track(c, n) /\ Resize(c, n)
  BY DEF TryGrow
<1>2. c \in live /\ UNCHANGED <<live, numSpill>> /\ late' = late /\ grown' = grown
  BY DEF TryGrow
<1>3. n \in Int /\ size[c] \in Nat /\ size[c] + n \in Nat
  BY <1>1, PoolAssumption DEF PoolInv, SizesInv
<1>4. /\ SizesInv' /\ CountersInv' /\ Shared \in Nat
      /\ size'[c] = size[c] + n
      /\ c \in CanSpill => numSpill \in Nat /\ numSpill > 0
      /\ Timely => \A d \in (live \cap CanSpill) \ {c} : size'[d] <= Shared \div numSpill
  BY <1>1, <1>2, <1>3, ResizeKeeps
<1>5. c \in CanSpill => size'[c] <= Shared \div numSpill
  <2> SUFFICES ASSUME c \in CanSpill PROVE size'[c] <= Shared \div numSpill
    OBVIOUS
  <2>1. nonSpillable \in Nat
    BY CountersType DEF PoolInv
  <2>2. Region \in Nat /\ Region <= Shared
    BY <2>1, RegionFits
  <2>3. Share = Region \div numSpill
    BY <1>4 DEF Share
  <2>4. Region \div numSpill <= Shared \div numSpill
    BY <1>4, <2>2, SharesOf
  <2>5. size'[c] <= Region \div numSpill
    BY <1>1, <1>4, <2>3 DEF Spilling
  <2>6. Region \div numSpill \in Nat /\ Shared \div numSpill \in Nat
    BY <1>4, <2>2, SharesOf
  <2> QED BY <1>3, <1>4, <2>4, <2>5, <2>6
<1>6. SharesInv'
  BY <1>2, <1>4, <1>5 DEF SharesInv, Timely
<1> QED BY <1>2, <1>4, <1>6 DEF PoolInv

(* grow: nobody is asked, so nothing is promised once it was called. *)
LEMMA GrowKeeps ==
  ASSUME PoolInv, NEW c \in Consumers, Grow(c)
  PROVE  PoolInv'
<1>1. PICK n \in 1..MaxGrow : Track(c, n) /\ Resize(c, n)
  BY DEF Grow
<1>2. /\ c \in live /\ UNCHANGED <<live, numSpill>>
      /\ late' \in BOOLEAN /\ grown' \in BOOLEAN
      /\ Timely' => Timely /\ c \notin CanSpill
  BY DEF Grow, Spilling, PoolInv, Timely
<1>3. n \in Int /\ size[c] \in Nat /\ size[c] + n \in Nat
  BY <1>1, PoolAssumption DEF PoolInv, SizesInv
<1>4. /\ SizesInv' /\ CountersInv'
      /\ Timely => \A d \in (live \cap CanSpill) \ {c} : size'[d] <= Shared \div numSpill
  BY <1>1, <1>2, <1>3, ResizeKeeps
<1>5. SharesInv'
  BY <1>2, <1>4 DEF SharesInv
<1> QED BY <1>2, <1>4, <1>5 DEF PoolInv

(* shrink *)
LEMMA ShrinkKeeps ==
  ASSUME PoolInv, NEW c \in Consumers, Shrink(c)
  PROVE  PoolInv'
<1>1. size[c] \in Nat /\ c \in live /\ UNCHANGED <<live, numSpill>> /\ late' = late /\ grown' = grown
  BY DEF PoolInv, SizesInv, Shrink
<1>2. PICK n \in 1..size[c] : Track(c, -n) /\ Resize(c, -n)
  BY DEF Shrink
<1>3. n \in Nat /\ -n \in Int /\ size[c] + (-n) \in Nat /\ size[c] + (-n) <= size[c]
  BY <1>1, <1>2
<1>4. /\ SizesInv' /\ CountersInv' /\ Shared \in Nat
      /\ size'[c] = size[c] + (-n)
      /\ c \in CanSpill => numSpill \in Nat /\ numSpill > 0
      /\ Timely => \A d \in (live \cap CanSpill) \ {c} : size'[d] <= Shared \div numSpill
  BY <1>1, <1>2, <1>3, ResizeKeeps
<1>5. c \in CanSpill /\ Timely => size'[c] <= Shared \div numSpill
  <2> SUFFICES ASSUME c \in CanSpill, Timely PROVE size'[c] <= Shared \div numSpill
    OBVIOUS
  <2>1. size[c] <= Shared \div numSpill
    BY <1>1 DEF PoolInv, SharesInv
  <2>2. Shared \div numSpill \in Nat
    BY <1>4, SharesOf
  <2> QED BY <1>1, <1>3, <1>4, <2>1, <2>2
<1>6. SharesInv'
  BY <1>1, <1>4, <1>5 DEF SharesInv, Timely
<1> QED BY <1>1, <1>4, <1>6 DEF PoolInv

-----------------------------------------------------------------------------
(* Theorems *)

(* An empty pool. *)
LEMMA PoolInit == Init => PoolInv
<1> SUFFICES ASSUME Init PROVE PoolInv
  OBVIOUS
<1>1. \A c \in Consumers : size[c] = 0
  BY DEF Init
<1>2. Cells(CanSpill, size) = {} /\ Cells(Others, size) = {}
  BY <1>1, PoolAssumption, CellsOfNothing DEF Others
<1>3. live \cap CanSpill = {}
  BY DEF Init
<1>4. CountersInv
  BY <1>2, <1>3, FS_EmptySet DEF Init, CountersInv
<1> QED BY <1>3, <1>4 DEF Init, PoolInv, SizesInv, SharesInv, Timely

(* Each method keeps the invariant. *)
LEMMA PoolStep == PoolInv /\ [Next]_vars => PoolInv'
<1> SUFFICES ASSUME PoolInv, [Next]_vars PROVE PoolInv'
  OBVIOUS
<1>1. CASE Next
  <2>1. PICK c \in Consumers :
          Register(c) \/ Unregister(c) \/ TryGrow(c) \/ Grow(c) \/ Shrink(c)
    BY <1>1 DEF Next
  <2> QED BY <2>1, RegisterKeeps, UnregisterKeeps, TryGrowKeeps, GrowKeeps, ShrinkKeeps
<1>2. CASE UNCHANGED vars
  BY <1>2 DEF vars, PoolInv, SizesInv, CountersInv, SharesInv, Timely
<1> QED BY <1>1, <1>2

(* The counters that the pool decides with are the sums of the reservations of
   each kind and the number of registered consumers that can spill, after any
   sequence of its methods; and as long as consumers that can spill come first
   and ask (try_grow), none holds more than an equal share of what the reserve
   leaves. *)
THEOREM CountersAddUp == Spec => []PoolInv
BY PoolInit, PoolStep, PTL DEF Spec

(* What the spillable consumers hold together is within what the reserve
   leaves. *)
LEMMA SharesFit ==
  ASSUME PoolInv, Timely
  PROVE  spillable \in Nat /\ nonSpillable \in Nat /\ spillable <= Shared
<1> DEFINE L == live \cap CanSpill
           q == IF numSpill = 0 THEN 0 ELSE Shared \div numSpill
<1>1. /\ SizesInv /\ CountersInv /\ numSpill \in Nat /\ spillable \in Nat
      /\ nonSpillable \in Nat /\ IsFiniteSet(L) /\ numSpill = Cardinality(L)
  BY CountersType, SpillersFinite DEF PoolInv, SizesInv, CountersInv
<1>2. Shared \in Nat
  BY PoolAssumption DEF Shared
<1>3. q \in Nat /\ numSpill * q <= Shared
  <2>1. CASE numSpill = 0
    BY <1>2, <2>1
  <2>2. CASE numSpill # 0
    <3>1. q = Shared \div numSpill
      BY <2>2
    <3> QED BY <1>1, <1>2, <2>2, <3>1, SharesOf
  <2> QED BY <2>1, <2>2
<1>4. \A c \in CanSpill : size[c] \in Nat /\ (size[c] # 0 => c \in L /\ size[c] <= q)
  <2> SUFFICES ASSUME NEW c \in CanSpill
               PROVE  size[c] \in Nat /\ (size[c] # 0 => c \in L /\ size[c] <= q)
    OBVIOUS
  <2>1. size[c] \in Nat /\ (size[c] # 0 => c \in L)
    BY <1>1, PoolAssumption DEF SizesInv
  <2>2. c \in L => numSpill # 0
    BY <1>1, FS_EmptySet
  <2>3. c \in L => size[c] <= Shared \div numSpill
    BY DEF PoolInv, SharesInv
  <2> QED BY <2>1, <2>2, <2>3
<1>5. Cardinality(Cells(CanSpill, size)) <= Cardinality(L) * q
  <2> HIDE DEF L, q
  <2> QED BY <1>1, <1>3, <1>4, CellsBounded
<1>6. spillable <= numSpill * q
  BY <1>1, <1>5 DEF CountersInv
<1>7. numSpill * q \in Nat
  <2> HIDE DEF q
  <2> QED BY <1>1, <1>3
<1> HIDE DEF q
<1> QED BY <1>1, <1>2, <1>3, <1>6, <1>7

(* What the consumers that cannot spill have not used of the reserve is there
   for them, if those that can spill were registered before any of them held
   memory and take it with try_grow.  Without that it is not there (the run
   pool_late). *)
THEOREM ReserveIsGranted == Spec => []ReserveGranted
<1>1. ASSUME PoolInv PROVE ReserveGranted
  <2> SUFFICES ASSUME Timely, nonSpillable <= Reserve
               PROVE  Available >= Reserve - nonSpillable
    BY DEF ReserveGranted, ReserveIsThere, Timely
  <2>1. spillable \in Nat /\ nonSpillable \in Nat /\ spillable <= PoolSize - Reserve
    BY <1>1, SharesFit DEF Shared
  <2> QED BY <2>1, PoolAssumption DEF Available, Less
<1> QED BY <1>1, CountersAddUp, PTL

=============================================================================
