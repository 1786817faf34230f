---------------------------- MODULE FrontProofs -----------------------------
(***************************************************************************)
(* Proofs about Front, for every command line of any length: one that is   *)
(* refused has done nothing, no word of one that succeeds is swallowed, a  *)
(* question for help runs no command, and what the published schema allows *)
(* reaches its handler as the schema means it.                             *)
(***************************************************************************)
EXTENDS Front, FiniteSetTheorems, TLAPS

-----------------------------------------------------------------------------
(* Sets in order                                                             *)

Below(S, i) == {j \in S : j <= i}
Rank(S, i) == Cardinality(Below(S, i))

(* A rank is a place, and a greater element has a greater one.               *)
LEMMA Ranks ==
    ASSUME NEW S \in SUBSET Nat, IsFiniteSet(S)
    PROVE  /\ Cardinality(S) \in Nat
           /\ \A i \in S : Rank(S, i) \in 1..Cardinality(S)
           /\ \A i, j \in S : i < j => Rank(S, i) < Rank(S, j)
           /\ \A i, j \in S : Rank(S, i) = Rank(S, j) => i = j
<1>1. Cardinality(S) \in Nat
  BY FS_CardinalityType
<1>2. ASSUME NEW i \in S
      PROVE  IsFiniteSet(Below(S, i)) /\ Rank(S, i) \in 1..Cardinality(S)
  <2>1. Below(S, i) \subseteq S /\ i \in Below(S, i)
    BY DEF Below
  <2>2. /\ IsFiniteSet(Below(S, i)) /\ Rank(S, i) \in Nat
        /\ Rank(S, i) <= Cardinality(S)
    BY <2>1, FS_Subset, FS_CardinalityType DEF Rank
  <2>3. Rank(S, i) # 0
    BY <2>1, <2>2, FS_EmptySet DEF Rank
  <2> QED
    BY <1>1, <2>2, <2>3
<1>3. ASSUME NEW i \in S, NEW j \in S, i < j
      PROVE  Rank(S, i) < Rank(S, j)
  <2>1. i \in Nat /\ j \in Nat /\ \A k \in S : k \in Nat
    OBVIOUS
  <2>2. Below(S, i) \subseteq Below(S, j)
    <3> SUFFICES ASSUME NEW k \in S, k <= i PROVE k <= j
      BY DEF Below
    <3> QED
      BY <1>3, <2>1
  <2>3. j \in Below(S, j) /\ j \notin Below(S, i)
    <3>1. j \in Below(S, j)
      BY <2>1 DEF Below
    <3>2. j \notin Below(S, i)
      BY <1>3, <2>1 DEF Below
    <3> QED
      BY <3>1, <3>2
  <2>4. Below(S, i) # Below(S, j)
    BY <2>3
  <2> QED
    BY <1>2, <2>2, <2>4, FS_Subset DEF Rank
<1>4. ASSUME NEW i \in S, NEW j \in S, Rank(S, i) = Rank(S, j)
      PROVE  i = j
  <2>1. ~(i < j) /\ ~(j < i)
    BY <1>2, <1>3, <1>4
  <2> QED
    BY <2>1
<1> QED
  BY <1>1, <1>2, <1>3, <1>4

(* A set of places in order: each element once, at its rank, upwards.        *)
LEMMA InOrderAll ==
    ASSUME NEW S \in SUBSET Nat, IsFiniteSet(S)
    PROVE  /\ Cardinality(S) \in Nat
           /\ DOMAIN InOrder(S) = 1..Cardinality(S)
           /\ Len(InOrder(S)) = Cardinality(S)
           /\ \A i \in S : InOrder(S)[Rank(S, i)] = i
           /\ \A i \in S : \E n \in 1..Cardinality(S) : InOrder(S)[n] = i
           /\ \A n \in 1..Cardinality(S) : InOrder(S)[n] \in S
           /\ \A m, n \in 1..Cardinality(S) : m < n => InOrder(S)[m] < InOrder(S)[n]
<1> DEFINE c == Cardinality(S)
           f == [i \in S |-> Rank(S, i)]
<1>1. c \in Nat
  BY Ranks
<1>2. DOMAIN InOrder(S) = 1..c /\ Len(InOrder(S)) = c
  BY <1>1 DEF InOrder
<1>3. f \in Injection(S, 1..c)
  BY Ranks DEF Injection, IsInjective
<1>4. IsFiniteSet(1..c) /\ Cardinality(1..c) = c
  BY <1>1, FS_Interval
<1>5. f \in Surjection(S, 1..c)
  BY <1>3, <1>4, FS_Injection
<1>6. ASSUME NEW n \in 1..c
      PROVE  InOrder(S)[n] \in S /\ Rank(S, InOrder(S)[n]) = n
  <2>1. \E i \in S : Rank(S, i) = n
    BY <1>5 DEF Surjection
  <2>2. InOrder(S)[n] = CHOOSE i \in S : Rank(S, i) = n
    BY DEF InOrder, Rank, Below
  <2> QED
    BY <2>1, <2>2
<1>7. ASSUME NEW i \in S PROVE Rank(S, i) \in 1..c /\ InOrder(S)[Rank(S, i)] = i
  <2>1. PICK n \in 1..c : n = Rank(S, i)
    BY Ranks
  <2>2. PICK k \in S : k = InOrder(S)[n] /\ Rank(S, k) = n
    BY <1>6
  <2>3. k = i
    BY <2>1, <2>2, Ranks
  <2> QED
    BY <2>1, <2>2, <2>3
<1>8. ASSUME NEW m \in 1..c, NEW n \in 1..c, m < n
      PROVE  InOrder(S)[m] < InOrder(S)[n]
  <2>1. PICK x \in S, y \in S : /\ x = InOrder(S)[m] /\ Rank(S, x) = m
                                /\ y = InOrder(S)[n] /\ Rank(S, y) = n
    BY <1>6
  <2>2. y < x => n < m
    BY <2>1, Ranks
  <2>3. ~(y < x) /\ y # x /\ x \in Nat /\ y \in Nat
    BY <1>1, <1>8, <2>1, <2>2
  <2>4. x < y
    BY <2>3
  <2> QED
    BY <2>1, <2>4
<1> QED
  BY <1>1, <1>2, <1>6, <1>7, <1>8

(* As many elements, and none left out.                                      *)
LEMMA InOrderOf ==
    ASSUME NEW S \in SUBSET Nat, IsFiniteSet(S)
    PROVE  /\ Cardinality(S) \in Nat
           /\ DOMAIN InOrder(S) = 1..Cardinality(S)
           /\ Len(InOrder(S)) = Cardinality(S)
           /\ \A i \in S : \E n \in 1..Cardinality(S) : InOrder(S)[n] = i
           /\ \A n \in 1..Cardinality(S) : InOrder(S)[n] \in S
BY InOrderAll

(* Upwards.                                                                  *)
LEMMA InOrderUp ==
    ASSUME NEW S \in SUBSET Nat, IsFiniteSet(S)
    PROVE  \A m, n \in 1..Cardinality(S) : m < n => InOrder(S)[m] < InOrder(S)[n]
BY InOrderAll

(* What stands next to each other in the set does so in order.               *)
LEMMA Neighbours ==
    ASSUME NEW S \in SUBSET Nat, IsFiniteSet(S), NEW n \in 1..Cardinality(S),
           NEW i \in S, i + 1 \in S, InOrder(S)[n] = i
    PROVE  n + 1 \in 1..Cardinality(S) /\ InOrder(S)[n + 1] = i + 1
<1>1. PICK c \in Nat : c = Cardinality(S)
  BY InOrderOf
<1>2. PICK m \in 1..c : InOrder(S)[m] = i + 1
  BY <1>1, InOrderOf
<1>3. ASSUME m <= n PROVE FALSE
  <2>1. m = n \/ m < n
    BY <1>1, <1>3
  <2>2. m < n => i + 1 < i
    BY <1>1, <1>2, InOrderUp
  <2> QED
    BY <1>2, <2>1, <2>2
<1>4. n + 1 \in 1..c
  BY <1>1, <1>3
<1>5. PICK p \in 1..c : p = n + 1
  BY <1>4
<1>6. PICK j \in S : j = InOrder(S)[p]
  BY <1>1, InOrderOf
<1>7. i < j
  <2>1. n < p
    BY <1>1, <1>5
  <2> QED
    BY <1>1, <1>6, <2>1, InOrderUp
<1>8. ASSUME p < m PROVE FALSE
  <2>1. j < i + 1
    BY <1>1, <1>2, <1>6, <1>8, InOrderUp
  <2> QED
    BY <1>7, <2>1
<1>9. m = p
  BY <1>1, <1>3, <1>5, <1>8
<1> QED
  BY <1>1, <1>2, <1>4, <1>5, <1>9

(* There is one order: what enumerates a set upwards is the set in order.    *)
LEMMA OneOrder ==
    ASSUME NEW S \in SUBSET Nat, IsFiniteSet(S), NEW c \in Nat, NEW f \in [1..c -> S],
           \A m, n \in 1..c : m < n => f[m] < f[n],
           \A i \in S : \E n \in 1..c : f[n] = i
    PROVE  c = Cardinality(S) /\ \A n \in 1..c : f[n] = InOrder(S)[n]
<1>1. \A m, n \in 1..c : f[m] = f[n] => m = n
  <2> SUFFICES ASSUME NEW m \in 1..c, NEW n \in 1..c, f[m] = f[n] PROVE m = n
    OBVIOUS
  <2>1. f[m] \in S /\ f[m] \in Nat
    OBVIOUS
  <2>2. ~(m < n) /\ ~(n < m)
    BY <2>1
  <2> QED
    BY <2>2
<1>2. ASSUME NEW n \in 1..c PROVE Rank(S, f[n]) = n
  <2> DEFINE g == [m \in 1..n |-> f[m]]
  <2>1. 1..n \subseteq 1..c
    OBVIOUS
  <2>2. ASSUME NEW m \in 1..c PROVE f[m] <= f[n] <=> m <= n
    <3>1. f[m] \in Nat /\ f[n] \in Nat
      OBVIOUS
    <3>2. m < n => f[m] < f[n]
      OBVIOUS
    <3>3. n < m => f[n] < f[m]
      OBVIOUS
    <3> QED
      BY <3>1, <3>2, <3>3
  <2>3. \A i \in Below(S, f[n]) : \E m \in 1..n : g[m] = i
    <3> SUFFICES ASSUME NEW i \in S, i <= f[n] PROVE \E m \in 1..n : g[m] = i
      BY DEF Below
    <3>1. PICK m \in 1..c : f[m] = i
      OBVIOUS
    <3>2. m \in 1..n
      BY <2>2, <3>1
    <3> QED
      BY <3>1, <3>2
  <2>4. \A m \in 1..n : g[m] \in Below(S, f[n])
    BY <2>1, <2>2 DEF Below
  <2>5. g \in Bijection(1..n, Below(S, f[n]))
    BY <1>1, <2>1, <2>3, <2>4 DEF Bijection, Injection, IsInjective, Surjection
  <2>6. IsFiniteSet(1..n) /\ Cardinality(1..n) = n
    BY FS_Interval
  <2> QED
    BY <2>5, <2>6, FS_Bijection DEF ExistsBijection, Rank
<1>3. ASSUME NEW n \in 1..c PROVE f[n] = InOrder(S)[n]
  <2>1. PICK i \in S : i = f[n]
    OBVIOUS
  <2>2. InOrder(S)[Rank(S, i)] = i
    BY InOrderAll
  <2> QED
    BY <1>2, <2>1, <2>2
<1>4. c = Cardinality(S)
  <2>1. f \in Bijection(1..c, S)
    BY <1>1 DEF Bijection, Injection, IsInjective, Surjection
  <2>2. IsFiniteSet(1..c) /\ Cardinality(1..c) = c
    BY FS_Interval
  <2> QED
    BY <2>1, <2>2, FS_Bijection DEF ExistsBijection
<1> QED
  BY <1>3, <1>4

-----------------------------------------------------------------------------
(* The tables                                                                *)

(* The schema and the handlers agree on how many positionals a command may
   have.                                                                     *)
LEMMA TablesAgree == KnownAction => Declared = Reads.most /\ Reads.most \in {0, 1}
<1> SUFFICES ASSUME KnownAction PROVE Declared = Reads.most /\ Reads.most \in {0, 1}
  OBVIOUS
<1>1. CASE IsHelp
  BY <1>1 DEF Declared, Reads, Help
<1>2. CASE ~IsHelp
  <2> DEFINE e == cmd[1]
             a == cmd[2]
             Same(s, h) == \A x \in DOMAIN h : s[x].most = h[x].most /\ h[x].most \in {0, 1}
  <2> USE DEF Take, Id, Help, OptionalParent
  <2>1. Same(SchemaDb, DbReads)
    BY DEF SchemaDb, DbReads, SqlFlags
  <2>2. Same(SchemaContext, ContextReads)
    BY DEF SchemaContext, ContextReads
  <2>3. Same(SchemaModel, ModelReads)
    BY DEF SchemaModel, ModelReads
  <2>4. Same(SchemaModelFolder, ModelFolderReads)
    BY DEF SchemaModelFolder, ModelFolderReads
  <2>5. Same(SchemaModelRevision, ModelRevisionReads)
    BY DEF SchemaModelRevision, ModelRevisionReads
  <2>6. Same(SchemaSkill, SkillReads)
    BY DEF SchemaSkill, SkillReads
  <2>7. Same(SchemaSkillFolder, SkillFolderReads)
    BY DEF SchemaSkillFolder, SkillFolderReads
  <2>8. Same(SchemaSkillRevision, SkillRevisionReads)
    BY DEF SchemaSkillRevision, SkillRevisionReads
  <2>9. Same(SchemaExec, ExecReads)
    BY DEF SchemaExec, ExecReads
  <2>10. Same(SchemaLog, LogReads)
    BY DEF SchemaLog, LogReads
  <2>11. /\ e \in {"db", "context", "model", "model_folder", "model_revision", "skill",
                   "skill_folder", "skill_revision", "exec", "log"}
         /\ a \in DOMAIN Handlers[e]
    BY <1>2 DEF KnownAction, KnownEntity, Handlers
  <2> HIDE DEF Same
  <2>12. Same(Schema[e], Handlers[e])
    BY <2>1, <2>2, <2>3, <2>4, <2>5, <2>6, <2>7, <2>8, <2>9, <2>10, <2>11
       DEF Schema, Handlers
  <2>13. Schema[e][a].most = Handlers[e][a].most /\ Handlers[e][a].most \in {0, 1}
    BY <2>11, <2>12 DEF Same
  <2> QED
    BY <1>2, <2>13 DEF Declared, Reads, Published
<1> QED
  BY <1>1, <1>2

(* The vocabulary knows no option with a value that no handler reads.        *)
LEMMA VocabularyIsRead ==
    ASSUME NEW f \in Vocabulary, TakesValue(f)
    PROVE  \E c \in DOMAIN Handlers : \E a \in DOMAIN Handlers[c] : f \in Handlers[c][a].values
<1>1. f \in DbReads.init.values \cup DbReads.backup.values \cup ContextReads.create.values
            \cup ContextReads.list.values \cup ModelReads.create.values
            \cup ModelFolderReads.list.values \cup SkillReads.create.values
            \cup ExecReads.create.values \cup ExecReads.complete.values
            \cup ExecReads.fail.values \cup ExecReads.setraw.values \cup LogReads.create.values
  BY DEF Vocabulary, TakesValue, Take, SqlFlags, DbReads, ContextReads, ModelReads,
         ModelFolderReads, SkillReads, ExecReads, LogReads
<1>2. /\ "init" \in DOMAIN DbReads /\ "backup" \in DOMAIN DbReads
      /\ "create" \in DOMAIN ContextReads /\ "list" \in DOMAIN ContextReads
      /\ "create" \in DOMAIN ModelReads /\ "list" \in DOMAIN ModelFolderReads
      /\ "create" \in DOMAIN SkillReads /\ "create" \in DOMAIN ExecReads
      /\ "complete" \in DOMAIN ExecReads /\ "fail" \in DOMAIN ExecReads
      /\ "setraw" \in DOMAIN ExecReads /\ "create" \in DOMAIN LogReads
  BY DEF DbReads, ContextReads, ModelReads, ModelFolderReads, SkillReads, ExecReads, LogReads
<1>3. /\ Handlers["db"] = DbReads /\ Handlers["context"] = ContextReads
      /\ Handlers["model"] = ModelReads /\ Handlers["model_folder"] = ModelFolderReads
      /\ Handlers["skill"] = SkillReads /\ Handlers["exec"] = ExecReads
      /\ Handlers["log"] = LogReads
      /\ {"db", "context", "model", "model_folder", "skill", "exec", "log"} \subseteq DOMAIN Handlers
  BY DEF Handlers
<1> QED
  BY <1>1, <1>2, <1>3

-----------------------------------------------------------------------------
(* The command line does not change                                          *)

Line == Len(argv) \in Nat /\ DOMAIN argv = 1..Len(argv)

(* What pass 2, and what dispatch, have found right.                         *)
Parsed == IsValid /\ Len(Rest) >= 2
Dispatched == RestIsCommand /\ (Declared < 0 \/ Len(Positionals) <= Declared)
Taken == SubSeq(Positionals, 1, Min({Reads.most, Len(Positionals)}))

LEMMA SameLine ==
    ASSUME UNCHANGED <<cmd, argv>>
    PROVE  /\ Line' = Line /\ Shows' = Shows /\ Parsed' = Parsed /\ Dispatched' = Dispatched
           /\ KnownAction' = KnownAction /\ Taken' = Taken /\ Positionals' = Positionals
<1>1. Eaten' = Eaten
  BY DEF Eaten
<1>2. Globals' = Globals
  BY <1>1 DEF Globals, IsGlobal
<1>3. Shows' = Shows
  BY <1>2 DEF Shows, Has
<1>4. Rest' = Rest
  BY <1>1, <1>2 DEF Rest, InOrder
<1>5. Args' = Args
  BY <1>4 DEF Args
<1>6. IsValid' = IsValid
  BY <1>5 DEF IsValid, IsWord, Option, TakesValue
<1>7. Positionals' = Positionals
  BY <1>5 DEF Positionals, InOrder, IsWord, IsValue, Option, TakesValue
<1>8. KnownAction' = KnownAction /\ IsHelp' = IsHelp
  BY DEF KnownAction, KnownEntity, IsHelp
<1>9. Declared' = Declared /\ Reads' = Reads
  BY <1>8 DEF Declared, Published, Reads
<1>10. RestIsCommand' = RestIsCommand
  BY <1>4 DEF RestIsCommand
<1> QED
  BY <1>3, <1>4, <1>6, <1>7, <1>8, <1>9, <1>10 DEF Line, Parsed, Dispatched, Taken

LEMMA LineGiven == Init => Line
<1> SUFFICES ASSUME Init PROVE Line
  OBVIOUS
<1> DEFINE X == Tokens \cup Leading \cup {Command[1], Command[2]}
<1>1. PICK lead \in {<<>>} \cup {<<t>> : t \in Leading}, n \in 0..2, k \in 0..MaxTail :
          \E tail \in [1..k -> Tokens] : argv = lead \o SubSeq(Command, 1, n) \o tail
  BY DEF Init
<1>2. PICK tail \in [1..k -> Tokens] : argv = lead \o SubSeq(Command, 1, n) \o tail
  BY <1>1
<1>3. lead \in Seq(X)
  <2>1. \A t \in X : <<t>> \in Seq(X)
    OBVIOUS
  <2>2. lead = <<>> \/ \E t \in X : lead = <<t>>
    BY <1>1
  <2>3. <<>> \in Seq(X)
    OBVIOUS
  <2> QED
    BY <2>1, <2>2, <2>3
<1>4. SubSeq(Command, 1, n) \in Seq(X)
  <2>1. Command \in Seq(X) /\ Len(Command) = 2
    BY DEF Command
  <2> QED
    BY <2>1
<1>5. tail \in Seq(X)
  BY FrontAssumption
<1> HIDE DEF X
<1>6. argv \in Seq(X)
  BY <1>2, <1>3, <1>4, <1>5
<1> QED
  BY <1>6 DEF Line

-----------------------------------------------------------------------------
(* The stages of cli_main                                                    *)

Silent == ~did /\ stdout = "empty" /\ ~shown

(* How far each stage has come, and what an end with 0, 10 or 11 means.      *)
FrontInv ==
    /\ Line
    /\ at \in {"start", "parsed", "redirected", "open", "handler", "handled", "end"}
    /\ at \in {"start", "parsed", "redirected", "open", "handler"} => Silent
    /\ at = "start" => out = "untouched"
    /\ at \notin {"start", "end"} => Parsed /\ ~Shows
    /\ at \in {"handler", "handled"} => Dispatched
    /\ at = "handled" => KnownAction /\ read = Taken
    /\ at = "end" /\ rc \in {10, 11} => Silent
    /\ at = "end" /\ rc = 0 /\ did => Parsed /\ Dispatched /\ read = Positionals
    /\ at = "end" /\ Shows => out = "untouched" /\ ~did

(* What is left for pass 2 is a sequence.                                    *)
LEMMA RestOf ==
    ASSUME Line
    PROVE  /\ Len(Rest) \in Nat /\ DOMAIN Rest = 1..Len(Rest)
           /\ \A i \in DOMAIN argv \ (Eaten \cup Globals) : \E n \in 1..Len(Rest) : Rest[n] = i
<1> DEFINE S == DOMAIN argv \ (Eaten \cup Globals)
<1>1. S \in SUBSET Nat /\ IsFiniteSet(S)
  <2>1. IsFiniteSet(1..Len(argv)) /\ S \in SUBSET (1..Len(argv))
    BY FS_Interval DEF Line
  <2> QED
    BY <2>1, FS_Subset
<1>2. Rest = InOrder(S)
  BY DEF Rest
<1> QED
  BY <1>1, <1>2, InOrderOf

(* So are its arguments, and the positionals among them.                     *)
LEMMA PositionalsOf ==
    ASSUME Line, Len(Rest) >= 2
    PROVE  /\ DOMAIN Args = 1..(Len(Rest) - 2)
           /\ \A k \in DOMAIN Args : Args[k] = Rest[k + 2]
           /\ Len(Positionals) \in Nat /\ DOMAIN Positionals = 1..Len(Positionals)
           /\ \A k \in DOMAIN Args : IsWord(Args[k]) /\ ~IsValue(k)
                 => \E n \in DOMAIN Positionals : Positionals[n] = k
<1> DEFINE P == {k \in DOMAIN Args : IsWord(Args[k]) /\ ~IsValue(k)}
<1>1. Positionals = InOrder(P)
  BY DEF Positionals
<1>2. Len(Rest) \in Nat /\ DOMAIN Rest = 1..Len(Rest)
  BY RestOf
<1>3. Args = [k \in 1..(Len(Rest) - 2) |-> Rest[k + 2]]
  <2>1. Args = SubSeq(Rest, 3, Len(Rest))
    BY <1>2 DEF Args
  <2> QED
    BY <1>2, <2>1
<1>4. P \in SUBSET Nat /\ IsFiniteSet(P)
  <2>1. IsFiniteSet(1..(Len(Rest) - 2)) /\ P \in SUBSET (1..(Len(Rest) - 2))
    BY <1>2, <1>3, FS_Interval
  <2> QED
    BY <2>1, FS_Subset
<1>5. /\ Len(Positionals) \in Nat /\ DOMAIN Positionals = 1..Len(Positionals)
      /\ \A k \in P : \E n \in 1..Len(Positionals) : Positionals[n] = k
  BY <1>1, <1>4, InOrderOf
<1> QED
  BY <1>2, <1>3, <1>5

(* A handler takes every positional that dispatch has let through.           *)
LEMMA AllAreTaken ==
    ASSUME Line, Parsed, Dispatched, KnownAction
    PROVE  Taken = Positionals /\ Len(Taken) = Len(Positionals)
<1>1. Len(Positionals) \in Nat /\ DOMAIN Positionals = 1..Len(Positionals)
  BY PositionalsOf, RestOf DEF Parsed
<1>2. Reads.most \in Nat /\ Len(Positionals) <= Reads.most
  BY <1>1, TablesAgree DEF Dispatched
<1>3. Min({Reads.most, Len(Positionals)}) = Len(Positionals)
  BY <1>1, <1>2 DEF Min
<1>4. Positionals = [n \in 1..Len(Positionals) |-> Positionals[n]]
  <2>1. Positionals = [n \in DOMAIN Positionals |-> Positionals[n]]
    BY DEF Positionals, InOrder
  <2> QED
    BY <1>1, <2>1
<1>5. SubSeq(Positionals, 1, Len(Positionals)) = [n \in 1..Len(Positionals) |-> Positionals[n]]
  BY <1>1, <1>4
<1> QED
  BY <1>3, <1>4, <1>5 DEF Taken

LEMMA FrontInit == Init => FrontInv
BY LineGiven DEF Init, FrontInv, Silent

LEMMA FrontStep == FrontInv /\ [Next]_frontVars => FrontInv'
<1> SUFFICES ASSUME FrontInv, [Next]_frontVars PROVE FrontInv'
  OBVIOUS
<1>0. UNCHANGED <<cmd, argv>>
  BY DEF Next, Scan, Redirect, OpenDb, Dispatch, Refuse, Handle, Leave, Finished, Unchanged,
         frontVars
<1>1. /\ Line' /\ Shows' = Shows /\ Parsed' = Parsed /\ Dispatched' = Dispatched
      /\ KnownAction' = KnownAction /\ Taken' = Taken /\ Positionals' = Positionals
  BY <1>0, SameLine DEF FrontInv
<1>2. CASE Scan
  <2>1. at = "start" /\ Silent /\ out = "untouched"
    BY <1>2 DEF Scan, FrontInv
  <2>2. CASE at' = "end" /\ rc' = 10 /\ Quiet
    BY <1>1, <2>1, <2>2 DEF FrontInv, Silent, Quiet
  <2>3. CASE at' = "end" /\ rc' = 0 /\ UNCHANGED <<did, out, read>>
    BY <1>1, <2>1, <2>3 DEF FrontInv, Silent
  <2>4. CASE at' = "parsed" /\ ~Shows /\ IsValid /\ ~(Len(Rest) < 2) /\ Quiet
    <3>1. Len(Rest) >= 2
      <4>1. Len(Rest) \in Nat
        BY RestOf DEF FrontInv
      <4> QED
        BY <2>4, <4>1
    <3> QED
      BY <1>1, <2>1, <2>4, <3>1 DEF FrontInv, Silent, Quiet, Parsed
  <2> QED
    BY <1>2, <2>2, <2>3, <2>4 DEF Scan, Ends
<1>3. CASE Redirect
  BY <1>1, <1>3 DEF Redirect, Ends, FrontInv, Silent
<1>4. CASE OpenDb
  BY <1>1, <1>4 DEF OpenDb, Ends, Quiet, FrontInv, Silent
<1>5. CASE Dispatch
  BY <1>1, <1>5 DEF Dispatch, Ends, Quiet, FrontInv, Silent, Dispatched
<1>6. CASE Refuse
  BY <1>1, <1>6 DEF Refuse, Ends, Quiet, FrontInv, Silent
<1>7. CASE Handle
  <2>1. at = "handler" /\ at' = "handled" /\ KnownAction /\ read' = Taken
    BY <1>7 DEF Handle, Taken
  <2> QED
    BY <1>1, <2>1 DEF FrontInv
<1>8. CASE Leave
  <2>1. at = "handled" /\ at' = "end" /\ KnownAction /\ read = Taken /\ Line /\ Parsed
        /\ Dispatched /\ ~Shows /\ read' = read
    BY <1>8 DEF Leave, Ends, FrontInv
  <2>2. read = Positionals /\ Len(read) = Len(Positionals) /\ Len(Positionals) \in Nat
    BY <2>1, AllAreTaken, PositionalsOf, RestOf DEF Parsed
  <2>3. rc' = 0
    BY <1>8, <2>2 DEF Leave, Ends
  <2> QED
    BY <1>1, <2>1, <2>2, <2>3 DEF FrontInv
<1>9. CASE UNCHANGED frontVars
  BY <1>1, <1>9 DEF frontVars, FrontInv, Silent
<1> QED
  BY <1>2, <1>3, <1>4, <1>5, <1>6, <1>7, <1>8, <1>9 DEF Next, Finished

LEMMA FrontAlways == Spec => []FrontInv
BY FrontInit, FrontStep, PTL DEF Spec

(* cli_main: a command line that is refused as such (10, 11) has printed
   nothing and its handler has done nothing.  It rests on two tables: the
   schema counts as many positionals as the handler takes, for every command,
   so that none is left over when the handler has run.                       *)
THEOREM RefusalsDoNothing == Spec => []RefusedDoesNothing
<1>1. FrontInv => RefusedDoesNothing
  BY DEF FrontInv, Silent, RefusedDoesNothing
<1> QED
  BY <1>1, FrontAlways, PTL

(* --help, --version and --tools, wherever pass 1 finds them, run no command:
   no file is emptied and no database opened.                                *)
THEOREM ShowingTouchesNothing == Spec => []ShowTouchesNothing
<1>1. FrontInv => ShowTouchesNothing
  <2> SUFFICES ASSUME FrontInv, NEW i \in DOMAIN argv \ Eaten,
                      argv[i].f \in {"help", "version", "tools"}, ~argv[i].eq
               PROVE  at \in {"start", "end"} /\ out = "untouched" /\ ~did
    BY DEF ShowTouchesNothing
  <2>1. i \in Globals
    BY DEF Globals, IsGlobal, GlobalSwitches
  <2>2. Shows
    BY <2>1 DEF Shows, Has
  <2> QED
    BY <2>2 DEF FrontInv, Silent
<1> QED
  BY <1>1, FrontAlways, PTL

(* acta_parse_args and the handlers: when a command has succeeded, each word of
   its line was taken: by a global option, as a positional, or as the value of
   an option that some handler reads.                                        *)
THEOREM NoWordIsLost == Spec => []NoWordIsSwallowed
<1>1. FrontInv => NoWordIsSwallowed
  <2> SUFFICES ASSUME FrontInv, did, at = "end", rc = 0,
                      NEW i \in DOMAIN argv, argv[i].f = "word", i \notin Eaten
               PROVE  \/ \E n \in DOMAIN read : Args[read[n]] = i
                      \/ \E k \in DOMAIN Args :
                            /\ k > 1 /\ Args[k] = i
                            /\ \E c \in DOMAIN Handlers : \E a \in DOMAIN Handlers[c] :
                                  Option(k - 1).f \in Handlers[c][a].values
    BY DEF NoWordIsSwallowed
  <2>1. Line /\ Parsed /\ Dispatched /\ read = Positionals
    BY DEF FrontInv
  <2>2. i \notin Globals
    BY DEF Globals, IsGlobal, GlobalValues, GlobalSwitches
  <2>3. PICK m \in 1..Len(Rest) : Rest[m] = i
    BY <2>1, <2>2, PositionalsOf, RestOf DEF Parsed
  <2>4. m # 1 /\ m # 2
    <3>1. Rest # <<>> /\ Len(Rest) > 1
      BY <2>1, PositionalsOf, RestOf DEF Parsed
    <3> QED
      BY <2>1, <2>3, <3>1 DEF Dispatched, RestIsCommand
  <2>5. PICK k \in DOMAIN Args : k = m - 2 /\ Args[k] = i
    BY <2>1, <2>3, <2>4, PositionalsOf, RestOf DEF Parsed
  <2>6. CASE ~IsValue(k)
    BY <2>1, <2>5, <2>6, PositionalsOf, RestOf DEF Parsed, IsWord
  <2>7. CASE IsValue(k)
    <3>1. k > 1 /\ ~IsWord(Args[k - 1]) /\ TakesValue(Option(k - 1).f) /\ k - 1 \in DOMAIN Args
      BY <2>1, <2>7, PositionalsOf, RestOf DEF IsValue, Parsed
    <3>2. Option(k - 1).f \in Vocabulary
      BY <2>1, <3>1 DEF Parsed, IsValid
    <3> QED
      BY <2>5, <3>1, <3>2, VocabularyIsRead
  <2> QED
    BY <2>6, <2>7
<1> QED
  BY <1>1, FrontAlways, PTL
-----------------------------------------------------------------------------
(* The published grammar                                                     *)

ValueOptions == {f \in Vocabulary : TakesValue(f)}
Switches == {"all", "full", "include_deleted", "sql_stdin"}

(* The vocabulary and the global options divide every option of the schema
   and of the handlers alike.                                                *)
LEMMA OptionTables ==
    ASSUME KnownAction, ~IsHelp
    PROVE  /\ Published.values \subseteq ValueOptions /\ Published.switches \subseteq Switches
           /\ Reads.values \subseteq ValueOptions /\ Reads.switches \subseteq Switches
<1> DEFINE e == cmd[1]
           a == cmd[2]
           Known(s, h) == \A x \in DOMAIN h :
               /\ s[x].values \subseteq ValueOptions /\ s[x].switches \subseteq Switches
               /\ h[x].values \subseteq ValueOptions /\ h[x].switches \subseteq Switches
<1> USE DEF Take, Id, Help, OptionalParent, Paging, Switches
<1>1. ValueOptions = Vocabulary \ {"all", "count", "deleted", "full", "include_deleted",
                                   "sql_stdin", "stream"}
  BY DEF ValueOptions, TakesValue
<1>2. {"type", "content", "content_file", "hash", "metadata", "name", "backend", "folder_id",
       "model_identifier", "description", "base_url", "configuration", "parent_id", "offset",
       "limit", "prompt_template", "output_schema", "status", "context_id", "level", "event",
       "skill_revision_id", "model_revision_id", "parent_execution_id", "result", "message",
       "result_file", "error", "raw", "raw_file", "execution_id", "sql", "file", "to"}
      \subseteq ValueOptions
  BY <1>1 DEF Vocabulary
<1> HIDE DEF ValueOptions
<1>3. Known(SchemaDb, DbReads)
  BY <1>2 DEF SchemaDb, DbReads, SqlFlags
<1>4. Known(SchemaContext, ContextReads)
  BY <1>2 DEF SchemaContext, ContextReads
<1>5. Known(SchemaModel, ModelReads)
  BY <1>2 DEF SchemaModel, ModelReads, ModelFields
<1>6. Known(SchemaModelFolder, ModelFolderReads)
  BY <1>2 DEF SchemaModelFolder, ModelFolderReads
<1>7. Known(SchemaModelRevision, ModelRevisionReads)
  BY <1>2 DEF SchemaModelRevision, ModelRevisionReads
<1>8. Known(SchemaSkill, SkillReads)
  BY <1>2 DEF SchemaSkill, SkillReads, SkillFields
<1>9. Known(SchemaSkillFolder, SkillFolderReads)
  BY <1>2 DEF SchemaSkillFolder, SkillFolderReads
<1>10. Known(SchemaSkillRevision, SkillRevisionReads)
  BY <1>2 DEF SchemaSkillRevision, SkillRevisionReads
<1>11. Known(SchemaExec, ExecReads)
  BY <1>2 DEF SchemaExec, ExecReads, ExecFilters
<1>12. Known(SchemaLog, LogReads)
  BY <1>2 DEF SchemaLog, LogReads
<1>13. /\ e \in {"db", "context", "model", "model_folder", "model_revision", "skill",
                 "skill_folder", "skill_revision", "exec", "log"}
       /\ a \in DOMAIN Handlers[e]
  BY DEF KnownAction, KnownEntity, Handlers
<1> HIDE DEF Known
<1>14. Known(Schema[e], Handlers[e])
  BY <1>3, <1>4, <1>5, <1>6, <1>7, <1>8, <1>9, <1>10, <1>11, <1>12, <1>13
     DEF Schema, Handlers
<1> QED
  BY <1>13, <1>14 DEF Known, Reads, Published

(* No option is two things at once.                                          *)
LEMMA OptionsDiffer ==
    /\ ValueOptions \cap (Switches \cup GlobalValues \cup GlobalSwitches) = {}
    /\ Switches \cap (GlobalValues \cup GlobalSwitches) = {}
    /\ GlobalValues \cap GlobalSwitches = {}
    /\ "verbose" \in GlobalSwitches
    /\ Switches \subseteq Vocabulary /\ ValueOptions \subseteq Vocabulary
    /\ \A f \in Switches : ~TakesValue(f)
    /\ \A f \in ValueOptions : TakesValue(f)
    /\ \A f \in {"word", "entity", "action"} :
          f \notin ValueOptions \cup Switches \cup GlobalValues \cup GlobalSwitches
    /\ "deleted" \notin ValueOptions \cup Switches /\ "include_deleted" \notin ValueOptions
BY DEF ValueOptions, Switches, GlobalValues, GlobalSwitches, Vocabulary, TakesValue

(* A global option with its value in the next token.                         *)
Plain(i) == argv[i].f \in GlobalValues /\ ~argv[i].eq
Kept == DOMAIN argv \ (Eaten \cup Globals)

(* What InSchema says of each token.                                         *)
LEMMA Grammar ==
    ASSUME Line, InSchema
    PROVE  /\ Len(argv) \in Nat /\ DOMAIN argv = 1..Len(argv) /\ Len(argv) >= 2
           /\ argv[1].f = "entity" /\ argv[2].f = "action"
           /\ \A i \in DOMAIN argv : ~IsWord(i) =>
                 /\ i > 2
                 /\ SchemaKnows(i)
                 /\ SchemaValue(argv[i].f) /\ ~argv[i].eq
                       => i + 1 \in DOMAIN argv /\ IsWord(i + 1)
                 /\ argv[i].eq => SchemaValue(argv[i].f)
                 /\ \A j \in DOMAIN argv : argv[j].f = argv[i].f => j = i
<1>1. Len(argv) \in Nat /\ DOMAIN argv = 1..Len(argv) /\ Len(argv) >= 2
  BY DEF Line, InSchema
<1>2. argv[1].f = "entity" /\ argv[2].f = "action"
  <2>1. SubSeq(argv, 1, 2) = Command
    BY DEF InSchema
  <2>2. SubSeq(argv, 1, 2) = [k \in 1..2 |-> argv[k]]
    BY <1>1
  <2>3. argv[1] = Command[1] /\ argv[2] = Command[2]
    BY <2>1, <2>2
  <2> QED
    BY <2>3 DEF Command
<1>3. IsWord(1) /\ IsWord(2)
  BY <1>2 DEF IsWord
<1>4. ASSUME NEW i \in DOMAIN argv, ~IsWord(i)
      PROVE  /\ i \in After
             /\ SchemaKnows(i)
             /\ SchemaValue(argv[i].f) /\ ~argv[i].eq => i < Len(argv) /\ IsWord(i + 1)
             /\ argv[i].eq => SchemaValue(argv[i].f)
             /\ \A j \in After \ {i} : argv[j].f # argv[i].f
  <2>1. i \in After
    BY <1>1, <1>3, <1>4 DEF After
  <2> QED
    BY <1>4, <2>1 DEF InSchema
<1>5. ASSUME NEW i \in DOMAIN argv, ~IsWord(i), NEW j \in DOMAIN argv, argv[j].f = argv[i].f
      PROVE  j = i
  <2>1. j \in After
    BY <1>1, <1>3, <1>5 DEF After, IsWord
  <2> QED
    BY <1>4, <1>5, <2>1
<1> QED
  BY <1>1, <1>2, <1>4, <1>5 DEF After

(* A global option takes the word behind it, and no other token is taken.    *)
LEMMA EatenIs ==
    ASSUME Line, InSchema
    PROVE  \A i \in DOMAIN argv : i \in Eaten <=> i > 1 /\ Plain(i - 1)
<1> DEFINE n == Len(argv)
           body(g, i) == i > 1 /\ ~g[i - 1] /\ argv[i - 1].f \in GlobalValues /\ ~argv[i - 1].eq
           h == CHOOSE g : g = [i \in 0..n |-> body(g, i)]
           w == [i \in 0..n |-> i > 1 /\ Plain(i - 1)]
<1>1. Eaten = {i \in DOMAIN argv : h[i]}
  BY DEF Eaten
<1>2. n \in Nat /\ DOMAIN argv = 1..n
  BY DEF Line
<1>3. ASSUME NEW i \in 2..n PROVE ~(Plain(i) /\ Plain(i - 1))
  <2> SUFFICES ASSUME Plain(i), Plain(i - 1) PROVE FALSE
    OBVIOUS
  <2>1. i - 1 \in DOMAIN argv /\ i \in DOMAIN argv /\ i - 1 + 1 = i
    BY <1>2
  <2>2. ~IsWord(i) /\ ~IsWord(i - 1) /\ SchemaValue(argv[i - 1].f) /\ ~argv[i - 1].eq
    BY DEF Plain, IsWord, GlobalValues, SchemaValue
  <2>3. \A j \in DOMAIN argv : ~IsWord(j) /\ SchemaValue(argv[j].f) /\ ~argv[j].eq => IsWord(j + 1)
    BY Grammar
  <2> QED
    BY <2>1, <2>2, <2>3
<1>4. ~Plain(1)
  BY Grammar DEF Plain, GlobalValues
<1>5. w = [i \in 0..n |-> body(w, i)]
  <2>1. ASSUME NEW i \in 0..n PROVE (i > 1 /\ Plain(i - 1)) <=> body(w, i)
    <3>1. CASE ~(i > 1)
      BY <3>1
    <3>2. CASE i > 1
      <4>1. i - 1 \in 0..n
        BY <1>2, <3>2
      <4>2. w[i - 1] <=> i - 1 > 1 /\ Plain(i - 1 - 1)
        BY <4>1
      <4>3. Plain(i - 1) => ~w[i - 1]
        <5> SUFFICES ASSUME Plain(i - 1), i - 1 > 1 PROVE ~Plain(i - 1 - 1)
          BY <4>2
        <5>1. i - 1 \in 2..n
          BY <1>2
        <5> QED
          BY <1>3, <5>1
      <4> QED
        BY <3>2, <4>3 DEF Plain
    <3> QED
      BY <3>1, <3>2
  <2> QED
    BY <2>1
<1>6. h = [i \in 0..n |-> body(h, i)]
  BY <1>5
<1>7. ASSUME NEW i \in 0..n PROVE h[i] <=> body(h, i)
  BY <1>6
<1> HIDE DEF h
<1> SUFFICES ASSUME NEW i \in 1..n PROVE h[i] <=> i > 1 /\ Plain(i - 1)
  BY <1>1, <1>2
<1>8. CASE ~(i > 1)
  BY <1>7, <1>8
<1>9. CASE i > 1
  <2>1. i - 1 \in 0..n /\ i \in 0..n
    BY <1>2, <1>9
  <2>2. ASSUME Plain(i - 1), h[i - 1] PROVE FALSE
    <3>1. body(h, i - 1)
      BY <1>7, <2>1, <2>2
    <3>2. i - 1 \in 2..n /\ Plain(i - 1 - 1)
      BY <1>2, <1>9, <3>1 DEF Plain
    <3> QED
      BY <1>3, <2>2, <3>2
  <2> QED
    BY <1>7, <1>9, <2>1, <2>2 DEF Plain
<1> QED
  BY <1>8, <1>9

(* Pass 1 leaves the command, its options and the words that are not the
   value of a global option.                                                 *)
LEMMA KeptIs ==
    ASSUME Line, InSchema
    PROVE  \A i \in DOMAIN argv :
               i \in Kept <=> IF IsWord(i) THEN ~(i > 1 /\ Plain(i - 1))
                             ELSE argv[i].f \in Published.values \cup Published.switches
<1>1. KnownAction /\ ~IsHelp
  BY DEF InSchema
<1>2. Published.values \subseteq ValueOptions /\ Published.switches \subseteq Switches
  BY <1>1, OptionTables
<1>3. ASSUME NEW i \in DOMAIN argv, IsWord(i)
      PROVE  i \in Kept <=> ~(i > 1 /\ Plain(i - 1))
  <2>1. ~IsGlobal(i)
    BY <1>3 DEF IsWord, IsGlobal, GlobalValues, GlobalSwitches
  <2>2. i \in Kept <=> i \notin Eaten
    BY <2>1 DEF Kept, Globals
  <2> QED
    BY <2>2, EatenIs
<1>4. ASSUME NEW i \in DOMAIN argv, ~IsWord(i)
      PROVE  i \in Kept <=> argv[i].f \in Published.values \cup Published.switches
  <2>1. /\ i \in Nat /\ i > 2 /\ SchemaKnows(i) /\ i - 1 \in DOMAIN argv /\ i - 1 + 1 = i
        /\ argv[i].eq => SchemaValue(argv[i].f)
    BY <1>4, Grammar
  <2>2. ~Plain(i - 1)
    <3> SUFFICES ASSUME Plain(i - 1) PROVE FALSE
      OBVIOUS
    <3>1. ~IsWord(i - 1) /\ SchemaValue(argv[i - 1].f) /\ ~argv[i - 1].eq
      BY DEF Plain, IsWord, GlobalValues, SchemaValue
    <3>2. \A j \in DOMAIN argv : ~IsWord(j) /\ SchemaValue(argv[j].f) /\ ~argv[j].eq => IsWord(j + 1)
      BY Grammar
    <3> QED
      BY <1>4, <2>1, <3>1, <3>2
  <2>3. i \notin Eaten
    BY <2>2, EatenIs
  <2>4. i \in Kept <=> ~IsGlobal(i)
    BY <2>3 DEF Kept, Globals
  <2>5. argv[i].f \in GlobalSwitches => ~argv[i].eq
    BY <1>2, <2>1, OptionsDiffer DEF SchemaValue
  <2>6. argv[i].f \in Published.values \cup Published.switches \cup GlobalValues \cup GlobalSwitches
    BY <2>1 DEF SchemaKnows
  <2>7. IsGlobal(i) <=> argv[i].f \in GlobalValues \cup GlobalSwitches
    BY <2>5, OptionsDiffer DEF IsGlobal
  <2> QED
    BY <1>2, <2>4, <2>6, <2>7, OptionsDiffer
<1> QED
  BY <1>3, <1>4

(* Pass 2 has the entity and the action in front, and behind them what pass 1
   has left, in order.                                                       *)
LEMMA ArgsOf ==
    ASSUME Line, InSchema
    PROVE  /\ Len(Rest) \in Nat /\ Len(Rest) >= 2 /\ RestIsCommand
           /\ DOMAIN Args = 1..(Len(Rest) - 2) /\ Len(Args) = Len(Rest) - 2
           /\ \A k \in DOMAIN Args : Args[k] \in Kept /\ Args[k] > 2
           /\ \A i \in Kept : i > 2 => \E k \in DOMAIN Args : Args[k] = i
           /\ \A j, k \in DOMAIN Args : j < k => Args[j] < Args[k]
           /\ \A k \in DOMAIN Args : Args[k] + 1 \in Kept
                 => k + 1 \in DOMAIN Args /\ Args[k + 1] = Args[k] + 1
<1>1. /\ Len(argv) \in Nat /\ DOMAIN argv = 1..Len(argv) /\ Len(argv) >= 2
      /\ argv[1].f = "entity" /\ argv[2].f = "action"
  BY Grammar
<1>2. Kept \in SUBSET Nat /\ IsFiniteSet(Kept)
  <2>1. IsFiniteSet(1..Len(argv)) /\ Kept \in SUBSET (1..Len(argv))
    BY <1>1, FS_Interval DEF Kept
  <2>2. IsFiniteSet(Kept)
    BY <2>1, FS_Subset
  <2> QED
    BY <2>1, <2>2
<1>3. 1 \in Kept /\ 2 \in Kept /\ \A i \in Kept : i >= 1
  <2>1. IsWord(1) /\ IsWord(2) /\ ~Plain(1) /\ 1 \in DOMAIN argv /\ 2 \in DOMAIN argv
    BY <1>1 DEF IsWord, Plain, GlobalValues
  <2>2. 1 \in Kept /\ 2 \in Kept
    BY <2>1, KeptIs
  <2> QED
    BY <1>1, <2>2 DEF Kept
<1>4. Rest = InOrder(Kept)
  BY DEF Rest, Kept
<1>5. PICK c \in Nat : c = Cardinality(Kept)
  BY <1>2, InOrderOf
<1>6. /\ Len(Rest) = c /\ DOMAIN Rest = 1..c
      /\ \A i \in Kept : \E n \in 1..c : Rest[n] = i
      /\ \A n \in 1..c : Rest[n] \in Kept
  BY <1>2, <1>4, <1>5, InOrderOf
<1>7. \A m, n \in 1..c : m < n => Rest[m] < Rest[n]
  BY <1>2, <1>4, <1>5, InOrderUp
<1>8. ASSUME NEW n \in 1..c, NEW i \in Kept, i + 1 \in Kept, Rest[n] = i
      PROVE  n + 1 \in 1..c /\ Rest[n + 1] = i + 1
  BY <1>2, <1>4, <1>5, <1>8, Neighbours
<1>9. c >= 1 /\ Rest[1] = 1
  <2>1. PICK n \in 1..c : Rest[n] = 1
    BY <1>3, <1>6
  <2>2. n # 1 => Rest[1] < 1
    BY <1>7, <2>1
  <2>3. 1 \in 1..c
    BY <2>1
  <2>4. Rest[1] \in Kept
    BY <1>6, <2>3
  <2>5. Rest[1] \in Nat /\ Rest[1] >= 1
    BY <1>2, <1>3, <2>4
  <2> QED
    BY <2>1, <2>2, <2>5
<1>10. c >= 2 /\ Rest[2] = 2
  BY <1>3, <1>8, <1>9
<1>11. RestIsCommand
  BY <1>1, <1>9, <1>10 DEF RestIsCommand
<1>12. Args = [k \in 1..(c - 2) |-> Rest[k + 2]]
  <2>1. Args = SubSeq(Rest, 3, c)
    BY <1>6, <1>10 DEF Args
  <2> QED
    BY <1>6, <2>1
<1>13. DOMAIN Args = 1..(c - 2) /\ Len(Args) = c - 2
  BY <1>10, <1>12
<1>14. ASSUME NEW k \in 1..(c - 2) PROVE Args[k] \in Kept /\ Args[k] > 2 /\ Args[k] = Rest[k + 2]
  <2>1. k + 2 \in 1..c /\ 2 \in 1..c /\ 2 < k + 2 /\ Args[k] = Rest[k + 2]
    BY <1>10, <1>12
  <2>2. Rest[2] < Rest[k + 2]
    BY <1>7, <2>1
  <2> QED
    BY <1>2, <1>6, <1>10, <2>1, <2>2
<1>15. ASSUME NEW i \in Kept, i > 2 PROVE \E k \in 1..(c - 2) : Args[k] = i
  <2>1. PICK n \in 1..c : Rest[n] = i
    BY <1>6
  <2>2. n # 1 /\ n # 2
    BY <1>9, <1>10, <1>15, <2>1
  <2>3. n - 2 \in 1..(c - 2) /\ n - 2 + 2 = n
    BY <2>2
  <2>4. Args[n - 2] = i
    BY <1>14, <2>1, <2>3
  <2> QED
    BY <2>3, <2>4
<1>16. ASSUME NEW j \in 1..(c - 2), NEW k \in 1..(c - 2), j < k PROVE Args[j] < Args[k]
  <2>1. j + 2 \in 1..c /\ k + 2 \in 1..c /\ j + 2 < k + 2
    BY <1>16
  <2> QED
    BY <1>7, <1>14, <2>1
<1>17. ASSUME NEW k \in 1..(c - 2), Args[k] + 1 \in Kept
       PROVE  k + 1 \in 1..(c - 2) /\ Args[k + 1] = Args[k] + 1
  <2>1. k + 2 \in 1..c /\ Args[k] \in Kept /\ Args[k] = Rest[k + 2]
    BY <1>14
  <2>2. k + 2 + 1 \in 1..c /\ Rest[k + 2 + 1] = Args[k] + 1
    BY <1>8, <1>17, <2>1
  <2>3. k + 1 \in 1..(c - 2) /\ k + 1 + 2 = k + 2 + 1
    BY <2>2
  <2> QED
    BY <1>14, <2>2, <2>3
<1> QED
  BY <1>5, <1>6, <1>10, <1>11, <1>13, <1>14, <1>15, <1>16, <1>17

(* Behind the command no two options are the same, and an option that is left
   stays what it is.                                                         *)
LEMMA OptionIs ==
    ASSUME Line, InSchema, NEW k \in DOMAIN Args, ~IsWord(Args[k])
    PROVE  /\ Args[k] \in DOMAIN argv /\ Args[k] \in Nat
           /\ argv[Args[k]].f \in Published.values \cup Published.switches
           /\ Option(k) = argv[Args[k]]
           /\ TakesValue(Option(k).f) <=> argv[Args[k]].f \in Published.values
           /\ Option(k).f \in Vocabulary
<1>1. Published.values \subseteq ValueOptions /\ Published.switches \subseteq Switches
  BY OptionTables DEF InSchema
<1>2. Args[k] \in Kept
  BY ArgsOf
<1>3. Args[k] \in DOMAIN argv /\ DOMAIN argv \subseteq Nat
  BY <1>2, Grammar DEF Kept
<1>4. argv[Args[k]].f \in Published.values \cup Published.switches
  BY <1>2, <1>3, KeptIs
<1>5. Option(k) = argv[Args[k]]
  BY <1>1, <1>4, OptionsDiffer DEF Option
<1> QED
  BY <1>1, <1>3, <1>4, <1>5, OptionsDiffer

(* An option with a value is followed by it, in pass 2 as on the line.       *)
LEMMA ValueFollows ==
    ASSUME Line, InSchema, NEW k \in DOMAIN Args, ~IsWord(Args[k]),
           TakesValue(Option(k).f), ~Option(k).eq
    PROVE  /\ k + 1 \in DOMAIN Args /\ Args[k + 1] = Args[k] + 1 /\ IsWord(Args[k + 1])
           /\ ValueAt(Args[k + 1])
<1> DEFINE i == Args[k]
<1>1. i \in DOMAIN argv /\ i \in Nat /\ argv[i].f \in Published.values /\ ~argv[i].eq
  BY OptionIs
<1>2. i + 1 \in DOMAIN argv /\ IsWord(i + 1) /\ i > 2
  <2>1. SchemaValue(argv[i].f)
    BY <1>1 DEF SchemaValue
  <2> QED
    BY <1>1, <2>1, Grammar
<1>3. ~Plain(i)
  <2>1. Published.values \subseteq ValueOptions
    BY OptionTables DEF InSchema
  <2> QED
    BY <1>1, <2>1, OptionsDiffer DEF Plain
<1>4. i + 1 \in Kept
  <2>1. PICK j \in DOMAIN argv : j = i + 1
    BY <1>2
  <2>2. IsWord(j) /\ ~Plain(j - 1)
    <3>1. j - 1 = i
      BY <1>1, <2>1
    <3> QED
      BY <1>2, <1>3, <2>1, <3>1
  <2>3. j \in Kept
    BY <2>2, KeptIs
  <2> QED
    BY <2>1, <2>3
<1>5. k + 1 \in DOMAIN Args /\ Args[k + 1] = i + 1
  BY <1>4, ArgsOf
<1>6. ValueAt(i + 1)
  <2>1. i + 1 > 3 /\ i + 1 - 1 = i
    BY <1>1, <1>2
  <2> QED
    BY <1>1, <2>1 DEF ValueAt, SchemaValue
<1> QED
  BY <1>2, <1>5, <1>6

(* The walker takes a word for a value just when the schema does.            *)
LEMMA ValueIsValue ==
    ASSUME Line, InSchema, NEW k \in DOMAIN Args, IsWord(Args[k])
    PROVE  IsValue(k) <=> ValueAt(Args[k])
<1> DEFINE i == Args[k]
<1>1. k \in Nat /\ DOMAIN Args = 1..(Len(Rest) - 2) /\ Len(Rest) \in Nat /\ i \in Kept
  BY ArgsOf
<1>2. i \in DOMAIN argv /\ DOMAIN argv = 1..Len(argv) /\ Len(argv) \in Nat
  BY <1>1, Grammar DEF Kept
<1>3. ASSUME IsValue(k) PROVE ValueAt(i)
  <2>1. /\ k > 1 /\ ~IsWord(Args[k - 1]) /\ TakesValue(Option(k - 1).f) /\ ~Option(k - 1).eq
        /\ k - 1 \in DOMAIN Args /\ k - 1 + 1 = k
    BY <1>1, <1>3 DEF IsValue
  <2> QED
    BY <2>1, ValueFollows
<1>4. ASSUME ValueAt(i) PROVE IsValue(k)
  <2>1. i > 3 /\ ~IsWord(i - 1) /\ SchemaValue(argv[i - 1].f) /\ ~argv[i - 1].eq
    BY <1>4 DEF ValueAt
  <2>2. i - 1 \in DOMAIN argv /\ i - 1 > 2 /\ i - 1 + 1 = i
    BY <1>2, <2>1
  <2>3. ~Plain(i - 1)
    BY <1>1, <1>2, <2>1, KeptIs
  <2>4. argv[i - 1].f \in Published.values
    BY <2>1, <2>3 DEF Plain, SchemaValue
  <2>5. i - 1 \in Kept
    BY <2>1, <2>2, <2>4, KeptIs
  <2>6. PICK j \in DOMAIN Args : Args[j] = i - 1
    BY <2>2, <2>5, ArgsOf
  <2>7. j + 1 \in DOMAIN Args /\ Args[j + 1] = i
    BY <1>1, <2>2, <2>6, ArgsOf
  <2>8. ~(k < j + 1) /\ ~(j + 1 < k)
    <3>1. i \in Nat
      BY <1>2
    <3>2. k < j + 1 => Args[k] < Args[j + 1]
      BY <2>7, ArgsOf
    <3>3. j + 1 < k => Args[j + 1] < Args[k]
      BY <2>7, ArgsOf
    <3> QED
      BY <2>7, <3>1, <3>2, <3>3
  <2>9. k > 1 /\ k - 1 = j
    BY <1>1, <2>6, <2>7, <2>8
  <2>10. Option(j) = argv[i - 1] /\ TakesValue(Option(j).f) /\ ~IsWord(Args[j])
    BY <2>1, <2>4, <2>6, OptionIs
  <2> QED
    BY <2>1, <2>9, <2>10 DEF IsValue
<1> QED
  BY <1>3, <1>4

(* What the schema means by positionals, and the walker finds.               *)
LEMMA PositionalsAreMeant ==
    ASSUME Line, InSchema
    PROVE  /\ Len(Positionals) \in Nat /\ Len(Positionals) = Len(Meant)
           /\ DOMAIN Meant = 1..Len(Positionals)
           /\ \A n \in 1..Len(Positionals) : Args[Positionals[n]] = Meant[n]
<1> DEFINE M == {i \in After : IsWord(i) /\ ~ValueAt(i)}
           P == {k \in DOMAIN Args : IsWord(Args[k]) /\ ~IsValue(k)}
<1>1. /\ Len(argv) \in Nat /\ DOMAIN argv = 1..Len(argv) /\ Len(argv) >= 2
      /\ argv[1].f = "entity" /\ argv[2].f = "action"
  BY Grammar
<1>2. PICK l \in Nat : DOMAIN Args = 1..l
  BY ArgsOf
<1>3. M \in SUBSET Nat /\ IsFiniteSet(M)
  <2>1. IsFiniteSet(1..Len(argv)) /\ M \in SUBSET (1..Len(argv))
    BY <1>1, FS_Interval DEF After
  <2>2. IsFiniteSet(M)
    BY <2>1, FS_Subset
  <2> QED
    BY <2>1, <2>2
<1>4. P \in SUBSET Nat /\ IsFiniteSet(P)
  <2>1. IsFiniteSet(1..l) /\ P \in SUBSET (1..l)
    BY <1>2, FS_Interval
  <2>2. IsFiniteSet(P)
    BY <2>1, FS_Subset
  <2> QED
    BY <2>1, <2>2
<1>5. ASSUME NEW i \in M PROVE i \in DOMAIN argv /\ i > 2 /\ i \in Kept /\ IsWord(i) /\ ~ValueAt(i)
  <2>1. i \in DOMAIN argv /\ i \in Nat /\ i > 2 /\ IsWord(i) /\ ~ValueAt(i)
    BY <1>1 DEF After
  <2>2. ~Plain(i - 1)
    <3> SUFFICES ASSUME Plain(i - 1) PROVE FALSE
      OBVIOUS
    <3>1. ~IsWord(i - 1) /\ SchemaValue(argv[i - 1].f) /\ ~argv[i - 1].eq
      BY DEF Plain, IsWord, GlobalValues, SchemaValue
    <3>2. i = 3
      BY <2>1, <3>1 DEF ValueAt
    <3> QED
      BY <1>1, <3>1, <3>2 DEF IsWord
  <2> QED
    BY <2>1, <2>2, KeptIs
<1>6. ASSUME NEW k \in P PROVE Args[k] \in M
  <2>1. k \in DOMAIN Args /\ IsWord(Args[k]) /\ ~ValueAt(Args[k])
    BY ValueIsValue
  <2>2. Args[k] \in Kept /\ Args[k] > 2
    BY <2>1, ArgsOf
  <2> QED
    BY <2>1, <2>2 DEF After, Kept
<1>7. ASSUME NEW i \in M PROVE \E k \in P : Args[k] = i
  <2>1. PICK k \in DOMAIN Args : Args[k] = i
    BY <1>5, ArgsOf
  <2>2. ~IsValue(k) /\ IsWord(Args[k])
    BY <1>5, <2>1, ValueIsValue
  <2> QED
    BY <2>1, <2>2
<1>8. Positionals = InOrder(P) /\ Meant = InOrder(M)
  BY DEF Positionals, Meant
<1>9. PICK c \in Nat : c = Cardinality(P)
  BY <1>4, InOrderOf
<1>10. /\ DOMAIN Positionals = 1..c /\ Len(Positionals) = c
       /\ \A n \in 1..c : Positionals[n] \in P
       /\ \A k \in P : \E n \in 1..c : Positionals[n] = k
  BY <1>4, <1>8, <1>9, InOrderOf
<1>11. \A m, n \in 1..c : m < n => Positionals[m] < Positionals[n]
  BY <1>4, <1>8, <1>9, InOrderUp
<1>12. PICK d \in Nat : d = Cardinality(M) /\ DOMAIN Meant = 1..d /\ Len(Meant) = d
  BY <1>3, <1>8, InOrderOf
<1> HIDE DEF M
<1> DEFINE f == [n \in 1..c |-> Args[Positionals[n]]]
<1>13. f \in [1..c -> M]
  BY <1>6, <1>10
<1>14. ASSUME NEW m \in 1..c, NEW n \in 1..c, m < n PROVE f[m] < f[n]
  <2>1. Positionals[m] < Positionals[n]
    BY <1>11, <1>14
  <2>2. Positionals[m] \in DOMAIN Args /\ Positionals[n] \in DOMAIN Args
    BY <1>10
  <2>3. Args[Positionals[m]] < Args[Positionals[n]]
    BY <2>1, <2>2, ArgsOf
  <2> QED
    BY <2>3
<1>15. ASSUME NEW i \in M PROVE \E n \in 1..c : f[n] = i
  <2>1. PICK k \in P : Args[k] = i
    BY <1>7
  <2>2. PICK n \in 1..c : Positionals[n] = k
    BY <1>10
  <2> QED
    BY <2>1, <2>2
<1> HIDE DEF f
<1>16. c = Cardinality(M) /\ \A n \in 1..c : f[n] = InOrder(M)[n]
  BY <1>3, <1>13, <1>14, <1>15, OneOrder
<1> QED
  BY <1>8, <1>10, <1>12, <1>16 DEF f

(* An option that its handler reads is found where it stands.                *)
LEMMA OptionIsFound ==
    ASSUME Line, InSchema, NEW i \in After, argv[i].f \in Reads.values \cup Reads.switches
    PROVE  /\ ~IsWord(i) /\ argv[i].f # "deleted"
           /\ argv[i].f \in Reads.values => argv[i].f \in Published.values /\ argv[i].f # "include_deleted"
           /\ \E k \in DOMAIN Args : Args[k] = i
<1>1. /\ Published.values \subseteq ValueOptions /\ Published.switches \subseteq Switches
      /\ Reads.values \subseteq ValueOptions /\ Reads.switches \subseteq Switches
  BY OptionTables DEF InSchema
<1>2. ~IsWord(i)
  BY <1>1, OptionsDiffer DEF IsWord
<1>3. i \in DOMAIN argv /\ i > 2
  BY DEF After
<1>4. SchemaKnows(i)
  BY <1>2, <1>3, Grammar
<1>5. argv[i].f \in Published.values \cup Published.switches
  BY <1>1, <1>4, OptionsDiffer DEF SchemaKnows
<1>6. argv[i].f \in Reads.values => argv[i].f \in Published.values
  BY <1>1, <1>5, OptionsDiffer
<1>7. i \in Kept
  BY <1>2, <1>3, <1>5, KeptIs
<1>8. \E k \in DOMAIN Args : Args[k] = i
  BY <1>3, <1>7, ArgsOf
<1> QED
  BY <1>1, <1>2, <1>6, <1>8, OptionsDiffer

(* An invocation in the schema is parsed as the schema says.                 *)
LEMMA SchemaParses ==
    ASSUME Line, InSchema
    PROVE  ~ValueIsMissing /\ IsValid /\ Len(Positionals) <= Declared
<1>1. ~ValueIsMissing
  <2> SUFFICES ASSUME ValueIsMissing PROVE FALSE
    OBVIOUS
  <2>1. Len(argv) \in DOMAIN argv /\ argv[Len(argv)].f \in GlobalValues /\ ~argv[Len(argv)].eq
    BY DEF ValueIsMissing, Globals
  <2>2. ~IsWord(Len(argv)) /\ SchemaValue(argv[Len(argv)].f)
    BY <2>1 DEF IsWord, GlobalValues, SchemaValue
  <2>3. Len(argv) + 1 \in DOMAIN argv
    BY <2>1, <2>2, Grammar
  <2> QED
    BY <2>3, Grammar
<1>2. IsValid
  <2> SUFFICES ASSUME NEW k \in DOMAIN Args, ~IsWord(Args[k])
               PROVE  /\ Option(k).f \in Vocabulary
                      /\ TakesValue(Option(k).f) /\ ~Option(k).eq
                            => k < Len(Args) /\ IsWord(Args[k + 1])
    BY DEF IsValid
  <2>1. Option(k).f \in Vocabulary
    BY OptionIs
  <2>2. TakesValue(Option(k).f) /\ ~Option(k).eq => k + 1 \in DOMAIN Args /\ IsWord(Args[k + 1])
    BY ValueFollows
  <2>3. k + 1 \in DOMAIN Args => k < Len(Args)
    BY ArgsOf
  <2> QED
    BY <2>1, <2>2, <2>3
<1>3. Len(Positionals) <= Declared
  <2>1. Declared = Published.most
    BY DEF Declared, InSchema
  <2>2. Len(Meant) \in Published.need..Published.most
    BY DEF InSchema
  <2>3. Len(Positionals) = Len(Meant)
    BY PositionalsAreMeant
  <2> QED
    BY <2>1, <2>2, <2>3
<1> QED
  BY <1>1, <1>2, <1>3

(* An option that is read with a value has the token behind it.              *)
LEMMA ValueIsFound ==
    ASSUME Line, InSchema, NEW i \in After, argv[i].f \in Reads.values, ~argv[i].eq
    PROVE  ValueOf(argv[i].f) = i + 1
<1> DEFINE v == argv[i].f
           ks == {k \in DOMAIN Args : Option(k).f = v}
<1>1. ~IsWord(i) /\ v \in Published.values /\ v # "include_deleted" /\ i \in DOMAIN argv
  BY OptionIsFound DEF After
<1>2. PICK k \in DOMAIN Args : Args[k] = i
  BY OptionIsFound
<1>3. Option(k) = argv[i] /\ TakesValue(Option(k).f)
  BY <1>1, <1>2, OptionIs
<1>4. k + 1 \in DOMAIN Args /\ Args[k + 1] = i + 1
  BY <1>1, <1>2, <1>3, ValueFollows
<1>5. k \in Nat /\ k # Len(Args) /\ DOMAIN Args = 1..(Len(Rest) - 2) /\ Len(Rest) \in Nat
  BY <1>4, ArgsOf
<1>6. ASSUME NEW j \in ks PROVE j = k
  <2>1. Option(j).f = argv[Args[j]].f
    BY <1>1 DEF Option
  <2>2. Args[j] \in DOMAIN argv
    BY ArgsOf DEF Kept
  <2>3. Args[j] = i
    BY <1>1, <2>1, <2>2, Grammar
  <2>4. i \in Nat
    BY <1>1, Grammar
  <2>5. ~(j < k) /\ ~(k < j)
    BY <1>2, <2>3, <2>4, ArgsOf
  <2> QED
    BY <1>5, <2>5
<1>7. ks = {k}
  BY <1>3, <1>6
<1>8. Min(ks) = k
  <2>1. Min({k}) = k
    BY <1>5 DEF Min
  <2> QED
    BY <1>7, <2>1
<1> QED
  BY <1>3, <1>4, <1>5, <1>7, <1>8 DEF ValueOf

(* acta_parse_args, the vocabulary, dispatch and the handlers, against the
   schema of --tools: a line that the schema allows is not refused by the
   parser, and reaches its handler with the positionals and the values that
   the schema gives it, whatever stands between them and in whatever order.  *)
THEOREM SchemaIsKept == Spec => []SchemaIsObeyed
<1>1. Line => SchemaIsObeyed
  <2> SUFFICES ASSUME Line, InSchema
               PROVE  /\ ~ValueIsMissing /\ IsValid /\ Len(Positionals) <= Declared
                      /\ Len(Positionals) = Len(Meant)
                      /\ \A n \in DOMAIN Meant : Args[Positionals[n]] = Meant[n]
                      /\ \A i \in After : argv[i].f \in Reads.values /\ ~argv[i].eq
                                         => ValueOf(argv[i].f) = i + 1
                      /\ \A i \in After : argv[i].f \in Reads.switches => IsOn(argv[i].f)
    BY DEF SchemaIsObeyed
  <2>1. ~ValueIsMissing /\ IsValid /\ Len(Positionals) <= Declared
    BY SchemaParses
  <2>2. Len(Positionals) = Len(Meant) /\ \A n \in DOMAIN Meant : Args[Positionals[n]] = Meant[n]
    BY PositionalsAreMeant
  <2>3. \A i \in After : argv[i].f \in Reads.values /\ ~argv[i].eq => ValueOf(argv[i].f) = i + 1
    BY ValueIsFound
  <2>4. ASSUME NEW i \in After, argv[i].f \in Reads.switches PROVE IsOn(argv[i].f)
    <3>1. ~IsWord(i) /\ argv[i].f # "deleted"
      BY <2>4, OptionIsFound
    <3>2. PICK k \in DOMAIN Args : Args[k] = i
      BY <2>4, OptionIsFound
    <3>3. Option(k) = argv[i]
      BY <3>1, <3>2 DEF Option
    <3> QED
      BY <3>3 DEF IsOn
  <2> QED
    BY <2>1, <2>2, <2>3, <2>4
<1>2. FrontInv => Line
  BY DEF FrontInv
<1> QED
  BY <1>1, <1>2, FrontAlways, PTL
=============================================================================
