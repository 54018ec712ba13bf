---------------------------- MODULE StartupProofs ----------------------------
(***************************************************************************)
(* What the configuration means, and what main starts, for any file, any    *)
(* volumes and any loaders found on them.                                   *)
(***************************************************************************)
EXTENDS Startup, Discover, TLAPS, NaturalsInduction, WellFoundedInduction

(* Entries a configuration can have, and configurations.                    *)
WrittenEntries ==
  {e \in [title : Titles \cup {"Quark"}, target : Targets] :
     /\ e.target.kind = "chainload" => e.target.with = None
     /\ e.target.cmdline # Empty => e.target.kind = "linux"}

ConfigOf(es) ==
  [timeout : Timeouts \cup {0, 5}, default : Nat, autodetect : BOOLEAN, entries : Seq(es)]

(* Until the file is read no default is named, and once it is the default   *)
(* is an entry, the first when there is none.                               *)
ConfigInv ==
  /\ pc \in {"load", "parse", "parsed"}
  /\ cfg \in ConfigOf(WrittenEntries) /\ Len(cfg.entries) <= MaxEntries + 1
  /\ defaultTitle \in Titles \cup {None}
  /\ pc = "load" => defaultTitle = None
  /\ pc = "parsed" => DefaultMeant /\ (cfg.entries = <<>> => cfg.default = 0)

(* Entries of the list main chooses from.                                   *)
MainTargets ==
  [kind : {"multiboot", "chainload", "linux"}, path : AnyPath \cup {KernelBin},
   with : AnyPath \cup {None, Drivers}, cmdline : {Empty, Options},
   device : Volumes \cup {None}]

MainEntries == [title : Titles \cup {"Quark", "found"}, target : MainTargets]

Before  == pc \in {"load", "parse", "parsed"}
Started == pc \in {"multiboot", "linux", "chainload"}

MainTypes ==
  /\ pc \in {"load", "parse", "parsed", "merge"} \/ Asked
  /\ cfg \in ConfigOf(MainEntries) /\ Len(cfg.entries) <= MaxEntries + 1 + merged
  /\ found \in FoundLists /\ merged \in 0..Len(found)
  /\ chosen \in Nat \cup {-1} /\ keyed \in BOOLEAN
  /\ cause \in {"none", "immediate", "enter", "digit", "timeout"}

(* Until the configuration has been read. *)
Reading ==
  Before => /\ ConfigInv
            /\ found = <<>> /\ merged = 0 /\ chosen = -1 /\ ~keyed

(* After that: what was written is at the head of the list, its default is  *)
(* the default, and something is on the list once something was found.      *)
Extended ==
  ~Before =>
    /\ written \in ConfigOf(WrittenEntries)
    /\ written.entries # <<>> => written.default < Len(written.entries)
    /\ written.entries = <<>> => written.default = 0
    /\ cfg.default = written.default
    /\ Len(written.entries) <= Len(cfg.entries)
    /\ \A k \in 1..Len(written.entries) : cfg.entries[k] = written.entries[k]
    /\ merged > 0 => cfg.entries # <<>>
    /\ pc = "merge" => chosen = -1 /\ ~keyed
    /\ pc # "merge" => merged = Len(found)

AddedOnce ==
  ~Before =>
    \A l \in Added :
      /\ \A k \in 1..(l - 1) :
           SameFile(cfg.entries[k].target, cfg.entries[l].target) =>
             k \notin Added /\ cfg.entries[k].target.path # cfg.entries[l].target.path
      /\ \E j \in 1..merged : cfg.entries[l] = FoundEntry(found[j])

(* What has been chosen is the default or on the list, and the default      *)
(* unless a key was touched; what runs is what was chosen.                  *)
RunsChosen ==
  /\ chosen # -1 => /\ chosen = cfg.default \/ chosen < Len(cfg.entries)
                    /\ keyed \/ chosen = cfg.default
  /\ Started => /\ chosen # -1 /\ chosen < Len(cfg.entries)
                /\ running = cfg.entries[chosen + 1].target
  /\ ~Started => running = Nothing
  /\ pc = "panic" => chosen # -1 /\ chosen >= Len(cfg.entries)

MainInv == MainTypes /\ Reading /\ Extended /\ AddedOnce /\ RunsChosen

-----------------------------------------------------------------------------
(* A set of natural numbers that has a member has a least one.              *)
LEMMA LeastOf ==
  ASSUME NEW T \in SUBSET Nat, T # {}
  PROVE  \E x \in T : \A y \in T : x <= y
  <1>1. PICK x \in T : \A y \in T : ~(<<y, x>> \in OpToRel(<, Nat))
    BY WFMin, NatLessThanWellFounded
  <1>2. \A y \in T : ~(y < x)
    BY <1>1, Zenon DEF OpToRel
  <1> QED
    BY <1>2

(* The first of some positions is one of them, and none is before it.       *)
LEMMA FirstFacts ==
  ASSUME NEW T \in SUBSET Nat, T # {}
  PROVE  First(T) \in T /\ \A y \in T : First(T) <= y
  BY LeastOf, Zenon DEF First

(* Dropping what cannot be booted leaves a sequence of what can, no longer  *)
(* than it was.                                                             *)
LEMMA RetainedFacts ==
  ASSUME NEW E, NEW entries \in Seq(E)
  PROVE  /\ Retained(entries) \in Seq(E)
         /\ Len(Retained(entries)) <= Len(entries)
         /\ \A k \in DOMAIN Retained(entries) : Bootable(Retained(entries)[k])
  <1> DEFINE N == Len(entries)
             G(f, n) == IF n = 0 THEN <<>>
                        ELSE IF Bootable(entries[n]) THEN Append(f[n - 1], entries[n]) ELSE f[n - 1]
             Upto(f, m) == f = [n \in 0..m |-> G(f, n)]
             kept == CHOOSE f : Upto(f, N)
             Good(s, n) == /\ s \in Seq(E) /\ Len(s) <= n
                           /\ \A k \in DOMAIN s : Bootable(s[k])
  <1>1. N \in Nat /\ \A n \in 1..N : entries[n] \in E
    OBVIOUS
  <1>2. Retained(entries) = kept[N]
    BY DEF Retained
  <1> HIDE DEF N
  (* The recursion defines a function: a least m up to which it does not    *)
  (* cannot be, for what it defines up to m - 1 goes on to m.               *)
  <1>3. \E f : Upto(f, N)
    <2> DEFINE T == {m \in 0..N : ~\E f : Upto(f, m)}
    <2> HIDE DEF Upto
    <2> SUFFICES ASSUME T # {} PROVE FALSE
      <3>1. N \in 0..N
        BY <1>1
      <3> QED
        BY <3>1
    <2>1. PICK x \in T : \A y \in T : x <= y
      <3>1. T \in SUBSET Nat
        BY <1>1
      <3> HIDE DEF T
      <3> QED
        BY <3>1, LeastOf
    <2>2. x \in 0..N /\ ~\E f : Upto(f, x)
      OBVIOUS
    <2>3. x # 0
      <3> DEFINE f == [n \in 0..0 |-> <<>>]
      <3>1. Upto(f, 0)
        BY DEF Upto
      <3> QED
        BY <2>2, <3>1
    <2>4. x - 1 \in 0..N /\ x - 1 \notin T
      <3> HIDE DEF T
      <3> QED
        BY <1>1, <2>1, <2>2, <2>3
    <2>5. PICK g : Upto(g, x - 1)
      BY <2>4
    <2> DEFINE f == [n \in 0..x |-> G(g, n)]
    <2>6. \A n \in 1..x : n - 1 \in 0..(x - 1) /\ n - 1 \in 0..x
      BY <1>1, <2>2
    <2>7. \A n \in 1..x : f[n - 1] = g[n - 1]
      <3>1. \A i \in 0..(x - 1) : g[i] = G(g, i)
        BY <2>5 DEF Upto
      <3>2. \A i \in 0..x : f[i] = G(g, i)
        OBVIOUS
      <3> HIDE DEF f, G
      <3> QED
        BY <2>6, <3>1, <3>2
    <2>8. \A n \in 0..x : G(f, n) = G(g, n)
      <3> SUFFICES ASSUME NEW n \in 0..x PROVE G(f, n) = G(g, n)
        OBVIOUS
      <3>1. CASE n = 0
        BY <3>1
      <3>2. CASE n # 0
        <4> HIDE DEF f
        <4>1. f[n - 1] = g[n - 1]
          BY <2>2, <2>7, <3>2
        <4> QED
          BY <3>2, <4>1
      <3> QED
        BY <3>1, <3>2
    <2>9. Upto(f, x)
      <3> DEFINE h == [n \in 0..x |-> G(f, n)]
      <3>1. f = h
        <4> HIDE DEF G
        <4> QED
          BY <2>8
      <3> QED
        BY <3>1 DEF Upto
    <2> QED
      BY <2>2, <2>9
  <1>4. Upto(kept, N)
    BY <1>3, Zenon
  <1> HIDE DEF kept
  <1>5. \A n \in 0..N : kept[n] = G(kept, n)
    BY <1>4
  <1> HIDE DEF G
  (* A least n at which what is kept is not as it should be cannot be.      *)
  <1>6. \A n \in 0..N : Good(kept[n], n)
    <2> DEFINE T == {n \in 0..N : ~Good(kept[n], n)}
    <2> SUFFICES ASSUME T # {} PROVE FALSE
      OBVIOUS
    <2>1. PICK x \in T : \A y \in T : x <= y
      <3>1. T \in SUBSET Nat
        BY <1>1
      <3> HIDE DEF T
      <3> QED
        BY <3>1, LeastOf
    <2>2. x \in 0..N /\ ~Good(kept[x], x)
      OBVIOUS
    <2>3. kept[x] = G(kept, x)
      BY <1>5, <2>2
    <2>4. x # 0
      <3>1. Good(<<>>, 0)
        OBVIOUS
      <3> HIDE DEF Good
      <3> QED
        BY <2>2, <2>3, <3>1 DEF G
    <2>5. x - 1 \in 0..N /\ Good(kept[x - 1], x - 1)
      <3> HIDE DEF Good
      <3>1. x - 1 \in 0..N /\ x - 1 \notin T
        BY <1>1, <2>1, <2>2, <2>4
      <3> QED
        BY <3>1
    <2> DEFINE s == kept[x - 1]
               e == entries[x]
    <2>6. e \in E
      BY <1>1, <2>2, <2>4
    <2>7. kept[x] = IF Bootable(e) THEN Append(s, e) ELSE s
      BY <2>3, <2>4 DEF G
    <2>8. Good(s, x - 1)
      BY <2>5
    <2> HIDE DEF s, e
    <2>9. CASE ~Bootable(e)
      <3>1. Good(s, x)
        BY <2>2, <2>8
      <3> HIDE DEF Good
      <3> QED
        BY <2>2, <2>7, <2>9, <3>1
    <2>10. CASE Bootable(e)
      <3>1. Append(s, e) \in Seq(E) /\ Len(Append(s, e)) <= x
        BY <2>2, <2>6, <2>8
      <3>2. \A k \in DOMAIN Append(s, e) : Bootable(Append(s, e)[k])
        <4> HIDE DEF Good
        <4> SUFFICES ASSUME NEW k \in DOMAIN Append(s, e) PROVE Bootable(Append(s, e)[k])
          OBVIOUS
        <4>1. s \in Seq(E) /\ \A j \in DOMAIN s : Bootable(s[j])
          BY <2>8 DEF Good
        <4>2. (k \in DOMAIN s /\ Append(s, e)[k] = s[k]) \/ Append(s, e)[k] = e
          BY <2>6, <4>1
        <4> QED
          BY <2>10, <4>1, <4>2
      <3>3. Good(Append(s, e), x)
        BY <3>1, <3>2
      <3> HIDE DEF Good
      <3> QED
        BY <2>2, <2>7, <2>10, <3>3
    <2> QED
      BY <2>9, <2>10
  <1>7. N \in 0..N
    BY <1>1
  <1> QED
    BY <1>2, <1>6, <1>7 DEF N

-----------------------------------------------------------------------------
(* The configuration Bang has without a file.                               *)
LEMMA BuiltinFacts ==
  /\ Builtin \in ConfigOf(WrittenEntries) /\ Len(Builtin.entries) = 1
  /\ Builtin.default = 0 /\ Builtin.entries[1].title = "Quark"
  <1> DEFINE t == [Target("multiboot", KernelBin) EXCEPT !.with = Drivers]
             e == [title |-> "Quark", target |-> t]
  <1>1. t \in Targets /\ t.kind = "multiboot" /\ t.cmdline = Empty
    BY DEF Target, Targets, AnyPath
  <1>2. e \in WrittenEntries
    BY <1>1 DEF WrittenEntries
  <1>3. /\ Builtin = [timeout |-> 0, default |-> 0, autodetect |-> TRUE, entries |-> <<e>>]
        /\ e.title = "Quark"
    BY DEF Builtin
  <1> HIDE DEF e
  <1> QED
    BY <1>2, <1>3 DEF ConfigOf

(* What a line about the last entry leaves.                                 *)
LEMMA SetTargetFacts ==
  ASSUME ConfigInv, Last > 0, NEW t \in Targets, SetTarget(t),
         t.kind = "chainload" => t.with = None, t.cmdline # Empty => t.kind = "linux"
  PROVE  cfg' \in ConfigOf(WrittenEntries) /\ Len(cfg'.entries) = Len(cfg.entries)
  <1> DEFINE es == cfg.entries
             e  == [es[Last] EXCEPT !.target = t]
  <1>1. cfg \in ConfigOf(WrittenEntries) /\ es \in Seq(WrittenEntries) /\ Last \in 1..Len(es)
    BY DEF ConfigInv, ConfigOf, Last
  <1>2. es[Last] \in WrittenEntries
    BY <1>1
  <1>3. e \in WrittenEntries
    BY <1>2 DEF WrittenEntries
  <1>4. cfg' = [cfg EXCEPT !.entries = [es EXCEPT ![Last] = e]]
    BY <1>1 DEF SetTarget, ConfigOf
  <1> HIDE DEF e, es
  <1>5. /\ [es EXCEPT ![Last] = e] \in Seq(WrittenEntries)
        /\ Len([es EXCEPT ![Last] = e]) = Len(es)
    BY <1>1, <1>3
  <1> QED
    BY <1>1, <1>4, <1>5 DEF ConfigOf, es

(* At the end of the file the default is what it was meant to be.           *)
LEMMA FinishFacts == ConfigInv /\ FinishConfig => ConfigInv'
  <1> SUFFICES ASSUME ConfigInv, FinishConfig PROVE ConfigInv'
    OBVIOUS
  <1> DEFINE kept == Retained(cfg.entries)
             n    == Resolved(kept)
             d    == Clamped(n, kept)
             T    == Titled(kept, defaultTitle)
  <1>1. /\ cfg \in ConfigOf(WrittenEntries) /\ cfg.entries \in Seq(WrittenEntries)
        /\ cfg.default \in Nat /\ Len(cfg.entries) <= MaxEntries + 1 /\ MaxEntries \in Nat
    BY ConfigConstants DEF ConfigInv, ConfigOf
  <1>2. kept \in Seq(WrittenEntries) /\ Len(kept) <= Len(cfg.entries) /\ Len(kept) \in Nat
    BY <1>1, RetainedFacts
  <1>3. /\ pc' = "parsed" /\ defaultTitle' = defaultTitle
        /\ cfg' = [cfg EXCEPT !.entries = kept, !.default = d]
    BY DEF FinishConfig
  <1> HIDE DEF kept
  <1>4. DOMAIN kept = 1..Len(kept) /\ (kept = <<>> <=> Len(kept) = 0)
    BY <1>2
  <1>5. T \in SUBSET Nat /\ \A k : k \in T <=> k \in 1..Len(kept) /\ kept[k].title = defaultTitle
    BY <1>2, <1>4 DEF Titled
  <1>6. /\ n \in Nat
        /\ T # {} => /\ n + 1 \in T /\ \A k \in T : n < k
                     /\ n < Len(kept)
    <2>1. CASE T # {}
      <3>1. First(T) \in T /\ \A y \in T : First(T) <= y
        BY <1>5, <2>1, FirstFacts
      <3>2. n = First(T) - 1
        BY <2>1 DEF Resolved
      <3> HIDE DEF n
      <3>3. First(T) \in 1..Len(kept)
        BY <1>5, <3>1
      <3>4. n \in Nat /\ n + 1 = First(T) /\ n < Len(kept)
        BY <1>2, <3>2, <3>3
      <3>5. \A k \in T : n < k
        <4> HIDE DEF T
        <4> QED
          BY <1>5, <3>1, <3>4
      <3> QED
        BY <3>1, <3>4, <3>5
    <2>2. CASE T = {}
      BY <1>1, <2>2 DEF Resolved
    <2> QED
      BY <2>1, <2>2
  <1>7. d \in Nat /\ (kept # <<>> => d < Len(kept)) /\ (kept = <<>> => d = 0)
        /\ (T # {} => d = n)
    <2> HIDE DEF n, T
    <2> QED
      BY <1>2, <1>4, <1>6 DEF Clamped
  <1> HIDE DEF n, d, T
  <1>8. \A k \in DOMAIN kept : kept[k].title = defaultTitle =>
           d < k /\ kept[d + 1].title = defaultTitle
    <2> SUFFICES ASSUME NEW k \in DOMAIN kept, kept[k].title = defaultTitle
                 PROVE  d < k /\ kept[d + 1].title = defaultTitle
      OBVIOUS
    <2>1. k \in T
      BY <1>4, <1>5
    <2>2. d = n /\ n + 1 \in T /\ n < k
      BY <1>6, <1>7, <2>1
    <2> QED
      BY <1>5, <2>2
  <1>9. /\ cfg'.entries = kept /\ cfg'.default = d /\ cfg' \in ConfigOf(WrittenEntries)
    BY <1>1, <1>2, <1>3, <1>7 DEF ConfigOf
  <1>10. DefaultMeant'
    BY <1>3, <1>7, <1>8, <1>9 DEF DefaultMeant
  <1>11. Len(cfg'.entries) <= MaxEntries + 1
    BY <1>1, <1>2, <1>9
  <1> QED
    BY <1>3, <1>7, <1>9, <1>10, <1>11 DEF ConfigInv

(* Nothing has been read yet.                                               *)
LEMMA ConfigStart == ConfigInit => ConfigInv
  <1> SUFFICES ASSUME ConfigInit PROVE ConfigInv
    OBVIOUS
  <1>1. pc = "load" /\ cfg = Builtin /\ defaultTitle = None
    BY DEF ConfigInit
  <1>2. cfg \in ConfigOf(WrittenEntries) /\ Len(cfg.entries) <= MaxEntries + 1
    BY <1>1, BuiltinFacts, ConfigConstants
  <1> QED
    BY <1>1, <1>2 DEF ConfigInv

(* Every line, and the end of the file, keeps ConfigInv.                    *)
LEMMA ConfigStep == ConfigInv /\ [ConfigNext]_configVars => ConfigInv'
  <1> SUFFICES ASSUME ConfigInv, [ConfigNext]_configVars PROVE ConfigInv'
    OBVIOUS
  <1>1. /\ cfg \in ConfigOf(WrittenEntries) /\ cfg.entries \in Seq(WrittenEntries)
        /\ Len(cfg.entries) \in Nat
        /\ Len(cfg.entries) <= MaxEntries + 1 /\ defaultTitle \in Titles \cup {None}
        /\ MaxEntries \in Nat /\ Timeouts \subseteq Nat /\ Positions \subseteq Nat
    BY ConfigConstants DEF ConfigInv, ConfigOf
  <1>2. CASE NoConfig
    <2>1. pc' = "parsed" /\ cfg' = Builtin /\ defaultTitle' = None
      BY <1>2 DEF NoConfig, ConfigInv
    <2>2. cfg' \in ConfigOf(WrittenEntries) /\ Len(cfg'.entries) = 1 /\ cfg'.default = 0
      BY <2>1, BuiltinFacts
    <2>3. cfg'.entries \in Seq(WrittenEntries)
      BY <2>2 DEF ConfigOf
    <2>4. cfg'.entries # <<>> /\ DOMAIN cfg'.entries = 1..1
      <3>1. \A es \in Seq(WrittenEntries) : Len(es) = 1 => es # <<>> /\ DOMAIN es = 1..1
        OBVIOUS
      <3> QED
        BY <2>2, <2>3, <3>1
    <2>5. cfg'.entries[1].title # defaultTitle'
      BY <2>1, BuiltinFacts, ConfigConstants
    <2>6. DefaultMeant'
      BY <2>2, <2>4, <2>5 DEF DefaultMeant
    <2> QED
      BY <1>1, <2>1, <2>2, <2>4, <2>6 DEF ConfigInv
  <1>3. CASE OpenConfig
    <2>1. /\ pc' = "parse" /\ defaultTitle' = defaultTitle
          /\ cfg' = [timeout |-> 5, default |-> 0, autodetect |-> TRUE, entries |-> <<>>]
      BY <1>3 DEF OpenConfig
    <2>2. <<>> \in Seq(WrittenEntries) /\ Len(<<>>) = 0
      OBVIOUS
    <2>3. cfg' \in ConfigOf(WrittenEntries) /\ Len(cfg'.entries) = 0
      BY <2>1, <2>2 DEF ConfigOf
    <2> QED
      BY <1>1, <2>1, <2>3 DEF ConfigInv
  <1>4. CASE TimeoutLine \/ TimeoutNotANumber \/ AutodetectLine \/ DefaultPosition
    <2>1. pc' = "parse" /\ defaultTitle' = defaultTitle
      BY <1>4 DEF TimeoutLine, TimeoutNotANumber, AutodetectLine, DefaultPosition, Line
    <2>2. cfg' \in ConfigOf(WrittenEntries) /\ cfg'.entries = cfg.entries
      BY <1>1, <1>4 DEF TimeoutLine, TimeoutNotANumber, AutodetectLine, DefaultPosition, ConfigOf
    <2> QED
      BY <1>1, <2>1, <2>2 DEF ConfigInv
  <1>5. CASE DefaultTitle
    <2>1. pc' = "parse" /\ defaultTitle' \in Titles /\ cfg' = cfg
      BY <1>5 DEF DefaultTitle, Line
    <2> QED
      BY <1>1, <2>1 DEF ConfigInv
  <1>6. CASE EntryLine
    <2>1. /\ pc' = "parse" /\ defaultTitle' = defaultTitle /\ Len(cfg.entries) < MaxEntries
          /\ \E t \in Titles :
               cfg' = [cfg EXCEPT !.entries =
                         Append(@, [title |-> t, target |-> Target("multiboot", Empty)])]
      BY <1>6 DEF EntryLine, Line
    <2>2. PICK t \in Titles :
            cfg' = [cfg EXCEPT !.entries =
                      Append(@, [title |-> t, target |-> Target("multiboot", Empty)])]
      BY <2>1
    <2> DEFINE e == [title |-> t, target |-> Target("multiboot", Empty)]
    <2>3. e \in WrittenEntries
      BY DEF WrittenEntries, Target, Targets, AnyPath
    <2>4. cfg' = [cfg EXCEPT !.entries = Append(cfg.entries, e)]
      BY <2>2
    <2> HIDE DEF e
    <2>5. Append(cfg.entries, e) \in Seq(WrittenEntries)
          /\ Len(Append(cfg.entries, e)) = Len(cfg.entries) + 1
      BY <1>1, <2>3
    <2>6. cfg' \in ConfigOf(WrittenEntries) /\ Len(cfg'.entries) = Len(cfg.entries) + 1
      BY <1>1, <2>4, <2>5 DEF ConfigOf
    <2> QED
      BY <1>1, <2>1, <2>6 DEF ConfigInv
  <1>7. CASE SkippedLine
    <2>1. pc' = "parse" /\ defaultTitle' = defaultTitle /\ cfg' = cfg
      BY <1>7 DEF SkippedLine, Line
    <2> QED
      BY <1>1, <2>1 DEF ConfigInv
  <1>8. CASE TargetLine \/ WithLine \/ WithUnusable \/ OptionsLine
    <2>1. pc' = "parse" /\ defaultTitle' = defaultTitle /\ Last > 0
      BY <1>8 DEF TargetLine, WithLine, WithUnusable, OptionsLine, Line
    <2>2. Of \in Targets /\ (Of.kind = "chainload" => Of.with = None)
          /\ (Of.cmdline # Empty => Of.kind = "linux")
      <3>1. Last \in 1..Len(cfg.entries)
        BY <1>1, <2>1 DEF Last
      <3>2. cfg.entries[Last] \in WrittenEntries
        BY <1>1, <3>1
      <3> QED
        BY <3>2 DEF Of, WrittenEntries
    <2>3. \E t \in Targets : /\ SetTarget(t)
                             /\ t.kind = "chainload" => t.with = None
                             /\ t.cmdline # Empty => t.kind = "linux"
      <3>1. CASE TargetLine
        <4>1. PICK kind \in {"multiboot", "chainload", "linux"}, p \in AnyPath :
                SetTarget(Target(kind, p))
          BY <3>1 DEF TargetLine
        <4>2. /\ Target(kind, p) \in Targets /\ Target(kind, p).with = None
              /\ Target(kind, p).cmdline = Empty
          BY DEF Target, Targets, AnyPath
        <4> HIDE DEF Target
        <4> QED
          BY <4>1, <4>2
      <3>2. CASE WithLine
        <4>1. PICK p \in AnyPath : SetTarget([Of EXCEPT !.with = p])
          BY <3>2 DEF WithLine
        <4>2. Of.kind # "chainload"
          BY <3>2 DEF WithLine
        <4> DEFINE t == [Of EXCEPT !.with = p]
        <4>3. /\ t \in Targets /\ t.kind # "chainload"
              /\ t.cmdline # Empty => t.kind = "linux"
          BY <2>2, <4>2 DEF Targets
        <4>4. SetTarget(t)
          BY <4>1
        <4> HIDE DEF t
        <4> QED
          BY <4>3, <4>4
      <3>3. CASE WithUnusable
        <4> DEFINE t == [Of EXCEPT !.with = None]
        <4>1. Of.kind # "chainload" /\ SetTarget(t)
          BY <3>3 DEF WithUnusable
        <4>2. /\ t \in Targets /\ t.kind # "chainload"
              /\ t.cmdline # Empty => t.kind = "linux"
          BY <2>2, <4>1 DEF Targets
        <4> HIDE DEF t
        <4> QED
          BY <4>1, <4>2
      <3>4. CASE OptionsLine
        <4> DEFINE t == [Of EXCEPT !.cmdline = Options]
        <4>1. Of.kind = "linux" /\ SetTarget(t)
          BY <3>4 DEF OptionsLine
        <4>2. t \in Targets /\ t.kind = "linux"
          BY <2>2, <4>1 DEF Targets
        <4> HIDE DEF t
        <4> QED
          BY <4>1, <4>2
      <3> QED
        BY <1>8, <3>1, <3>2, <3>3, <3>4
    <2>4. cfg' \in ConfigOf(WrittenEntries) /\ Len(cfg'.entries) = Len(cfg.entries)
      BY <2>1, <2>3, SetTargetFacts
    <2> QED
      BY <1>1, <2>1, <2>4 DEF ConfigInv
  <1>9. CASE FinishConfig
    BY <1>9, FinishFacts
  <1>10. CASE UNCHANGED configVars
    BY <1>10 DEF configVars, ConfigInv, DefaultMeant
  <1> QED
    BY <1>2, <1>3, <1>4, <1>5, <1>6, <1>7, <1>8, <1>9, <1>10 DEF ConfigNext

(* ConfigInv holds in every state.                                          *)
THEOREM ConfigInvariant == ConfigSpec => []ConfigInv
  BY ConfigStart, ConfigStep, PTL DEF ConfigSpec

(* The Config has its type, whatever the lines and their order: an entry    *)
(* has the parts of its kind and no other, however often its lines come.    *)
THEOREM ConfigTypeCorrect == ConfigSpec => []ConfigTypeOK
  <1>1. ConfigInv => ConfigTypeOK
    <2> SUFFICES ASSUME ConfigInv PROVE ConfigTypeOK
      OBVIOUS
    <2>1. cfg \in ConfigOf(WrittenEntries) /\ cfg.entries \in Seq(WrittenEntries)
      BY DEF ConfigInv, ConfigOf
    <2>2. \A k \in DOMAIN cfg.entries : cfg.entries[k] \in WrittenEntries
      BY <2>1
    <2> QED
      BY <2>1, <2>2 DEF ConfigInv, ConfigTypeOK, ConfigOf, WrittenEntries
  <1> QED
    BY <1>1, ConfigInvariant, PTL

(* Once the file is read its default is an entry, and the first with the    *)
(* title it names, however many were dropped before it.                     *)
THEOREM DefaultIsMeant == ConfigSpec => []DefaultMeant
  <1>1. ConfigInv => DefaultMeant
    BY DEF ConfigInv, DefaultMeant
  <1> QED
    BY <1>1, ConfigInvariant, PTL

-----------------------------------------------------------------------------
(* What scan returns is a sequence of loaders, or of none.                  *)
LEMMA FoundFacts ==
  /\ <<>> \in FoundLists
  /\ \A s \in FoundLists : /\ s \in Seq([path : Paths, device : Volumes])
                           /\ Len(s) \in 0..MaxFound /\ DOMAIN s = 1..Len(s)
                           /\ \A k, l \in DOMAIN s :
                                s[k].device = s[l].device /\ Fold(s[k].path) = Fold(s[l].path)
                                  => k = l
  <1> DEFINE X == [path : Paths, device : Volumes]
  <1>1. MaxFound \in Nat
    BY StartupConstants
  <1>2. <<>> \in FoundLists
    <2>1. <<>> \in [1..0 -> X] /\ DOMAIN <<>> = {}
      OBVIOUS
    <2>2. 0 \in 0..MaxFound
      BY <1>1
    <2> HIDE DEF X
    <2>3. <<>> \in UNION {[1..n -> X] : n \in 0..MaxFound}
      BY <2>1, <2>2
    <2> QED
      BY <2>1, <2>3 DEF FoundLists, X
  <1>3. ASSUME NEW s \in FoundLists
        PROVE  /\ s \in Seq(X) /\ Len(s) \in 0..MaxFound /\ DOMAIN s = 1..Len(s)
               /\ \A k, l \in DOMAIN s :
                    s[k].device = s[l].device /\ Fold(s[k].path) = Fold(s[l].path) => k = l
    <2>1. PICK n \in 0..MaxFound : s \in [1..n -> X]
      BY <1>3 DEF FoundLists
    <2>2. \A k, l \in DOMAIN s :
             s[k].device = s[l].device /\ Fold(s[k].path) = Fold(s[l].path) => k = l
      BY DEF FoundLists
    <2> HIDE DEF X
    <2>3. n \in Nat /\ s \in Seq(X) /\ Len(s) = n
      BY <1>1, <2>1
    <2> QED
      BY <2>1, <2>2, <2>3
  <1> QED
    BY <1>2, <1>3

(* Entries of a configuration are entries main can list.                    *)
LEMMA WrittenAreMain == ConfigOf(WrittenEntries) \subseteq ConfigOf(MainEntries)
  <1>1. WrittenEntries \subseteq MainEntries
    BY DEF WrittenEntries, MainEntries, Targets, MainTargets
  <1>2. Seq(WrittenEntries) \subseteq Seq(MainEntries)
    BY <1>1
  <1> QED
    BY <1>2 DEF ConfigOf

(* At first.                                                                *)
LEMMA MainStart == Init => MainInv
  <1> SUFFICES ASSUME Init PROVE MainInv
    OBVIOUS
  <1>1. ConfigInv
    BY ConfigStart DEF Init
  <1>2. /\ pc = "load" /\ found = <<>> /\ merged = 0 /\ chosen = -1 /\ cause = "none"
        /\ keyed = FALSE /\ running = Nothing
    BY DEF Init, ConfigInit
  <1>3. cfg \in ConfigOf(MainEntries) /\ Len(cfg.entries) <= MaxEntries + 1 + merged
    <2>1. MaxEntries \in Nat /\ cfg \in ConfigOf(WrittenEntries) /\ Len(cfg.entries) <= MaxEntries + 1
      BY <1>1, ConfigConstants DEF ConfigInv
    <2> QED
      BY <1>2, <2>1, WrittenAreMain
  <1>4. found \in FoundLists /\ merged \in 0..Len(found)
    BY <1>2, FoundFacts
  <1>5. MainTypes
    BY <1>2, <1>3, <1>4 DEF MainTypes
  <1>6. Reading
    BY <1>1, <1>2 DEF Reading
  <1>7. Before /\ ~Started
    BY <1>2 DEF Before, Started
  <1> QED
    BY <1>2, <1>5, <1>6, <1>7 DEF MainInv, Extended, AddedOnce, RunsChosen

(* Reading the configuration.                                               *)
LEMMA ReadKeeps == MainInv /\ ReadConfig => MainInv'
  <1> SUFFICES ASSUME MainInv, ReadConfig PROVE MainInv'
    OBVIOUS
  <1>1. pc \in {"load", "parse"}
    BY DEF ReadConfig, ConfigNext, NoConfig, OpenConfig, TimeoutLine, TimeoutNotANumber,
           AutodetectLine, DefaultPosition, DefaultTitle, EntryLine, SkippedLine, TargetLine,
           WithLine, WithUnusable, OptionsLine, FinishConfig, Line
  <1>2. /\ ConfigInv /\ found = <<>> /\ merged = 0 /\ chosen = -1 /\ ~keyed
        /\ running = Nothing
    BY <1>1 DEF MainInv, Reading, Before, RunsChosen, Started
  <1>3. /\ written' = written /\ found' = found /\ merged' = merged /\ chosen' = chosen
        /\ cause' = cause /\ keyed' = keyed /\ running' = running
    BY DEF ReadConfig, startVars
  <1>4. ConfigInv'
    BY <1>2, ConfigStep DEF ReadConfig
  <1>5. Before' /\ ~Started' /\ pc' # "panic"
    BY <1>4 DEF ConfigInv, Before, Started
  <1>6. cfg' \in ConfigOf(MainEntries) /\ Len(cfg'.entries) <= MaxEntries + 1 + merged'
    <2>1. MaxEntries \in Nat /\ cfg' \in ConfigOf(WrittenEntries) /\ Len(cfg'.entries) <= MaxEntries + 1
      BY <1>4, ConfigConstants DEF ConfigInv
    <2> QED
      BY <1>2, <1>3, <2>1, WrittenAreMain
  <1>7. MainTypes'
    BY <1>3, <1>5, <1>6 DEF MainInv, MainTypes, Before
  <1>8. Reading'
    BY <1>2, <1>3, <1>4 DEF Reading
  <1> QED
    BY <1>2, <1>3, <1>5, <1>7, <1>8 DEF MainInv, Extended, AddedOnce, RunsChosen

(* The list main chooses from starts as it was written.                     *)
LEMMA ScanKeeps == MainInv /\ Scan => MainInv'
  <1> SUFFICES ASSUME MainInv, Scan PROVE MainInv'
    OBVIOUS
  <1>1. /\ pc = "parsed" /\ pc' = "merge" /\ written' = cfg /\ cfg' = cfg /\ merged' = merged
        /\ chosen' = chosen /\ cause' = cause /\ keyed' = keyed /\ running' = running
        /\ found' \in FoundLists
    BY FoundFacts DEF Scan
  <1>2. /\ ConfigInv /\ merged = 0 /\ chosen = -1 /\ ~keyed /\ running = Nothing
    BY <1>1 DEF MainInv, Reading, Before, RunsChosen, Started
  <1>3. ~Before' /\ ~Started'
    BY <1>1 DEF Before, Started
  <1>4. MainTypes'
    <2>1. merged' \in 0..Len(found')
      BY <1>1, <1>2, FoundFacts
    <2> QED
      BY <1>1, <2>1 DEF MainInv, MainTypes
  <1>5. /\ cfg \in ConfigOf(WrittenEntries) /\ cfg.entries \in Seq(WrittenEntries)
        /\ Len(cfg.entries) \in Nat
        /\ cfg.entries # <<>> => cfg.default < Len(cfg.entries)
        /\ cfg.entries = <<>> => cfg.default = 0
    BY <1>1, <1>2 DEF ConfigInv, ConfigOf, DefaultMeant
  <1>6. Extended'
    BY <1>1, <1>2, <1>5 DEF Extended
  <1>7. AddedOnce'
    <2>1. Added' = {}
      BY <1>1, <1>5 DEF Added
    <2> QED
      BY <2>1 DEF AddedOnce
  <1>8. RunsChosen'
    BY <1>1, <1>2, <1>3 DEF RunsChosen
  <1> QED
    BY <1>3, <1>4, <1>6, <1>7, <1>8 DEF MainInv, Reading

(* What has been found is added at the end, unless it is there already.     *)
LEMMA MergeKeeps == MainInv /\ MergeNext => MainInv'
  <1> SUFFICES ASSUME MainInv, MergeNext PROVE MainInv'
    OBVIOUS
  <1> DEFINE f  == found[merged + 1]
             es == cfg.entries
             n  == Len(written.entries)
  <1>1. /\ pc = "merge" /\ pc' = "merge" /\ merged < Len(found) /\ merged' = merged + 1
        /\ written' = written /\ found' = found /\ chosen' = chosen /\ cause' = cause
        /\ keyed' = keyed /\ running' = running
        /\ cfg' = [cfg EXCEPT !.entries = IF Already(f) THEN @ ELSE WithEntry(f)]
    BY DEF MergeNext
  <1>2. /\ ~Before /\ ~Before' /\ ~Started /\ ~Started'
        /\ MainTypes /\ Extended /\ AddedOnce /\ RunsChosen
    BY <1>1 DEF MainInv, Before, Started
  <1>3. /\ cfg \in ConfigOf(MainEntries) /\ es \in Seq(MainEntries) /\ Len(es) \in Nat
        /\ DOMAIN es = 1..Len(es) /\ n \in Nat /\ n <= Len(es) /\ MaxEntries \in Nat
        /\ found \in Seq([path : Paths, device : Volumes]) /\ merged \in Nat /\ Len(found) \in Nat
        /\ DOMAIN found = 1..Len(found) /\ Len(es) <= MaxEntries + 1 + merged
    <2>1. found \in FoundLists /\ merged \in 0..Len(found) /\ cfg \in ConfigOf(MainEntries)
          /\ Len(es) <= MaxEntries + 1 + merged
      BY <1>2 DEF MainTypes
    <2>2. es \in Seq(MainEntries)
      BY <2>1 DEF ConfigOf
    <2>3. written.entries \in Seq(WrittenEntries) /\ n <= Len(es)
      BY <1>2 DEF Extended, ConfigOf
    <2>4. /\ found \in Seq([path : Paths, device : Volumes]) /\ Len(found) \in Nat
          /\ DOMAIN found = 1..Len(found) /\ merged \in Nat
      <3>1. /\ found \in Seq([path : Paths, device : Volumes]) /\ Len(found) \in 0..MaxFound
            /\ DOMAIN found = 1..Len(found)
        BY <2>1, FoundFacts
      <3> QED
        BY <2>1, <3>1, StartupConstants
    <2>5. n \in Nat
      BY <2>3
    <2>6. Len(es) \in Nat /\ DOMAIN es = 1..Len(es)
      BY <2>2
    <2> HIDE DEF es, n
    <2> QED
      BY <2>1, <2>2, <2>3, <2>4, <2>5, <2>6, ConfigConstants DEF es
  <1>4. merged + 1 \in DOMAIN found /\ f \in [path : Paths, device : Volumes]
    <2>1. merged + 1 \in 1..Len(found)
      BY <1>1, <1>3
    <2> DEFINE X == [path : Paths, device : Volumes]
    <2>2. found \in Seq(X)
      BY <1>3
    <2> HIDE DEF X
    <2>3. f \in X
      BY <2>1, <2>2
    <2> QED
      BY <1>3, <2>1, <2>3 DEF X
  <1> DEFINE e == FoundEntry(f)
  <1>5. /\ e \in MainEntries /\ e.target.kind = "chainload" /\ e.target.path = f.path
        /\ e.target.device = f.device
    BY <1>4 DEF FoundEntry, Target, MainEntries, MainTargets, AnyPath
  <1>6. cfg' \in ConfigOf(MainEntries) /\ cfg'.default = cfg.default
        /\ cfg'.entries = IF Already(f) THEN es ELSE Append(es, e)
    <2>1. Append(es, e) \in Seq(MainEntries)
      BY <1>3, <1>5
    <2> QED
      BY <1>1, <1>3, <2>1 DEF ConfigOf, WithEntry
  <1> HIDE DEF es, e, f, n
  <1>7. /\ Len(Append(es, e)) = Len(es) + 1 /\ Append(es, e)[Len(es) + 1] = e
        /\ \A k \in 1..Len(es) : Append(es, e)[k] = es[k]
    BY <1>3, <1>5
  <1>8. MainTypes'
    <2>1. Len(cfg'.entries) <= MaxEntries + 1 + merged'
      <3>1. Len(cfg'.entries) \in {Len(es), Len(es) + 1}
        BY <1>6, <1>7
      <3> QED
        BY <1>1, <1>3, <3>1
    <2>2. merged' \in 0..Len(found')
      BY <1>1, <1>3
    <2> QED
      BY <1>1, <1>2, <1>6, <2>1, <2>2 DEF MainTypes
  <1>9. Extended'
    <2>1. n' = n
      BY <1>1 DEF n
    <2>2. n <= Len(cfg'.entries) /\ \A k \in 1..n : cfg'.entries[k] = written.entries[k]
      <3>1. \A k \in 1..n : k \in 1..Len(es) /\ es[k] = written.entries[k]
        <4>1. \A k \in 1..n : es[k] = written.entries[k]
          BY <1>2 DEF Extended, es, n
        <4> QED
          BY <1>3, <4>1
      <3> QED
        BY <1>3, <1>6, <1>7, <3>1
    <2>3. cfg'.entries # <<>>
      <3>1. CASE Already(f)
        <4>1. es # <<>>
          BY <3>1 DEF Already, es
        <4> QED
          BY <1>6, <3>1, <4>1
      <3>2. CASE ~Already(f)
        <4>1. Len(cfg'.entries) = Len(es) + 1
          BY <1>6, <1>7, <3>2
        <4>2. cfg'.entries = <<>> => Len(cfg'.entries) = 0
          OBVIOUS
        <4> QED
          BY <1>3, <4>1, <4>2
      <3> QED
        BY <3>1, <3>2
    <2>4. /\ written.entries # <<>> => written.default < Len(written.entries)
          /\ written.entries = <<>> => written.default = 0
          /\ written \in ConfigOf(WrittenEntries) /\ cfg.default = written.default
          /\ chosen = -1 /\ ~keyed
      BY <1>1, <1>2 DEF Extended
    <2> QED
      BY <1>1, <1>6, <2>2, <2>3, <2>4 DEF Extended, n
  <1>10. AddedOnce'
    <2>1. /\ Added = (n + 1)..Len(es) /\ Added' = (n + 1)..Len(cfg'.entries)
          /\ Len(cfg'.entries) \in Nat /\ merged \in Nat
      <3>1. Len(cfg'.entries) \in Nat
        BY <1>3, <1>6, <1>7
      <3> QED
        BY <1>1, <1>3, <3>1 DEF Added, n, es
    <2> SUFFICES ASSUME NEW l \in Added'
                 PROVE  /\ \A k \in 1..(l - 1) :
                             SameFile(cfg'.entries[k].target, cfg'.entries[l].target) =>
                               /\ k \notin Added'
                               /\ cfg'.entries[k].target.path # cfg'.entries[l].target.path
                        /\ \E j \in 1..(merged + 1) : cfg'.entries[l] = FoundEntry(found[j])
      BY <1>1 DEF AddedOnce
    <2>2. CASE l \in 1..Len(es)
      <3>1. cfg'.entries[l] = es[l] /\ \A k \in 1..(l - 1) : cfg'.entries[k] = es[k]
        BY <1>3, <1>6, <1>7, <2>2
      <3>2. l \in Added /\ \A k \in 1..(l - 1) : k \in Added' => k \in Added
        BY <1>3, <2>1, <2>2
      <3>3. /\ \A k \in 1..(l - 1) :
                 SameFile(es[k].target, es[l].target) =>
                   k \notin Added /\ es[k].target.path # es[l].target.path
            /\ \E j \in 1..merged : es[l] = FoundEntry(found[j])
        BY <1>2, <3>2 DEF AddedOnce, es
      <3>4. \A j \in 1..merged : j \in 1..(merged + 1)
        BY <2>1
      <3> QED
        BY <3>1, <3>2, <3>3, <3>4
    <2>3. CASE l \notin 1..Len(es)
      <3>1. ~Already(f) /\ l = Len(es) + 1 /\ cfg'.entries[l] = e
        BY <1>3, <1>6, <1>7, <2>1, <2>3
      <3>2. f.device \in Volumes /\ f.device # None
        BY <1>4, StartupConstants
      <3>3. ASSUME NEW k \in 1..(l - 1), SameFile(cfg'.entries[k].target, cfg'.entries[l].target)
            PROVE  /\ k \notin Added'
                   /\ cfg'.entries[k].target.path # cfg'.entries[l].target.path
        <4>1. k \in 1..Len(es) /\ cfg'.entries[k] = es[k]
          BY <1>3, <1>6, <1>7, <3>1
        <4> DEFINE t == es[k].target
        <4>2. SameFile(t, e.target)
          BY <3>1, <3>3, <4>1
        <4>3. /\ t.kind = "chainload" /\ Fold(t.path) = Fold(f.path)
              /\ t.device \in {None, f.device}
          BY <1>5, <3>2, <4>2 DEF SameFile, Volume
        (* What was added before it is another of the files found.            *)
        <4>4. ASSUME k \in Added' PROVE FALSE
          <5>1. k \in Added
            BY <2>1, <4>1, <4>4
          <5>2. PICK j \in 1..merged : es[k] = FoundEntry(found[j])
            BY <1>2, <5>1 DEF AddedOnce, es
          <5>3. j \in DOMAIN found /\ j # merged + 1
            BY <1>1, <1>3, <5>2
          <5>4. found[j].device \in Volumes /\ found[j] \in [path : Paths, device : Volumes]
            <6> DEFINE X == [path : Paths, device : Volumes]
            <6>1. found \in Seq(X)
              BY <1>3
            <6> HIDE DEF X
            <6>2. found[j] \in X
              BY <1>3, <5>3, <6>1
            <6> QED
              BY <6>2 DEF X
          <5>5. t.path = found[j].path /\ t.device = found[j].device
            BY <5>2 DEF FoundEntry, Target
          <5>6. found[j].device = f.device /\ Fold(found[j].path) = Fold(f.path)
            BY <4>3, <5>4, <5>5, StartupConstants
          <5>7. found \in FoundLists
            BY <1>2 DEF MainTypes
          <5>8. j = merged + 1
            <6>1. \A k1, l1 \in DOMAIN found :
                     /\ found[k1].device = found[l1].device
                     /\ Fold(found[k1].path) = Fold(found[l1].path)
                     => k1 = l1
              BY <5>7, FoundFacts
            <6> QED
              BY <1>4, <5>3, <5>6, <6>1, Zenon DEF f
          <5> QED
            BY <5>3, <5>8
        <4>5. ASSUME t.path = f.path PROVE FALSE
          <5>1. Already(f)
            BY <1>3, <4>1, <4>3, <4>5 DEF Already, es
          <5> QED
            BY <3>1, <5>1
        <4> QED
          BY <1>5, <3>1, <4>1, <4>4, <4>5
      <3>4. merged + 1 \in 1..(merged + 1)
        BY <2>1
      <3> QED
        BY <3>1, <3>3, <3>4 DEF e, f
    <2> QED
      BY <2>2, <2>3
  <1>11. RunsChosen'
    <2>1. chosen = -1 /\ ~Started' /\ running' = Nothing /\ pc' # "panic"
      BY <1>1, <1>2 DEF Extended, RunsChosen
    <2> QED
      BY <1>1, <2>1 DEF RunsChosen
  <1> QED
    BY <1>2, <1>8, <1>9, <1>10, <1>11 DEF MainInv, Reading

(* A step after the list is made: neither it nor what it is made of change. *)
Later ==
  /\ UNCHANGED <<cfg, written, found, merged>>
  /\ ~Before /\ merged = Len(found)
  /\ pc' \in {"choose", "multiboot", "linux", "chainload", "returned", "exited", "panic"}

(* Such a step is right if what it chooses and starts is.                   *)
LEMMA LaterKeeps ==
  ASSUME MainInv, Later, RunsChosen',
         chosen' \in Nat \cup {-1}, keyed' \in BOOLEAN,
         cause' \in {"none", "immediate", "enter", "digit", "timeout"}
  PROVE  MainInv'
  <1>1. /\ cfg' = cfg /\ written' = written /\ found' = found /\ merged' = merged
        /\ merged = Len(found) /\ ~Before /\ ~Before' /\ pc' # "merge"
    BY DEF Later, Before
  <1>2. MainTypes' /\ Reading'
    BY <1>1 DEF MainInv, MainTypes, Later, Asked, Reading
  <1>3. Extended' /\ AddedOnce'
    BY <1>1 DEF MainInv, Extended, AddedOnce, Added
  <1> QED
    BY <1>2, <1>3 DEF MainInv

(* The menu and the steps after it.                                         *)
LEMMA LaterSteps ==
  ASSUME MainInv,
         \/ Merged \/ Choose \/ IndexPanics \/ Dispatch \/ ChainFails \/ ChainReturns
         \/ ReturnToFirmware
  PROVE  MainInv'
  <1>1. /\ MainTypes /\ Extended /\ RunsChosen
        /\ chosen \in Nat \cup {-1} /\ keyed \in BOOLEAN
        /\ cause \in {"none", "immediate", "enter", "digit", "timeout"}
    BY DEF MainInv, MainTypes
  <1>2. cfg.default \in Nat /\ Len(cfg.entries) \in Nat
    <2>1. cfg.default \in Nat /\ cfg.entries \in Seq(MainEntries)
      BY <1>1 DEF MainTypes, ConfigOf
    <2> QED
      BY <2>1
  <1>3. CASE Merged
    <2>1. /\ pc = "merge" /\ merged = Len(found) /\ pc' = "choose"
          /\ UNCHANGED <<cfg, written, found, merged, chosen, cause, keyed, running>>
      BY <1>3 DEF Merged, startVars
    <2>2. Later
      BY <2>1 DEF Later, Before
    <2>3. RunsChosen'
      BY <1>1, <2>1 DEF RunsChosen, Started
    <2> QED
      BY <1>1, <2>1, <2>2, <2>3, LaterKeeps
  <1>4. CASE Choose
    <2>1. /\ pc = "choose" /\ pc' = "choose" /\ Menu!Next
          /\ UNCHANGED <<cfg, written, found, merged, running>>
      BY <1>4 DEF Choose
    <2>2. Later
      BY <1>1, <2>1 DEF Later, Before, Extended
    <2>3. /\ chosen' \in Nat \cup {-1} /\ keyed' \in BOOLEAN
          /\ cause' \in {"none", "immediate", "enter", "digit", "timeout"}
          /\ chosen' # -1 => /\ chosen' = cfg.default \/ chosen' < Len(cfg.entries)
                             /\ keyed' \/ chosen' = cfg.default
      <3>1. chosen = -1
        BY <2>1 DEF Menu!Next, Menu!AtOnce, Menu!Touch, Menu!Pick, Menu!Expire, Menu!Waiting
      <3>2. CASE Menu!AtOnce \/ Menu!Expire
        BY <1>1, <1>2, <3>2 DEF Menu!AtOnce, Menu!Expire
      <3>3. CASE Menu!Touch
        BY <1>1, <3>1, <3>3 DEF Menu!Touch
      <3>4. CASE Menu!Pick
        <4>1. /\ keyed' = TRUE /\ cause' \in {"enter", "digit"}
              /\ chosen' \in 0..(Len(cfg.entries) - 1)
          BY <3>4 DEF Menu!Pick
        <4> QED
          BY <1>2, <4>1
      <3> QED
        BY <2>1, <3>2, <3>3, <3>4 DEF Menu!Next
    <2>4. RunsChosen'
      BY <1>1, <2>1, <2>3 DEF RunsChosen, Started
    <2> QED
      BY <2>2, <2>3, <2>4, LaterKeeps
  <1>5. CASE IndexPanics
    <2>1. /\ pc = "choose" /\ pc' = "panic" /\ chosen # -1 /\ chosen >= Len(cfg.entries)
          /\ UNCHANGED <<cfg, written, found, merged, chosen, cause, keyed, running>>
      BY <1>5 DEF IndexPanics, startVars
    <2>2. Later
      BY <1>1, <2>1 DEF Later, Before, Extended
    <2>3. RunsChosen'
      BY <1>1, <2>1 DEF RunsChosen, Started
    <2> QED
      BY <1>1, <2>1, <2>2, <2>3, LaterKeeps
  <1>6. CASE Dispatch
    <2> DEFINE t == cfg.entries[chosen + 1].target
    <2>1. /\ pc = "choose" /\ chosen # -1 /\ chosen < Len(cfg.entries)
          /\ pc' = t.kind /\ running' = t
          /\ UNCHANGED <<cfg, written, found, merged, chosen, cause, keyed>>
      BY <1>6 DEF Dispatch
    <2>2. t.kind \in {"multiboot", "chainload", "linux"}
      <3>1. cfg.entries \in Seq(MainEntries) /\ chosen + 1 \in 1..Len(cfg.entries)
        BY <1>1, <1>2, <2>1 DEF MainTypes, ConfigOf
      <3>2. cfg.entries[chosen + 1] \in MainEntries
        BY <3>1
      <3> QED
        BY <3>2 DEF MainEntries, MainTargets
    <2>3. Later
      BY <1>1, <2>1, <2>2 DEF Later, Before, Extended
    <2>4. RunsChosen'
      BY <1>1, <2>1, <2>2 DEF RunsChosen, Started
    <2> QED
      BY <1>1, <2>1, <2>3, <2>4, LaterKeeps
  <1>7. CASE ChainFails \/ ChainReturns
    <2>1. /\ pc = "chainload" /\ pc' \in {"exited", "returned"} /\ running' = Nothing
          /\ UNCHANGED <<cfg, written, found, merged, chosen, cause, keyed>>
      BY <1>7 DEF ChainFails, ChainReturns
    <2>2. Later
      BY <1>1, <2>1 DEF Later, Before, Extended
    <2>3. RunsChosen'
      BY <1>1, <2>1 DEF RunsChosen, Started
    <2> QED
      BY <1>1, <2>1, <2>2, <2>3, LaterKeeps
  <1>8. CASE ReturnToFirmware
    <2>1. /\ pc = "returned" /\ pc' = "exited"
          /\ UNCHANGED <<cfg, written, found, merged, chosen, cause, keyed, running>>
      BY <1>8 DEF ReturnToFirmware, startVars
    <2>2. Later
      BY <1>1, <2>1 DEF Later, Before, Extended
    <2>3. RunsChosen'
      BY <1>1, <2>1 DEF RunsChosen, Started
    <2> QED
      BY <1>1, <2>1, <2>2, <2>3, LaterKeeps
  <1> QED
    BY <1>3, <1>4, <1>5, <1>6, <1>7, <1>8

(* Every step of main keeps the invariant.                                  *)
LEMMA MainStep == MainInv /\ [Next]_vars => MainInv'
  <1> SUFFICES ASSUME MainInv, [Next]_vars PROVE MainInv'
    OBVIOUS
  <1>1. CASE ReadConfig
    BY <1>1, ReadKeeps
  <1>2. CASE Scan
    BY <1>2, ScanKeeps
  <1>3. CASE MergeNext
    BY <1>3, MergeKeeps
  <1>4. CASE \/ Merged \/ Choose \/ IndexPanics \/ Dispatch \/ ChainFails \/ ChainReturns
             \/ ReturnToFirmware
    BY <1>4, LaterSteps
  <1>5. CASE UNCHANGED vars
    <2>1. UNCHANGED <<pc, cfg, defaultTitle, written, found, merged, chosen, cause, keyed, running>>
      BY <1>5 DEF vars, configVars, startVars
    <2>2. Before' = Before /\ Started' = Started /\ ConfigInv' = ConfigInv
      BY <2>1 DEF Before, Started, ConfigInv, DefaultMeant
    <2>3. MainTypes' /\ Reading' /\ Extended'
      BY <2>1, <2>2 DEF MainInv, MainTypes, Asked, Reading, Extended
    <2>4. AddedOnce' /\ RunsChosen'
      BY <2>1, <2>2 DEF MainInv, AddedOnce, Added, RunsChosen
    <2> QED
      BY <2>3, <2>4 DEF MainInv
  <1> QED
    BY <1>1, <1>2, <1>3, <1>4, <1>5 DEF Next

(* MainInv holds in every state.                                            *)
THEOREM MainInvariant == Spec => []MainInv
  BY MainStart, MainStep, PTL DEF Spec

(* Every variable of main keeps its type, and something is running exactly  *)
(* while main is in the branch that started it.                             *)
THEOREM TypeCorrect == Spec => []TypeOK
  <1>1. MainInv => TypeOK
    <2> SUFFICES ASSUME MainInv PROVE TypeOK
      OBVIOUS
    <2>1. MainTypes /\ Reading /\ RunsChosen
      BY DEF MainInv
    <2>2. Len(cfg.entries) <= MaxEntries + MaxFound + 1
      <3>1. /\ cfg.entries \in Seq(MainEntries) /\ Len(found) \in 0..MaxFound
            /\ merged \in 0..Len(found) /\ Len(cfg.entries) <= MaxEntries + 1 + merged
        BY <2>1, FoundFacts DEF MainTypes, ConfigOf
      <3>2. Len(cfg.entries) \in Nat
        BY <3>1
      <3>3. MaxEntries \in Nat /\ MaxFound \in Nat
        BY ConfigConstants, StartupConstants
      <3> QED
        BY <3>1, <3>2, <3>3
    <2>3. running # Nothing <=> Started
      <3>1. CASE Started
        <4>1. /\ cfg.entries \in Seq(MainEntries) /\ chosen + 1 \in 1..Len(cfg.entries)
              /\ running = cfg.entries[chosen + 1].target
          <5>1. cfg.entries \in Seq(MainEntries) /\ chosen \in Nat \cup {-1}
            BY <2>1 DEF MainTypes, ConfigOf
          <5> QED
            BY <2>1, <3>1, <5>1 DEF RunsChosen
        <4>2. cfg.entries[chosen + 1] \in MainEntries
          BY <4>1
        <4>3. running.kind \in {"multiboot", "chainload", "linux"}
          BY <4>1, <4>2 DEF MainEntries, MainTargets
        <4>4. Nothing.kind = "none"
          BY DEF Nothing, Target
        <4> QED
          BY <3>1, <4>3, <4>4
      <3>2. CASE ~Started
        BY <2>1, <3>2 DEF RunsChosen
      <3> QED
        BY <3>1, <3>2
    <2> QED
      BY <2>1, <2>2, <2>3 DEF TypeOK, MainTypes, Reading, Before, Started
  <1> QED
    BY <1>1, MainInvariant, PTL

(* Whatever scan finds, what was written stays where it was, and a machine  *)
(* nobody touches starts the entry the configuration means.                 *)
THEOREM WrittenDefaultKept == Spec => []DefaultKept
  <1>1. MainInv => DefaultKept
    <2> SUFFICES ASSUME MainInv PROVE DefaultKept
      OBVIOUS
    <2>1. Extended /\ RunsChosen
      BY DEF MainInv
    <2>2. ASSUME Asked PROVE \A k \in DOMAIN written.entries : cfg.entries[k] = written.entries[k]
      <3>1. ~Before
        BY <2>2 DEF Asked, Before
      <3>2. written.entries \in Seq(WrittenEntries)
        BY <2>1, <3>1 DEF Extended, ConfigOf
      <3> QED
        BY <2>1, <3>1, <3>2 DEF Extended
    <2>3. ASSUME running # Nothing, ~keyed, written.entries # <<>>
          PROVE  running = written.entries[written.default + 1].target
      <3>1. Started /\ ~Before
        BY <2>1, <2>3 DEF RunsChosen, Started, Before
      <3>2. /\ chosen = written.default /\ written.default < Len(written.entries)
            /\ running = cfg.entries[chosen + 1].target
        BY <2>1, <2>3, <3>1 DEF RunsChosen, Extended
      <3>3. written.entries \in Seq(WrittenEntries) /\ written.default \in Nat
        BY <2>1, <3>1 DEF Extended, ConfigOf
      <3>4. written.default + 1 \in 1..Len(written.entries)
        BY <3>2, <3>3
      <3>5. cfg.entries[written.default + 1] = written.entries[written.default + 1]
        BY <2>1, <3>1, <3>4 DEF Extended
      <3> QED
        BY <3>2, <3>5
    <2> QED
      BY <2>2, <2>3 DEF DefaultKept
  <1> QED
    BY <1>1, MainInvariant, PTL

(* No file found is offered twice, in whatever case its name is written,    *)
(* nor beside an entry that names it in the same letters, however many      *)
(* loaders and volumes there are.  It may be offered beside an entry that   *)
(* writes its name in another case.                                         *)
THEOREM NoneTwice == Spec => []OfferedOnce
  <1>1. MainInv => OfferedOnce
    <2> SUFFICES ASSUME MainInv, Asked PROVE OfferedOnce
      BY DEF OfferedOnce
    <2>1. ~Before
      BY DEF Asked, Before
    <2>2. found \in FoundLists /\ merged \in 0..Len(found)
      BY DEF MainInv, MainTypes
    <2>3. DOMAIN found = 1..Len(found) /\ Len(found) \in Nat
      BY <2>2, FoundFacts, StartupConstants
    <2>4. \A j \in 1..merged : found[j] \in {found[k] : k \in DOMAIN found}
      BY <2>2, <2>3
    <2> QED
      BY <2>1, <2>4 DEF MainInv, AddedOnce, OfferedOnce
  <1> QED
    BY <1>1, MainInvariant, PTL

(* main indexes past its list only when there is nothing on it.             *)
THEOREM PanicMeansNothing == Spec => []PanicsOnlyEmpty
  <1>1. MainInv => PanicsOnlyEmpty
    <2> SUFFICES ASSUME MainInv, pc = "panic" PROVE written.entries = <<>> /\ found = <<>>
      BY DEF PanicsOnlyEmpty
    <2>1. /\ Extended /\ RunsChosen /\ MainTypes /\ ~Before
      BY DEF MainInv, Before
    <2>2. /\ chosen = cfg.default /\ chosen >= Len(cfg.entries) /\ cfg.default = written.default
          /\ cfg.entries \in Seq(MainEntries) /\ written.entries \in Seq(WrittenEntries)
          /\ Len(written.entries) <= Len(cfg.entries) /\ chosen \in Nat
      <3>1. cfg.entries \in Seq(MainEntries) /\ cfg.default \in Nat
        BY <2>1 DEF MainTypes, ConfigOf
      <3>2. chosen >= Len(cfg.entries) /\ (chosen = cfg.default \/ chosen < Len(cfg.entries))
        BY <2>1 DEF RunsChosen
      <3>3. chosen = cfg.default
        <4>1. Len(cfg.entries) \in Nat /\ chosen \in Nat \cup {-1}
          BY <2>1, <3>1 DEF MainTypes
        <4> QED
          BY <3>1, <3>2, <4>1
      <3>4. /\ cfg.default = written.default /\ Len(written.entries) <= Len(cfg.entries)
            /\ written.entries \in Seq(WrittenEntries)
        BY <2>1 DEF Extended, ConfigOf
      <3> QED
        BY <3>1, <3>2, <3>3, <3>4
    <2>3. written.entries = <<>>
      <3>1. written.entries # <<>> => written.default < Len(written.entries)
        BY <2>1 DEF Extended
      <3>2. Len(written.entries) \in Nat /\ Len(cfg.entries) \in Nat
        BY <2>2
      <3> QED
        BY <2>2, <3>1, <3>2
    <2>4. cfg.entries = <<>>
      <3>1. written.default = 0
        BY <2>1, <2>3 DEF Extended
      <3>2. Len(cfg.entries) = 0
        BY <2>2, <3>1
      <3> QED
        BY <2>2, <3>2
    <2>5. merged = Len(found) /\ merged \in Nat /\ ~(merged > 0) /\ found \in FoundLists
      <3>1. merged = Len(found) /\ ~(merged > 0)
        BY <2>1, <2>4 DEF Extended
      <3>2. found \in FoundLists
        BY <2>1 DEF MainTypes
      <3>3. Len(found) \in 0..MaxFound /\ MaxFound \in Nat
        BY <3>2, FoundFacts, StartupConstants
      <3> QED
        BY <3>1, <3>2, <3>3
    <2>6. found \in Seq([path : Paths, device : Volumes]) /\ Len(found) = 0
      BY <2>5, FoundFacts
    <2>7. found = <<>>
      BY <2>6
    <2> QED
      BY <2>3, <2>7
  <1> QED
    BY <1>1, MainInvariant, PTL

-----------------------------------------------------------------------------
(* What scan returns, for any volumes, directories of any length and names  *)
(* of any size.                                                             *)

(* Every path a loader can be offered by. *)
OfferedPaths ==
  {WINDOWS} \cup
  {<<EFI, name, LOADERS[k]>> :
     name \in UNION {{d.entries[j].name : j \in DOMAIN d.entries} : d \in Disks},
     k \in DOMAIN LOADERS}

(* A volume that is still to come has not been read, the one in hand as far *)
(* as the firmware has handed its entries over, and none past its end.      *)
ReadSoFar ==
  /\ scan = "locate" => vol = 1 /\ \A v \in Handles : reached[v] = Absent
  /\ scan = "volume" => \A v \in Handles : v >= vol => reached[v] = Absent
  /\ scan = "read" => reached[vol] = pos /\ \A v \in Handles : v > vol => reached[v] = Absent
  /\ \A v \in Handles : reached[v] # Absent => reached[v] \in 0..Len(disk[v].entries)

(* Bang itself is found only where Windows is looked for. *)
ItselfAsWindows ==
  own # Absent =>
    \A k \in DOMAIN out :
      out[k].device = own.device /\ Fold(out[k].path) = Fold(own.path)
        => out[k].path = WINDOWS

Finding ==
  /\ ScanTypeOK /\ ReadSoFar
  /\ out \in Seq([device : Handles, path : OfferedPaths])
  /\ ScanComplete

-----------------------------------------------------------------------------
(* The assumption on the constants, for the volume v of these disks.        *)
LEMMA DiskFacts ==
  ASSUME ScanTypeOK, NEW v \in Handles
  PROVE  disk[v] \in Disks /\ IsDisk(disk[v])
  BY DiscoverConstants DEF ScanTypeOK

(* The loader that is offered for a directory exists, and none of those     *)
(* before it does.                                                          *)
LEMMA LoaderFacts ==
  ASSUME NEW e, Exist(e) # {}
  PROVE  \E k \in Exist(e) : /\ Loader(e) = LOADERS[k]
                             /\ \A l \in Exist(e) :
                                  (\A j \in 1..(l - 1) : j \notin Exist(e)) <=> l = k
  <1>1. Exist(e) \in SUBSET Nat /\ \A l \in Exist(e) : l \in 1..5
    BY DEF Exist, LOADERS
  <1>2. \E k \in Exist(e) : \A l \in Exist(e) : k <= l
    BY <1>1, LeastOf
  <1> DEFINE k == CHOOSE x \in Exist(e) : \A l \in Exist(e) : x <= l
  <1>3. k \in Exist(e) /\ \A l \in Exist(e) : k <= l
    BY <1>2
  <1>4. Loader(e) = LOADERS[k]
    BY DEF Loader
  <1> HIDE DEF k
  <1>5. ASSUME NEW l \in Exist(e) PROVE (\A j \in 1..(l - 1) : j \notin Exist(e)) <=> l = k
    <2>1. k \in Nat /\ k >= 1 /\ l \in Nat /\ l >= 1 /\ k <= l
      BY <1>1, <1>3
    <2>2. ASSUME l = k, NEW j \in 1..(l - 1) PROVE j \notin Exist(e)
      BY <1>1, <1>3, <2>1, <2>2
    <2>3. ASSUME l # k PROVE k \in 1..(l - 1)
      BY <2>1, <2>3
    <2> QED
      BY <1>3, <2>2, <2>3
  <1> QED
    BY <1>3, <1>4, <1>5

(* What is to be found at a place says where it is. *)
LEMMA WindowsInstalled ==
  ASSUME NEW v, NEW f \in Installed(v, 0)
  PROVE  f = [device |-> v, path |-> WINDOWS] /\ disk[v].windows
  BY DEF Installed

(* What is to be found at an entry is beneath that entry, and not Bang.     *)
LEMMA EntryInstalled ==
  ASSUME NEW v, NEW n \in Nat, n # 0, NEW f \in Installed(v, n)
  PROVE  /\ f.device = v /\ ~IsBang(v, f.path)
         /\ \E k \in DOMAIN LOADERS : f.path = <<EFI, disk[v].entries[n].name, LOADERS[k]>>
  BY DEF Installed, Exist

(* The same file is not to be found at two places, under any two names.     *)
LEMMA OnePlace ==
  ASSUME ScanTypeOK,
         NEW v \in Handles, NEW n \in 0..Len(disk[v].entries),
         NEW w \in Handles, NEW m \in 0..Len(disk[w].entries),
         NEW f, f \in Installed(v, n), NEW g, g \in Installed(w, m),
         f.device = g.device, Fold(f.path) = Fold(g.path)
  PROVE  v = w /\ n = m
  <1>1. IsDisk(disk[v]) /\ IsDisk(disk[w])
    BY DiskFacts
  <1>2. n \in Nat /\ m \in Nat
    BY <1>1 DEF IsDisk
  <1>3. f.device = v /\ g.device = w
    BY <1>2, WindowsInstalled, EntryInstalled
  <1>4. ASSUME n # 0
        PROVE  /\ 4 \notin DOMAIN f.path /\ 2 \in DOMAIN f.path
               /\ f.path[2] = disk[v].entries[n].name /\ n \in DOMAIN disk[v].entries
    <2>1. PICK k \in DOMAIN LOADERS :
            f.path = <<EFI, disk[v].entries[n].name, LOADERS[k]>>
      BY <1>2, <1>4, EntryInstalled
    <2>2. n \in 1..Len(disk[v].entries)
      BY <1>1, <1>2, <1>4 DEF IsDisk
    <2> QED
      BY <1>1, <2>1, <2>2 DEF IsDisk
  <1>5. ASSUME m # 0
        PROVE  /\ 4 \notin DOMAIN g.path /\ 2 \in DOMAIN g.path
               /\ g.path[2] = disk[w].entries[m].name /\ m \in DOMAIN disk[w].entries
    <2>1. PICK k \in DOMAIN LOADERS :
            g.path = <<EFI, disk[w].entries[m].name, LOADERS[k]>>
      BY <1>2, <1>5, EntryInstalled
    <2>2. m \in 1..Len(disk[w].entries)
      BY <1>1, <1>2, <1>5 DEF IsDisk
    <2> QED
      BY <1>1, <2>1, <2>2 DEF IsDisk
  <1>6. /\ n = 0 => 4 \in DOMAIN f.path
        /\ m = 0 => 4 \in DOMAIN g.path
    <2>1. 4 \in DOMAIN WINDOWS
      BY DEF WINDOWS
    <2>2. (n = 0 => f.path = WINDOWS) /\ (m = 0 => g.path = WINDOWS)
      BY WindowsInstalled
    <2> QED
      BY <2>1, <2>2
  <1>7. /\ DOMAIN f.path = DOMAIN g.path
        /\ \A k \in DOMAIN f.path : f.path[k][1] = g.path[k][1]
    <2> DEFINE F == Fold(f.path)
               G == Fold(g.path)
    <2>1. DOMAIN F = DOMAIN f.path /\ DOMAIN G = DOMAIN g.path /\ F = G
      BY DEF Fold
    <2>2. /\ \A k \in DOMAIN f.path : F[k] = f.path[k][1]
          /\ \A k \in DOMAIN g.path : G[k] = g.path[k][1]
      BY DEF Fold
    <2> HIDE DEF F, G
    <2> QED
      BY <2>1, <2>2
  <1>8. CASE n = 0 \/ m = 0
    <2>1. n = 0 /\ m = 0
      BY <1>4, <1>5, <1>6, <1>7, <1>8, Zenon
    <2> QED
      BY <1>3, <2>1
  <1>9. CASE n # 0 /\ m # 0
    <2>1. v = w /\ disk[v].entries[n].name[1] = disk[w].entries[m].name[1]
      BY <1>3, <1>4, <1>5, <1>7, <1>9
    <2> QED
      BY <1>1, <1>4, <1>5, <1>9, <2>1 DEF IsDisk
  <1> QED
    BY <1>8, <1>9

(* The places that have been read. *)
LEMMA ReadPlaces ==
  ASSUME NEW p
  PROVE  p \in Read <=> \E v \in Handles : /\ reached[v] # Absent
                                           /\ \E n \in 0..reached[v] : p = <<v, n>>
  BY DEF Read

(* What the entry in hand adds is what is to be found there. *)
LEMMA OfferedRight ==
  ASSUME ScanTypeOK, scan = "read", pos < Len(disk[vol].entries)
  PROVE  /\ Offered \in Seq([device : Handles, path : OfferedPaths])
         /\ Len(Offered) \in {0, 1}
         /\ {Offered[k] : k \in DOMAIN Offered} = Installed(vol, pos + 1)
  <1> DEFINE e == disk[vol].entries[pos + 1]
             path == <<EFI, e.name, Loader(e)>>
             f == [device |-> vol, path |-> path]
             good == e.dir /\ e.name \notin Skipped /\ Exist(e) # {} /\ ~IsBang(vol, path)
  <1>1. vol \in Handles /\ disk[vol] \in Disks /\ IsDisk(disk[vol])
    BY DiskFacts DEF ScanTypeOK
  <1>2. pos \in Nat /\ pos + 1 \in DOMAIN disk[vol].entries /\ pos + 1 # 0
    BY <1>1 DEF ScanTypeOK, IsDisk
  <1>3. Offered = IF good THEN <<f>> ELSE <<>>
    BY DEF Offered, Entry
  <1>4. Exist(e) # {} => path \in OfferedPaths
    <2> SUFFICES ASSUME Exist(e) # {} PROVE path \in OfferedPaths
      OBVIOUS
    <2>1. PICK k \in DOMAIN LOADERS : Loader(e) = LOADERS[k]
      BY LoaderFacts DEF Exist
    <2>2. e.name \in UNION {{d.entries[j].name : j \in DOMAIN d.entries} : d \in Disks}
      BY <1>1, <1>2
    <2>3. path = <<EFI, e.name, LOADERS[k]>>
      BY <2>1
    <2> DEFINE N == UNION {{d.entries[j].name : j \in DOMAIN d.entries} : d \in Disks}
               name == e.name
    <2>4. name \in N
      BY <2>2
    <2> HIDE DEF N, name
    <2>5. <<EFI, name, LOADERS[k]>>
            \in {<<EFI, x, LOADERS[l]>> : x \in N, l \in DOMAIN LOADERS}
      BY <2>4
    <2>6. path = <<EFI, name, LOADERS[k]>>
      BY <2>3 DEF name
    <2> HIDE DEF path
    <2>7. path \in {<<EFI, x, LOADERS[l]>> : x \in N, l \in DOMAIN LOADERS}
      BY <2>5, <2>6
    <2> QED
      BY <2>7 DEF OfferedPaths, N
  <1>5. Installed(vol, pos + 1) = IF good THEN {f} ELSE {}
    <2> DEFINE best == {k \in Exist(e) : \A l \in 1..(k - 1) : l \notin Exist(e)}
               meant == {[device |-> vol, path |-> <<EFI, e.name, LOADERS[k]>>] : k \in best}
    <2>1. Installed(vol, pos + 1)
            = {x \in meant : e.dir /\ e.name \notin Skipped /\ ~IsBang(vol, x.path)}
      BY <1>2 DEF Installed
    <2>2. CASE Exist(e) = {}
      BY <2>1, <2>2
    <2>3. CASE Exist(e) # {}
      <3>1. PICK k \in Exist(e) : /\ Loader(e) = LOADERS[k]
                                  /\ \A l \in Exist(e) :
                                       (\A j \in 1..(l - 1) : j \notin Exist(e)) <=> l = k
        BY <2>3, LoaderFacts
      <3>2. best = {k}
        BY <3>1
      <3>3. meant = {f}
        BY <3>1, <3>2
      <3>4. f.path = path
        OBVIOUS
      <3> HIDE DEF meant, best, f, path, e
      <3> QED
        BY <2>1, <2>3, <3>3, <3>4
    <2> QED
      BY <2>2, <2>3
  <1> HIDE DEF path, e
  <1>6. good => f \in [device : Handles, path : OfferedPaths]
    BY <1>1, <1>4
  <1> HIDE DEF f, good
  <1>7. CASE good
    BY <1>3, <1>5, <1>6, <1>7
  <1>8. CASE ~good
    BY <1>3, <1>5, <1>8
  <1> QED
    BY <1>7, <1>8

(* When the place x has been read too, and what is to be found there has    *)
(* been added to what was found, it is still all that is to be found.       *)
LEMMA OneMore ==
  ASSUME Finding, disk' = disk, own' = own,
         NEW v \in Handles, NEW n \in 0..Len(disk[v].entries),
         \A p : p \in Read' <=> p \in Read \/ p = <<v, n>>,
         \A p \in Read : Precedes(p, <<v, n>>),
         NEW s \in Seq([device : Handles, path : OfferedPaths]), Len(s) \in {0, 1},
         {s[k] : k \in DOMAIN s} = Installed(v, n),
         out' = out \o s
  PROVE  /\ out' \in Seq([device : Handles, path : OfferedPaths])
         /\ ScanComplete'
  <1> DEFINE F == [device : Handles, path : OfferedPaths]
             There(p) == Installed(p[1], p[2])
             new == <<v, n>>
  <1>1. /\ ScanTypeOK /\ ReadSoFar /\ out \in Seq(F) /\ ScanComplete
        /\ s \in Seq(F) /\ Len(s) \in {0, 1} /\ Len(out) \in Nat
    <2>1. ScanTypeOK /\ ReadSoFar /\ out \in Seq(F) /\ ScanComplete
      BY DEF Finding
    <2>2. Len(out) \in Nat
      BY <2>1
    <2> HIDE DEF F
    <2> QED
      BY <2>1, <2>2 DEF F
  <1>2. \A p : There(p)' = There(p)
    BY DEF Installed, IsBang
  <1>3. ASSUME NEW p \in Read' PROVE p[1] \in Handles /\ p[2] \in 0..Len(disk[p[1]].entries)
    <2>1. CASE p \in Read
      <3>1. PICK w \in Handles : reached[w] # Absent /\ \E m \in 0..reached[w] : p = <<w, m>>
        BY <2>1, ReadPlaces
      <3>2. PICK m \in 0..reached[w] : p = <<w, m>>
        BY <3>1
      <3>3. reached[w] \in 0..Len(disk[w].entries)
        BY <1>1, <3>1 DEF ReadSoFar
      <3>4. Len(disk[w].entries) \in Nat
        BY <1>1, DiskFacts DEF IsDisk
      <3> QED
        BY <3>2, <3>3, <3>4
    <2>2. CASE p = <<v, n>>
      BY <2>2
    <2> QED
      BY <2>1, <2>2
  <1>4. ASSUME NEW p \in Read', NEW q \in Read', NEW f, f \in There(p), f \in There(q)
        PROVE  p[1] = q[1] /\ p[2] = q[2]
    <2>1. p[1] \in Handles /\ p[2] \in 0..Len(disk[p[1]].entries)
      BY <1>3
    <2>2. q[1] \in Handles /\ q[2] \in 0..Len(disk[q[1]].entries)
      BY <1>3
    <2>3. f \in Installed(p[1], p[2]) /\ f \in Installed(q[1], q[2])
      BY <1>4
    <2> QED
      BY <1>1, <2>1, <2>2, <2>3, OnePlace
  <1>5. ASSUME NEW p \in Read, Precedes(p, p) PROVE FALSE
    <2>1. p[1] \in Nat /\ p[2] \in Nat
      <3>1. p[1] \in Handles /\ p[2] \in 0..Len(disk[p[1]].entries)
        BY <1>3
      <3>2. Len(disk[p[1]].entries) \in Nat
        BY <1>1, <3>1, DiskFacts DEF IsDisk
      <3> QED
        BY <3>1, <3>2 DEF Handles
    <2> QED
      BY <1>5, <2>1 DEF Precedes
  <1>6. /\ out' \in Seq(F) /\ DOMAIN out' = 1..(Len(out) + Len(s))
        /\ \A k \in 1..Len(out) : out'[k] = out[k]
        /\ \A k \in DOMAIN out' :
             k \notin 1..Len(out) => Len(s) = 1 /\ k = Len(out) + 1 /\ out'[k] = s[1]
    <2>1. out' \in Seq(F) /\ Len(out') = Len(out) + Len(s)
      BY <1>1
    <2>2. \A k \in 1..Len(out) : out'[k] = out[k]
      BY <1>1
    <2>3. ASSUME NEW k \in 1..(Len(out) + Len(s)), k \notin 1..Len(out)
          PROVE  Len(s) = 1 /\ k = Len(out) + 1 /\ out'[k] = s[1]
      BY <1>1, <2>3
    <2> QED
      BY <2>1, <2>2, <2>3
  <1>7. Len(s) = 1 => s[1] \in There(new)
    BY <1>1
  <1>8. /\ {out[k] : k \in DOMAIN out} = UNION {There(p) : p \in Read}
        /\ \A k, l \in DOMAIN out : \A p, q \in Read :
             k < l /\ out[k] \in There(p) /\ out[l] \in There(q) => Precedes(p, q)
        /\ DOMAIN out = 1..Len(out)
    <2>1. DOMAIN out = 1..Len(out)
      BY <1>1
    <2> QED
      BY <1>1, <2>1, Zenon DEF ScanComplete
  <1> HIDE DEF F
  <1>9. {out'[k] : k \in DOMAIN out'} = UNION {There(p) : p \in Read'}
    <2>1. ASSUME NEW k \in DOMAIN out' PROVE \E p \in Read' : out'[k] \in There(p)
      <3>1. CASE k \in 1..Len(out)
        <4>1. out[k] \in UNION {There(p) : p \in Read}
          BY <1>8, <3>1
        <4>2. PICK p \in Read : out[k] \in There(p)
          BY <4>1
        <4> QED
          BY <1>6, <3>1, <4>2
      <3>2. CASE k \notin 1..Len(out)
        BY <1>6, <1>7, <3>2
      <3> QED
        BY <3>1, <3>2
    <2>2. ASSUME NEW p \in Read', NEW f \in There(p) PROVE \E k \in DOMAIN out' : f = out'[k]
      <3>1. CASE p \in Read
        <4>1. f \in {out[k] : k \in DOMAIN out}
          BY <1>8, <3>1
        <4>2. PICK k \in 1..Len(out) : f = out[k]
          BY <1>8, <4>1
        <4>3. k \in 1..(Len(out) + Len(s))
          BY <1>1
        <4> QED
          BY <1>6, <4>2, <4>3
      <3>2. CASE p = new
        <4>1. f \in {s[k] : k \in DOMAIN s}
          BY <3>2
        <4>2. Len(s) = 1 /\ f = s[1]
          BY <1>1, <4>1
        <4>3. Len(out) + 1 \in 1..(Len(out) + Len(s)) /\ Len(out) + 1 \notin 1..Len(out)
          BY <1>1, <4>2
        <4> QED
          BY <1>6, <4>2, <4>3
      <3> QED
        BY <3>1, <3>2
    <2> HIDE DEF There
    <2> QED
      BY <2>1, <2>2
  <1>10. ASSUME NEW k \in DOMAIN out', NEW l \in DOMAIN out',
                NEW p \in Read', NEW q \in Read',
                k < l, out'[k] \in There(p), out'[l] \in There(q)
         PROVE  Precedes(p, q)
    <2>1. k \in 1..Len(out)
      <3>1. k \in Nat /\ l \in Nat /\ l <= Len(out) + 1 /\ k >= 1
        BY <1>1, <1>6
      <3> QED
        BY <1>1, <1>10, <3>1
    <2>2. PICK r \in Read : out[k] \in There(r)
      <3>1. out[k] \in UNION {There(x) : x \in Read}
        BY <1>8, <2>1
      <3> QED
        BY <3>1
    <2>3. p[1] = r[1] /\ p[2] = r[2]
      BY <1>4, <1>6, <1>10, <2>1, <2>2
    <2>4. CASE l \in 1..Len(out)
      <3>1. PICK t \in Read : out[l] \in There(t)
        <4>1. out[l] \in UNION {There(x) : x \in Read}
          BY <1>8, <2>4
        <4> QED
          BY <4>1
      <3>2. q[1] = t[1] /\ q[2] = t[2]
        BY <1>4, <1>6, <1>10, <2>4, <3>1
      <3>3. Precedes(r, t)
        BY <1>8, <1>10, <2>1, <2>2, <2>4, <3>1
      <3> QED
        BY <2>3, <3>2, <3>3 DEF Precedes
    <2>5. CASE l \notin 1..Len(out)
      <3>1. out'[l] \in There(new)
        BY <1>6, <1>7, <2>5
      <3>2. q[1] = new[1] /\ q[2] = new[2]
        BY <1>4, <1>10, <3>1
      <3>3. Precedes(r, new)
        OBVIOUS
      <3> QED
        BY <2>3, <3>2, <3>3 DEF Precedes
    <2> QED
      BY <2>4, <2>5
  <1>11. ScanComplete'
    <2>1. \A p, q : Precedes(p, q)' <=> Precedes(p, q)
      BY DEF Precedes
    <2>2. \A p : Installed(p[1], p[2])' = There(p)
      BY <1>2
    <2> HIDE DEF There
    <2>3. {out'[k] : k \in DOMAIN out'} = UNION {Installed(p[1], p[2])' : p \in Read'}
      BY <1>9, <2>2
    <2>4. \A k, l \in DOMAIN out' : \A p, q \in Read' :
            k < l /\ out'[k] \in Installed(p[1], p[2])' /\ out'[l] \in Installed(q[1], q[2])'
              => Precedes(p, q)'
      BY <1>10, <2>1, <2>2
    <2> QED
      BY <2>3, <2>4 DEF ScanComplete
  <1> QED
    BY <1>6, <1>11 DEF F

(* Nothing has been read when the scan begins. *)
LEMMA FindingStart ==
  ASSUME ScanInit
  PROVE  Finding
  <1>1. NumVolumes \in Nat
    BY DiscoverConstants
  <1>2. Read = {}
    BY DEF Read, ScanInit
  <1>3. ScanComplete
    <2>1. out = <<>> /\ DOMAIN out = {}
      BY DEF ScanInit
    <2> QED
      BY <1>2, <2>1 DEF ScanComplete
  <1>4. ScanTypeOK /\ ReadSoFar
    BY <1>1 DEF ScanInit, ScanTypeOK, ReadSoFar, Handles
  <1>5. out \in Seq([device : Handles, path : OfferedPaths])
    BY DEF ScanInit
  <1> QED
    BY <1>3, <1>4, <1>5 DEF Finding

(* What is to be found does not depend on where the scan is. *)
LEMMA CompleteKept ==
  ASSUME ScanComplete, UNCHANGED <<disk, own, out, reached>>
  PROVE  ScanComplete'
  <1>1. \A v, n : Installed(v, n)' = Installed(v, n)
    BY DEF Installed, IsBang
  <1>2. Read' = Read /\ \A p, q : Precedes(p, q)' <=> Precedes(p, q)
    BY DEF Read, Precedes
  <1> QED
    BY <1>1, <1>2 DEF ScanComplete

(* Going on to the next volume, whatever the reason. *)
LEMMA NextVolume ==
  ASSUME Finding, scan \in {"volume", "read"}, ToNextVolume,
         UNCHANGED <<disk, own, buf, out>>,
         reached' = reached
  PROVE  Finding'
  <1>1. /\ ScanTypeOK /\ ReadSoFar /\ ScanComplete /\ vol \in Handles /\ NumVolumes \in Nat
        /\ out \in Seq([device : Handles, path : OfferedPaths])
    BY DiscoverConstants DEF Finding, ScanTypeOK
  <1>2. vol \in Nat /\ vol' = vol + 1 /\ vol' \in 1..NumVolumes + 1
    BY <1>1 DEF ToNextVolume, Handles
  <1>3. scan' = IF vol + 1 \in Handles THEN "volume" ELSE "done"
    BY DEF ToNextVolume
  <1>4. ScanTypeOK'
    BY <1>1, <1>2, <1>3 DEF ScanTypeOK, Handles
  <1>5. ReadSoFar'
    <2>1. \A v \in Handles : v > vol => reached[v] = Absent
      BY <1>1, <1>2 DEF ReadSoFar, Handles
    <2>2. \A v \in Handles : v >= vol' => v > vol
      BY <1>2 DEF Handles
    <2>3. \A v \in Handles : reached'[v] # Absent => reached'[v] \in 0..Len(disk'[v].entries)
      BY <1>1 DEF ReadSoFar
    <2> QED
      BY <1>3, <2>1, <2>2, <2>3 DEF ReadSoFar
  <1>6. ScanComplete'
    BY <1>1, CompleteKept
  <1> QED
    BY <1>1, <1>4, <1>5, <1>6 DEF Finding

(* One more place has been read, and none after it. *)
LEMMA ReadGrows ==
  ASSUME Finding, scan \in {"volume", "read"},
         NEW n \in 0..Len(disk[vol].entries),
         reached' = [reached EXCEPT ![vol] = n],
         n = 0 => reached[vol] = Absent,
         n # 0 => reached[vol] = n - 1
  PROVE  /\ \A p : p \in Read' <=> p \in Read \/ p = <<vol, n>>
         /\ \A p \in Read : Precedes(p, <<vol, n>>)
  <1>1. /\ ScanTypeOK /\ ReadSoFar /\ vol \in Handles /\ NumVolumes \in Nat /\ Absent \notin Nat
    BY DiscoverConstants DEF Finding, ScanTypeOK
  <1>2. n \in Nat /\ DOMAIN reached = Handles /\ \A v \in Handles : v \in Nat
    <2>1. Len(disk[vol].entries) \in Nat
      BY <1>1, DiskFacts DEF IsDisk
    <2> QED
      BY <1>1, <2>1 DEF ScanTypeOK, Handles
  <1>3. \A v \in Handles : /\ v # vol => reached'[v] = reached[v]
                           /\ reached[v] # Absent => v <= vol
    BY <1>1, <1>2 DEF ReadSoFar
  <1>4. reached'[vol] = n /\ n # Absent
    BY <1>1, <1>2
  <1>5. \A m \in 0..n : m # n => n # 0 /\ m \in 0..(n - 1)
    BY <1>2
  <1>6. n # 0 => 0..(n - 1) \subseteq 0..n /\ n - 1 \in Nat
    BY <1>2
  <1>7. ASSUME NEW p, p \in Read' PROVE p \in Read \/ p = <<vol, n>>
    <2>1. \E v \in Handles : reached'[v] # Absent /\ \E m \in 0..reached'[v] : p = <<v, m>>
      BY <1>7 DEF Read
    <2>0. PICK v \in Handles : reached'[v] # Absent /\ \E m \in 0..reached'[v] : p = <<v, m>>
      BY <2>1
    <2>2. PICK m \in 0..reached'[v] : reached'[v] # Absent /\ p = <<v, m>>
      BY <2>0
    <2>3. CASE v # vol
      BY <1>3, <2>2, <2>3, ReadPlaces
    <2>4. CASE v = vol /\ m # n
      <3>1. n # 0 /\ m \in 0..(n - 1) /\ n - 1 \in Nat
        BY <1>4, <1>5, <1>6, <2>2, <2>4
      <3>2. reached[vol] = n - 1 /\ reached[vol] # Absent
        BY <1>1, <3>1
      <3> QED
        BY <1>1, <2>2, <2>4, <3>1, <3>2, ReadPlaces
    <2>5. CASE v = vol /\ m = n
      BY <2>2, <2>5
    <2> QED
      BY <2>3, <2>4, <2>5
  <1>8. ASSUME NEW p, p \in Read PROVE p \in Read' /\ Precedes(p, <<vol, n>>)
    <2>1. PICK v \in Handles : reached[v] # Absent /\ \E m \in 0..reached[v] : p = <<v, m>>
      BY <1>8, ReadPlaces
    <2>2. PICK m \in 0..reached[v] : p = <<v, m>>
      BY <2>1
    <2>3. CASE v # vol
      <3>1. reached'[v] = reached[v] /\ v <= vol /\ v \in Nat /\ vol \in Nat
        BY <1>1, <1>2, <1>3, <2>1, <2>3
      <3>2. p \in Read'
        BY <2>1, <2>2, <3>1 DEF Read
      <3>3. v < vol
        BY <2>3, <3>1
      <3> QED
        BY <2>2, <3>2, <3>3 DEF Precedes
    <2>4. CASE v = vol
      <3>1. n # 0 /\ reached[vol] = n - 1 /\ n - 1 \in Nat
        BY <1>6, <2>1, <2>4
      <3>2. m \in 0..(n - 1)
        BY <2>2, <2>4, <3>1
      <3>3. m \in 0..n /\ m < n
        BY <1>2, <3>2
      <3>4. p \in Read'
        BY <1>1, <1>4, <2>2, <2>4, <3>3 DEF Read
      <3> QED
        BY <2>2, <2>4, <3>3, <3>4 DEF Precedes
    <2> QED
      BY <2>3, <2>4
  <1>9. <<vol, n>> \in Read'
    <2>1. n \in 0..reached'[vol]
      BY <1>2, <1>4
    <2> QED
      BY <1>1, <1>4, <2>1 DEF Read
  <1> QED
    BY <1>7, <1>8, <1>9

(* Every loader found is on a volume, at a path that can be offered. *)
LEMMA FoundParts ==
  ASSUME NEW s \in Seq([device : Handles, path : OfferedPaths]), NEW k \in DOMAIN s
  PROVE  s[k].device \in Handles /\ s[k].path \in OfferedPaths
  <1> DEFINE F == [device : Handles, path : OfferedPaths]
  <1>1. s \in Seq(F) /\ k \in DOMAIN s
    OBVIOUS
  <1> HIDE DEF F
  <1>2. s[k] \in F
    BY <1>1
  <1> QED
    BY <1>2 DEF F

(* Reading a place and adding what is to be found there. *)
LEMMA PlaceRead ==
  ASSUME Finding, scan \in {"volume", "read"}, disk' = disk, own' = own,
         NEW n \in 0..Len(disk[vol].entries),
         reached' = [reached EXCEPT ![vol] = n],
         n = 0 => reached[vol] = Absent,
         n # 0 => reached[vol] = n - 1,
         NEW s \in Seq([device : Handles, path : OfferedPaths]), Len(s) \in {0, 1},
         {s[k] : k \in DOMAIN s} = Installed(vol, n),
         out' = out \o s
  PROVE  out' \in Seq([device : Handles, path : OfferedPaths]) /\ ScanComplete'
  <1>1. vol \in Handles
    BY DEF Finding, ScanTypeOK
  <1>2. /\ \A p : p \in Read' <=> p \in Read \/ p = <<vol, n>>
        /\ \A p \in Read : Precedes(p, <<vol, n>>)
    BY ReadGrows
  <1> QED
    BY <1>1, <1>2, OneMore

(* The start of probe. *)
LEMMA ProbeStep ==
  ASSUME Finding, Probe
  PROVE  Finding'
  <1> DEFINE F == [device : Handles, path : OfferedPaths]
             w == [device |-> vol, path |-> WINDOWS]
             s == IF disk[vol].windows THEN <<w>> ELSE <<>>
  <1>1. /\ ScanTypeOK /\ ReadSoFar /\ vol \in Handles /\ NumVolumes \in Nat /\ scan = "volume"
        /\ out \in Seq(F) /\ BufSize \in Nat
        /\ disk' = disk /\ own' = own /\ reached' = [reached EXCEPT ![vol] = 0] /\ pos' = 0
        /\ out' = IF disk[vol].windows THEN Append(out, w) ELSE out
        /\ IF disk[vol].efi
             THEN scan' = "read" /\ buf' = BufSize /\ vol' = vol
             ELSE ToNextVolume /\ buf' = buf
    BY DiscoverConstants DEF Finding, ScanTypeOK, Probe
  <1>2. Len(disk[vol].entries) \in Nat /\ 0 \in 0..Len(disk[vol].entries)
    BY <1>1, DiskFacts DEF IsDisk
  <1>3. w \in F
    BY <1>1 DEF OfferedPaths
  <1>4. reached[vol] = Absent
    <2>1. vol \in Nat
      BY <1>1 DEF Handles
    <2> QED
      BY <1>1, <2>1 DEF ReadSoFar
  <1>5. Installed(vol, 0) = IF disk[vol].windows THEN {w} ELSE {}
    BY DEF Installed
  <1> HIDE DEF w, F
  <1>6. s \in Seq(F) /\ Len(s) \in {0, 1} /\ {s[k] : k \in DOMAIN s} = Installed(vol, 0)
    BY <1>3, <1>5
  <1>7. out' = out \o s
    BY <1>1, <1>3
  <1> HIDE DEF s
  <1>8. out' \in Seq(F) /\ ScanComplete'
    BY <1>1, <1>2, <1>4, <1>6, <1>7, PlaceRead DEF F
  <1>9. /\ reached' \in [Handles -> {Absent} \cup Nat] /\ reached'[vol] = 0
        /\ \A v \in Handles : v # vol => reached'[v] = reached[v]
    BY <1>1 DEF ScanTypeOK
  <1>10. \A v \in Handles : v > vol => reached'[v] = Absent
    BY <1>1, <1>9 DEF ReadSoFar, Handles
  <1>11. \A v \in Handles : reached'[v] # Absent => reached'[v] \in 0..Len(disk[v].entries)
    BY <1>1, <1>2, <1>9 DEF ReadSoFar
  <1>12. \A k \in DOMAIN out' : out'[k].device \in Handles
    BY <1>8, FoundParts DEF F
  <1>13. CASE disk[vol].efi
    <2>1. scan' = "read" /\ buf' = BufSize /\ vol' = vol
      BY <1>1, <1>13
    <2>2. ScanTypeOK'
      BY <1>1, <1>2, <1>9, <1>12, <2>1 DEF ScanTypeOK
    <2>3. ReadSoFar'
      BY <1>1, <1>9, <1>10, <1>11, <2>1 DEF ReadSoFar
    <2> QED
      BY <1>8, <2>2, <2>3 DEF Finding, F
  <1>14. CASE ~disk[vol].efi
    <2>1. /\ vol' = vol + 1 /\ scan' = (IF vol + 1 \in Handles THEN "volume" ELSE "done")
          /\ buf' = buf /\ vol \in Nat /\ vol' \in 1..NumVolumes + 1
      BY <1>1, <1>14 DEF ToNextVolume, Handles
    <2>2. ScanTypeOK'
      BY <1>1, <1>2, <1>9, <1>12, <2>1 DEF ScanTypeOK
    <2>3. \A v \in Handles : v >= vol' => v > vol
      BY <2>1 DEF Handles
    <2>4. ReadSoFar'
      BY <1>1, <1>10, <1>11, <2>1, <2>3 DEF ReadSoFar
    <2> QED
      BY <1>8, <2>2, <2>4 DEF Finding, F
  <1> QED
    BY <1>13, <1>14

(* An entry of \EFI. *)
LEMMA ReadEntryStep ==
  ASSUME Finding, ReadEntry
  PROVE  Finding'
  <1> DEFINE F == [device : Handles, path : OfferedPaths]
  <1>1. /\ ScanTypeOK /\ ReadSoFar /\ vol \in Handles /\ NumVolumes \in Nat /\ scan = "read"
        /\ out \in Seq(F) /\ pos < Len(disk[vol].entries)
        /\ disk' = disk /\ own' = own /\ reached' = [reached EXCEPT ![vol] = pos + 1]
        /\ pos' = pos + 1 /\ out' = out \o Offered /\ scan' = scan /\ vol' = vol /\ buf' = buf
    BY DiscoverConstants DEF Finding, ScanTypeOK, ReadEntry, AtEntry
  <1>2. Len(disk[vol].entries) \in Nat /\ pos \in Nat
    BY <1>1, DiskFacts DEF IsDisk, ScanTypeOK
  <1>3. pos + 1 \in 0..Len(disk[vol].entries) /\ pos + 1 # 0 /\ (pos + 1) - 1 = pos
    BY <1>1, <1>2
  <1>4. reached[vol] = pos
    BY <1>1 DEF ReadSoFar
  <1>5. /\ Offered \in Seq(F) /\ Len(Offered) \in {0, 1}
        /\ {Offered[k] : k \in DOMAIN Offered} = Installed(vol, pos + 1)
    BY <1>1, OfferedRight
  <1>6. out' \in Seq(F) /\ ScanComplete'
    <2> DEFINE n == pos + 1
               s == Offered
    <2>1. /\ n \in 0..Len(disk[vol].entries) /\ reached' = [reached EXCEPT ![vol] = n]
          /\ n # 0 /\ reached[vol] = n - 1
          /\ s \in Seq(F) /\ Len(s) \in {0, 1}
          /\ {s[k] : k \in DOMAIN s} = Installed(vol, n) /\ out' = out \o s
      BY <1>1, <1>3, <1>4, <1>5
    <2> HIDE DEF n, s
    <2> QED
      BY <1>1, <2>1, PlaceRead
  <1>7. /\ reached' \in [Handles -> {Absent} \cup Nat] /\ reached'[vol] = pos + 1
        /\ \A v \in Handles : v # vol => reached'[v] = reached[v]
    BY <1>1, <1>2 DEF ScanTypeOK
  <1>8. \A v \in Handles : v > vol => reached'[v] = Absent
    BY <1>1, <1>7 DEF ReadSoFar, Handles
  <1>9. \A v \in Handles : reached'[v] # Absent => reached'[v] \in 0..Len(disk[v].entries)
    BY <1>1, <1>3, <1>7 DEF ReadSoFar
  <1>10. \A k \in DOMAIN out' : out'[k].device \in Handles
    BY <1>6, FoundParts
  <1>11. ScanTypeOK'
    BY <1>1, <1>3, <1>7, <1>10 DEF ScanTypeOK
  <1>12. ReadSoFar'
    BY <1>1, <1>7, <1>8, <1>9 DEF ReadSoFar
  <1> QED
    BY <1>6, <1>11, <1>12 DEF Finding

(* What is found is what is to be found, after every step. *)
LEMMA FindingStep ==
  ASSUME Finding, [ScanNext]_scanVars
  PROVE  Finding'
  <1>1. /\ ScanTypeOK /\ ReadSoFar /\ ScanComplete /\ NumVolumes \in Nat
        /\ out \in Seq([device : Handles, path : OfferedPaths])
    BY DiscoverConstants DEF Finding
  <1>2. CASE NoHandles
    <2>1. scan' = "done" /\ UNCHANGED <<disk, own, vol, buf, pos, out, reached>>
      BY <1>2 DEF NoHandles
    <2>2. ScanComplete'
      BY <1>1, <2>1, CompleteKept
    <2>3. ScanTypeOK' /\ ReadSoFar'
      BY <1>1, <2>1 DEF ScanTypeOK, ReadSoFar
    <2> QED
      BY <1>1, <2>1, <2>2, <2>3 DEF Finding
  <1>3. CASE Locate
    <2>1. /\ scan = "locate" /\ scan' = (IF vol \in Handles THEN "volume" ELSE "done")
          /\ UNCHANGED <<disk, own, vol, buf, pos, out, reached>>
      BY <1>3 DEF Locate
    <2>2. ScanComplete'
      BY <1>1, <2>1, CompleteKept
    <2>3. ScanTypeOK' /\ ReadSoFar'
      BY <1>1, <2>1 DEF ScanTypeOK, ReadSoFar
    <2> QED
      BY <1>1, <2>1, <2>2, <2>3 DEF Finding
  <1>4. CASE SkipVolume
    BY <1>4, NextVolume DEF SkipVolume
  <1>5. CASE Probe
    BY <1>5, ProbeStep
  <1>6. CASE Grow
    <2>1. /\ scan = "read" /\ pos < Len(disk[vol].entries) /\ buf' = disk[vol].entries[pos + 1].size
          /\ UNCHANGED <<scan, disk, own, vol, pos, out, reached>>
      BY <1>6 DEF Grow, AtEntry, Entry
    <2>2. ScanComplete'
      BY <1>1, <2>1, CompleteKept
    <2>3. buf' \in Nat
      <3>1. vol \in Handles /\ IsDisk(disk[vol]) /\ pos \in 0..Len(disk[vol].entries)
        BY <1>1, <2>1, DiskFacts DEF ScanTypeOK
      <3>2. pos + 1 \in DOMAIN disk[vol].entries
        BY <2>1, <3>1 DEF IsDisk
      <3> QED
        BY <2>1, <3>1, <3>2 DEF IsDisk
    <2>4. ScanTypeOK' /\ ReadSoFar'
      BY <1>1, <2>1, <2>3 DEF ScanTypeOK, ReadSoFar
    <2> QED
      BY <1>1, <2>1, <2>2, <2>4 DEF Finding
  <1>7. CASE ReadFails
    BY <1>7, NextVolume DEF ReadFails
  <1>8. CASE EndVolume
    <2>1. /\ scan = "read" /\ ToNextVolume /\ reached' = [reached EXCEPT ![vol] = pos]
          /\ UNCHANGED <<disk, own, buf, out>>
      BY <1>8 DEF EndVolume
    <2>2. reached' = reached
      BY <1>1, <2>1 DEF ReadSoFar, ScanTypeOK
    <2> QED
      BY <2>1, <2>2, NextVolume
  <1>9. CASE ReadEntry
    BY <1>9, ReadEntryStep
  <1>10. CASE UNCHANGED scanVars
    <2>1. UNCHANGED <<scan, disk, own, vol, buf, pos, out, reached>>
      BY <1>10 DEF scanVars
    <2>2. ScanComplete'
      BY <1>1, <2>1, CompleteKept
    <2>3. ScanTypeOK' /\ ReadSoFar'
      BY <1>1, <2>1 DEF ScanTypeOK, ReadSoFar
    <2> QED
      BY <1>1, <2>1, <2>2, <2>3 DEF Finding
  <1> QED
    BY <1>2, <1>3, <1>4, <1>5, <1>6, <1>7, <1>8, <1>9, <1>10 DEF ScanNext, ScanStep, ScanFault

(* Finding holds in every state. *)
THEOREM ScanInvariant == ScanSpec => []Finding
  <1>1. ScanInit => Finding
    BY FindingStart
  <1>2. Finding /\ [ScanNext]_scanVars => Finding'
    BY FindingStep
  <1> QED
    BY <1>1, <1>2, PTL DEF ScanSpec

(* Everything that is to be found on what could be read is found, once and  *)
(* in order, on any number of volumes, for directories of any length and    *)
(* names of any size.                                                       *)
THEOREM NothingMissed == ScanSpec => []ScanComplete
  <1>1. Finding => ScanComplete
    BY DEF Finding
  <1> QED
    BY <1>1, ScanInvariant, PTL

(* The state of the scan keeps its type. *)
THEOREM ScanTypeCorrect == ScanSpec => []ScanTypeOK
  <1>1. Finding => ScanTypeOK
    BY DEF Finding
  <1> QED
    BY <1>1, ScanInvariant, PTL

(* No file is found twice, under any two names, nor found where it is not.  *)
LEMMA FoundPlaces ==
  ASSUME Finding
  PROVE  /\ \A k, l \in DOMAIN out :
              out[k].device = out[l].device /\ Fold(out[k].path) = Fold(out[l].path) => k = l
         /\ \A k \in DOMAIN out : \E v \in Handles : \E n \in Nat : out[k] \in Installed(v, n)
  <1>1. /\ ScanTypeOK /\ ReadSoFar /\ ScanComplete
        /\ out \in Seq([device : Handles, path : OfferedPaths]) /\ NumVolumes \in Nat
    BY DiscoverConstants DEF Finding
  <1>2. ASSUME NEW k \in DOMAIN out
        PROVE  \E v \in Handles : \E n \in Nat : <<v, n>> \in Read /\ out[k] \in Installed(v, n)
    <2>1. out[k] \in UNION {Installed(p[1], p[2]) : p \in Read}
      BY <1>1 DEF ScanComplete
    <2>2. PICK p \in Read : out[k] \in Installed(p[1], p[2])
      BY <2>1
    <2>3. PICK v \in Handles : reached[v] # Absent /\ \E n \in 0..reached[v] : p = <<v, n>>
      BY <2>2, ReadPlaces
    <2>4. PICK n \in 0..reached[v] : p = <<v, n>>
      BY <2>3
    <2>5. reached[v] \in Nat
      BY <1>1, <2>3 DEF ScanTypeOK
    <2> QED
      BY <2>2, <2>4, <2>5
  <1>3. ASSUME NEW k \in DOMAIN out, NEW l \in DOMAIN out, k < l,
               out[k].device = out[l].device, Fold(out[k].path) = Fold(out[l].path)
        PROVE  FALSE
    <2>1. PICK v \in Handles, n \in Nat : <<v, n>> \in Read /\ out[k] \in Installed(v, n)
      BY <1>2
    <2>2. PICK w \in Handles, m \in Nat : <<w, m>> \in Read /\ out[l] \in Installed(w, m)
      BY <1>2
    <2>3. n \in 0..Len(disk[v].entries) /\ m \in 0..Len(disk[w].entries)
      <3>1. \A u \in Handles, i \in Nat : <<u, i>> \in Read => i \in 0..Len(disk[u].entries)
        <4> SUFFICES ASSUME NEW u \in Handles, NEW i \in Nat, <<u, i>> \in Read
                     PROVE  i \in 0..Len(disk[u].entries)
          OBVIOUS
        <4>1. reached[u] # Absent /\ i \in 0..reached[u]
          BY ReadPlaces
        <4>2. reached[u] \in 0..Len(disk[u].entries) /\ Len(disk[u].entries) \in Nat
          BY <1>1, <4>1, DiskFacts DEF ReadSoFar, IsDisk
        <4> QED
          BY <4>1, <4>2
      <3> QED
        BY <2>1, <2>2, <3>1
    <2>4. v = w /\ n = m
      BY <1>1, <1>3, <2>1, <2>2, <2>3, OnePlace
    <2> DEFINE p == <<v, n>>
    <2>5. p[1] = v /\ p[2] = n /\ p \in Read
      BY <2>1
    <2>6. ~Precedes(p, p)
      BY <2>5 DEF Precedes, Handles
    <2> HIDE DEF p
    <2>7. out[k] \in Installed(p[1], p[2]) /\ out[l] \in Installed(p[1], p[2])
      BY <2>1, <2>2, <2>4, <2>5
    <2>8. Precedes(p, p)
      BY <1>1, <1>3, <2>5, <2>7 DEF ScanComplete
    <2> QED
      BY <2>6, <2>8
  <1>4. \A k, l \in DOMAIN out : k < l \/ l < k \/ k = l
    BY <1>1
  <1>5. \A k \in DOMAIN out : \E v \in Handles : \E n \in Nat : out[k] \in Installed(v, n)
    BY <1>2
  <1> QED
    BY <1>3, <1>4, <1>5

(* A path ends with itself. *)
LEMMA EndsWithItself ==
  ASSUME NEW S, NEW s \in Seq(S)
  PROVE  Seqs!IsSuffix(s, s)
  BY DEF Seqs!IsSuffix, Seqs!IsPrefix, Seqs!Reverse

(* Bang is not found, whatever the case its path is told in, but where      *)
(* Windows is looked for.                                                   *)
THEOREM ItselfOnlyAsWindows == ScanSpec => []ItselfAsWindows
  <1>1. Finding => ItselfAsWindows
    <2> SUFFICES ASSUME Finding, own # Absent, NEW k \in DOMAIN out,
                        out[k].device = own.device, Fold(out[k].path) = Fold(own.path)
                 PROVE  out[k].path = WINDOWS
      BY DEF ItselfAsWindows
    <2>1. PICK v \in Handles, n \in Nat : out[k] \in Installed(v, n)
      BY FoundPlaces
    <2>2. CASE n = 0
      BY <2>1, <2>2, WindowsInstalled
    <2>3. CASE n # 0
      <3>1. /\ out[k].device = v /\ ~IsBang(v, out[k].path)
            /\ \E j \in DOMAIN LOADERS : out[k].path = <<EFI, disk[v].entries[n].name, LOADERS[j]>>
        BY <2>1, <2>3, EntryInstalled
      <3>2. ~Seqs!IsSuffix(Fold(out[k].path), Fold(own.path))
        BY <3>1 DEF IsBang, same_file
      <3>3. Fold(out[k].path) \in Seq({out[k].path[j][1] : j \in DOMAIN out[k].path})
        <4> DEFINE p == out[k].path
        <4>1. DOMAIN p = 1..3
          BY <3>1
        <4> HIDE DEF p
        <4>2. Fold(p) = [j \in 1..3 |-> p[j][1]]
          BY <4>1 DEF Fold
        <4>3. Fold(p) \in Seq({p[j][1] : j \in DOMAIN p})
          BY <4>1, <4>2
        <4> QED
          BY <4>3 DEF p
      <3>4. Seqs!IsSuffix(Fold(out[k].path), Fold(out[k].path))
        BY <3>3, EndsWithItself
      <3> QED
        BY <3>2, <3>4
    <2> QED
      BY <2>2, <2>3
  <1> QED
    BY <1>1, ScanInvariant, PTL

(* Unless Bang was installed as Windows' own loader, it is not found.       *)
THEOREM ItselfNotFound ==
  (\A o \in OwnImages : Fold(o.path) # Fold(WINDOWS))
    => (ScanSpec => []NotItself)
  <1> SUFFICES ASSUME \A o \in OwnImages : Fold(o.path) # Fold(WINDOWS)
               PROVE  ScanSpec => []NotItself
    OBVIOUS
  <1>1. ScanTypeOK /\ ItselfAsWindows => NotItself
    BY DEF ScanTypeOK, own_image, ItselfAsWindows, NotItself
  <1> QED
    BY <1>1, ScanTypeCorrect, ItselfOnlyAsWindows, PTL

(* How far the scan is from its end: the volumes to come, where it is with  *)
(* the one in hand, the entries to come, whether the next one fits.         *)
Distance ==
  <<NumVolumes + 1 - vol,
    CASE scan = "locate" -> 3 [] scan = "volume" -> 2
      [] scan = "read" -> 1 [] scan = "done" -> 0,
    IF scan = "read" THEN Len(disk[vol].entries) - pos ELSE 0,
    IF AtEntry /\ Entry.size > buf THEN 1 ELSE 0>>

(* The lexicographic order. *)
Closer(r, s) == \E i \in 1..4 : r[i] < s[i] /\ \A j \in 1..(i - 1) : r[j] = s[j]

ScanAdvances == Distance \in Nat \X Nat \X Nat \X Nat /\ Closer(Distance', Distance)

(* The distance is four numbers. *)
LEMMA DistanceNat ==
  ASSUME ScanTypeOK
  PROVE  /\ Distance \in Nat \X Nat \X Nat \X Nat
         /\ scan = "read" => Len(disk[vol].entries) \in Nat /\ pos \in Nat
  <1>1. NumVolumes + 1 - vol \in Nat
    BY DiscoverConstants DEF ScanTypeOK
  <1>2. scan = "read" => /\ Len(disk[vol].entries) \in Nat /\ pos \in 0..Len(disk[vol].entries)
    <2>1. scan = "read" => vol \in Handles
      BY DEF ScanTypeOK
    <2>2. scan = "read" => IsDisk(disk[vol])
      BY <2>1, DiskFacts
    <2> QED
      BY <2>2 DEF IsDisk, ScanTypeOK
  <1>3. (IF scan = "read" THEN Len(disk[vol].entries) - pos ELSE 0) \in Nat
    BY <1>2
  <1>4. scan \in {"locate", "volume", "read", "done"}
    BY DEF ScanTypeOK
  <1> QED
    BY <1>1, <1>2, <1>3, <1>4 DEF Distance

(* Every step brings the scan closer to its end, so that it has finitely    *)
(* many of them, whatever the volumes hold and however the firmware fails.  *)
THEOREM ScanHalts == ScanSpec => [][ScanAdvances]_scanVars
  <1>1. ASSUME ScanTypeOK, ScanTypeOK', ScanNext PROVE ScanAdvances
    <2>1. /\ Distance \in Nat \X Nat \X Nat \X Nat
          /\ scan = "read" => Len(disk[vol].entries) \in Nat /\ pos \in Nat
      BY <1>1, DistanceNat
    <2>2. NumVolumes \in Nat /\ vol \in Nat /\ vol' \in Nat /\ disk' = disk
      BY <1>1, DiscoverConstants DEF ScanTypeOK, ScanNext, ScanStep, ScanFault, NoHandles,
                  SkipVolume, ReadFails,
                  Locate, Probe, Grow, EndVolume, ReadEntry
    <2> DEFINE d == Distance
               e == Distance'
    <2>3. /\ d[1] = NumVolumes + 1 - vol /\ e[1] = NumVolumes + 1 - vol'
          /\ d[2] = (CASE scan = "locate" -> 3 [] scan = "volume" -> 2
                       [] scan = "read" -> 1 [] scan = "done" -> 0)
          /\ e[2] = (CASE scan' = "locate" -> 3 [] scan' = "volume" -> 2
                       [] scan' = "read" -> 1 [] scan' = "done" -> 0)
          /\ d[3] = (IF scan = "read" THEN Len(disk[vol].entries) - pos ELSE 0)
          /\ e[3] = (IF scan' = "read" THEN Len(disk'[vol'].entries) - pos' ELSE 0)
          /\ d[4] = (IF AtEntry /\ Entry.size > buf THEN 1 ELSE 0)
          /\ e[4] = (IF AtEntry' /\ Entry'.size > buf' THEN 1 ELSE 0)
      BY DEF Distance
    <2> HIDE DEF d, e
    <2>4. ASSUME vol' = vol + 1 PROVE Closer(e, d)
      <3>1. e[1] < d[1]
        BY <2>2, <2>3, <2>4
      <3>2. 1 \in 1..4 /\ 1..(1 - 1) = {}
        OBVIOUS
      <3> QED
        BY <3>1, <3>2 DEF Closer
    <2>5. ASSUME vol' = vol, e[2] < d[2] PROVE Closer(e, d)
      <3>1. e[1] = d[1]
        BY <2>3, <2>5
      <3>2. 2 \in 1..4 /\ \A j \in 1..(2 - 1) : j = 1
        OBVIOUS
      <3> QED
        BY <2>5, <3>1, <3>2 DEF Closer
    <2> SUFFICES Closer(e, d)
      BY <2>1 DEF ScanAdvances, d, e
    <2>6. CASE NoHandles
      BY <2>3, <2>5, <2>6 DEF NoHandles
    <2>7. CASE Locate
      <3>1. scan = "locate" /\ scan' \in {"volume", "done"} /\ vol' = vol
        BY <2>7 DEF Locate
      <3>2. e[2] < d[2]
        BY <2>3, <3>1
      <3> QED
        BY <2>5, <3>1, <3>2
    <2>8. CASE SkipVolume \/ ReadFails \/ EndVolume
      BY <2>4, <2>8 DEF SkipVolume, ReadFails, EndVolume, ToNextVolume
    <2>9. CASE Probe
      <3>1. CASE disk[vol].efi
        BY <2>3, <2>5, <2>9, <3>1 DEF Probe
      <3>2. CASE ~disk[vol].efi
        BY <2>4, <2>9, <3>2 DEF Probe, ToNextVolume
      <3> QED
        BY <3>1, <3>2
    <2>10. CASE Grow
      <3>1. /\ scan = "read" /\ scan' = scan /\ vol' = vol /\ pos' = pos
            /\ AtEntry /\ Entry.size > buf /\ Entry' = Entry /\ buf' = Entry.size
        BY <2>10 DEF Grow, AtEntry, Entry
      <3>2. buf' \in Nat
        BY <1>1 DEF ScanTypeOK
      <3>3. e[1] = d[1] /\ e[2] = d[2] /\ e[3] = d[3] /\ e[4] < d[4]
        BY <2>2, <2>3, <3>1, <3>2
      <3>4. 4 \in 1..4 /\ \A j \in 1..(4 - 1) : j \in {1, 2, 3}
        OBVIOUS
      <3> QED
        BY <3>3, <3>4 DEF Closer
    <2>11. CASE ReadEntry
      <3>1. scan = "read" /\ scan' = scan /\ vol' = vol /\ pos' = pos + 1
        BY <2>11 DEF ReadEntry, AtEntry
      <3>2. e[1] = d[1] /\ e[2] = d[2] /\ e[3] < d[3]
        BY <2>1, <2>2, <2>3, <3>1
      <3>3. 3 \in 1..4 /\ \A j \in 1..(3 - 1) : j \in {1, 2}
        OBVIOUS
      <3> QED
        BY <3>2, <3>3 DEF Closer
    <2> QED
      BY <1>1, <2>6, <2>7, <2>8, <2>9, <2>10, <2>11 DEF ScanNext, ScanStep, ScanFault
  <1>2. ScanTypeOK /\ ScanTypeOK' /\ [ScanNext]_scanVars => [ScanAdvances]_scanVars
    BY <1>1
  <1> QED
    BY <1>2, ScanTypeCorrect, PTL DEF ScanSpec

(* When it returns within the bound, what it returns is one of the lists    *)
(* main is modelled to get.                                                *)
ReturnedIsFound == Len(out) <= MaxFound => out \in FoundLists

(* What Startup takes scan to return is what Discover returns: when the     *)
(* handles are Startup's volumes and the paths offered are among its paths, *)
(* every list found is one that main's Scan step may take, so that what is  *)
(* proved of main holds of what is really found.                            *)
THEOREM ScanReturns ==
  Handles = Volumes /\ OfferedPaths \subseteq Paths
    => (ScanSpec => []ReturnedIsFound)
  <1> SUFFICES ASSUME Handles = Volumes, OfferedPaths \subseteq Paths
               PROVE  ScanSpec => []ReturnedIsFound
    OBVIOUS
  <1>1. Finding => ReturnedIsFound
    <2> SUFFICES ASSUME Finding, Len(out) <= MaxFound PROVE out \in FoundLists
      BY DEF ReturnedIsFound
    <2> DEFINE F == [device : Handles, path : OfferedPaths]
               G == [path : Paths, device : Volumes]
               n == Len(out)
    <2>1. \A f \in F : f \in G
      OBVIOUS
    <2>2. out \in Seq(F)
      BY DEF Finding
    <2> HIDE DEF F, G
    <2>3. n \in 0..MaxFound /\ out \in [1..n -> G]
      BY <2>1, <2>2, StartupConstants
    <2>4. \A k, l \in DOMAIN out :
             out[k].device = out[l].device /\ Fold(out[k].path) = Fold(out[l].path) => k = l
      BY FoundPlaces
    <2>5. \E i \in 0..MaxFound : out \in [1..i -> G]
      BY <2>3
    <2> QED
      BY <2>4, <2>5 DEF FoundLists, G
  <1> QED
    BY <1>1, ScanInvariant, PTL

=============================================================================
