---------------------------- MODULE Settings_proofs ----------------------------
(* Machine-checked proofs about Settings, for any threads, packs, configurations *)
(* and bounds.                                                                   *)
EXTENDS Settings, SequenceTheorems, TLAPS

PolicyPcs == {"start", "status", "set", "items", "apply", "refined", "heap"}
ProcessorPcs == {"load", "create", "register"}
Busy == {c \in Callers : th[c].pc # "idle"}

\* What is left of a sequence whose first elements have been dealt with.
Dealt(s, todo) == Len(s) - Len(todo)
IsRest(todo, s) ==
    /\ todo \in Seq(ToSet(s)) /\ Len(todo) \in 1..Len(s)
    /\ \A i \in 1..Len(todo) : todo[i] = s[i + Dealt(s, todo)]

\* A pack of the application, as the assumption describes it.
IsPack(pack) ==
    /\ pack \in Seq(ToSet(pack)) /\ pack # <<>>
    /\ \A m, n \in DOMAIN pack :
        /\ pack[n].name \in Policies
        /\ pack[m].name = pack[n].name => m = n

\* The items of a policy that are left when a stage of it is reached.
ItemsLeft(pc, conf, p) ==
    LET gone == CASE pc \in {"items", "apply", "refined"} -> {"switch"}
                  [] pc = "heap" -> {"switch", "refined"}
                  [] OTHER -> {} IN
    /\ DOMAIN conf = DOMAIN p.conf \ gone
    /\ \A i \in DOMAIN conf : conf[i] = p.conf[i]
    /\ pc \in {"status", "set"} => p.name \in Switches /\ Has(p.conf, "switch")
    /\ pc \in {"items", "apply"} => p.name = "crash" /\ ~Empty(conf)
    /\ pc \in {"refined", "heap"} => p.name = "overlimit" /\ ~Empty(conf)

PackFields == {"pc", "by", "pack", "todo", "conf", "kept", "seen", "good"}

\* A policy may be refused for something excused, for want of the library, or for an errno that
\* an earlier number left; the last only once APP_CRASH, one of the first n policies, is done.
Reason(c, n) ==
    LET s == th[c] IN
    \/ excused[c]
    \/ ~library /\ NeedsLibrary(s)
    \/ c \in range /\ HasNumber(s) /\ \E m \in 1..n : s.pack[m].name = "crash"

\* A thread that sets policies: what was refused has a reason that can be seen.
PackOK(c) ==
    LET s == th[c] IN
    /\ DOMAIN s = PackFields
    /\ IsPack(s.pack) /\ IsRest(s.todo, s.pack)
    /\ ItemsLeft(s.pc, s.conf, Head(s.todo))
    /\ s.seen \in BOOLEAN /\ s.good \in BOOLEAN
    /\ s.pc = "apply" => s.kept \subseteq RightItems(s.conf) /\ s.kept # {}
    /\ (\E n \in DOMAIN s.pack : Doubtful(s.pack[n])) => excused[c]
    /\ s.good \/ Reason(c, Dealt(s.pack, s.todo))

IsOptions(items) ==
    /\ items \in Seq(ToSet(items))
    /\ \A m, n \in DOMAIN items : items[m].item = items[n].item => m = n

\* A thread that configures: the items dealt with were right.
ConfigureOK(c) ==
    LET s == th[c] IN
    /\ DOMAIN s = {"pc", "items", "todo"}
    /\ IsOptions(s.items) /\ IsRest(s.todo, s.items)
    /\ (\E n \in DOMAIN s.items : ~RightOption(s.items[n])) => excused[c]
    /\ \A n \in 1..Dealt(s.items, s.todo) : RightOption(s.items[n])

\* What ConfigsAreInRange says of one processor.
RangeOK(by, conf, given) ==
    LET Whole(f) == conf[f] \in {<<>>, given[f]} IN
    /\ by \in {"js", "inner", "file"} =>
            /\ InRange(conf) \/ (conf \in Files /\ LoadProcessorConfig(conf))
            /\ \A f \in Lists : Whole(f)
    /\ by = "ndk" => InRange(conf) /\ Whole("userIds") /\ Whole("userProperties")
    /\ by = "ets" =>
            /\ Whole("customs")
            /\ \A f \in {"userIds", "userProperties"} : Fine(conf[f]) /\ Whole(f)
    /\ by = "cj" =>
            /\ InRange([conf EXCEPT !["routeInfo"] = "absent", !["appId"] = "absent",
                                    !["userIds"] = <<>>, !["userProperties"] = <<>>])
            /\ Whole("events")

\* A thread that adds a processor; a configuration of the file is checked after the loading.
LoadOK(c) ==
    LET s == th[c] IN
    /\ DOMAIN s = {"pc", "by", "conf", "given"}
    /\ DOMAIN s.conf = Fields /\ DOMAIN s.given = Fields
    /\ s.by = "file" /\ s.pc = "load" =>
            s.conf \in Files /\ s.given = s.conf /\ (LoadProcessorConfig(s.conf) \/ excused[c])
    /\ s.by # "file" \/ s.pc # "load" => RangeOK(s.by, s.conf, s.given)

CallOK(c) ==
    /\ th[c].pc \in PolicyPcs \cup ProcessorPcs \cup {"idle", "erase", "configure"}
    /\ th[c].pc \in PolicyPcs => PackOK(c)
    /\ th[c].pc = "configure" => ConfigureOK(c)
    /\ th[c].pc \in ProcessorPcs => LoadOK(c)
    /\ th[c].pc = "erase" => DOMAIN th[c] = {"pc"}
    /\ th[c].pc = "idle" => th[c] = Idle

\* The thread of OS events takes away nothing that this run has set, but for a switch that
\* was overtaken.
OsOK ==
    /\ os.pc \in {"idle", "check", "remove"}
    /\ os.pc # "idle" => DOMAIN os = {"pc", "switch"} /\ os.switch \in Switches
    /\ os.pc = "remove" => os.switch \in overtaken \/ mine[os.switch] = "none"
    /\ \A e \in events : e[1] \in Switches

StoredOK ==
    /\ DOMAIN stored = Keys
    /\ \A k \in Keys : stored[k].run \in 0..run
    /\ \A k \in Keys : stored[k] = [run |-> stored[k].run, value |-> stored[k].value]

\* Everything that TypeOK says and does not depend on what the threads do.
RestOK ==
    /\ run \in 1..MaxRuns
    /\ status \in BOOLEAN /\ library \in BOOLEAN /\ dump \in BOOLEAN /\ built \in BOOLEAN
    /\ ~library => ~dump
    /\ loaded \in BOOLEAN /\ registered \in BOOLEAN /\ overlap \in BOOLEAN /\ crossed \in BOOLEAN
    /\ config \in [disable : BOOLEAN, quota : Quotas \cup {"default"}]
    /\ range \subseteq Callers
    /\ \A p \in added : DOMAIN p.conf = Fields /\ DOMAIN p.given = Fields
    /\ overtaken \subseteq Switches /\ DOMAIN mine = Switches /\ astray \subseteq {"status", "dump"}
    /\ calls \in Nat /\ sent \in Nat /\ faults \in Nat

AnswersOK ==
    /\ DOMAIN th = Callers
    /\ done \in [Callers -> Answers] /\ excused \in [Callers -> BOOLEAN]

\* As long as nothing overlapped, one caller at a time is busy, and the thread of OS events
\* only while none is.
AloneOK ==
    /\ \A c, d \in Busy : c = d
    /\ os.pc # "idle" => Busy = {}
    /\ os.pc = "remove" => stored[os.switch].run # run

StatusOK ==
    "status" \notin astray =>
        /\ (\A c \in Callers : th[c].pc \notin {"status", "set"}) => (status <=> CurSysPageSwitchStatus)
        /\ \A c \in Callers : th[c].pc = "set" => (th[c].seen <=> CurSysPageSwitchStatus)

DumpStored == dump <=> library /\ stored["minidump"].value = "true"

\* Before the library is told, the setting has been stored.
Telling(s) == s.pc = "apply" /\ "minidump" \in s.kept
DumpOf(s) ==
    IF Telling(s) THEN stored["minidump"].value = s.conf["minidump"]
    ELSE built /\ "dump" \notin astray => DumpStored

DumpOK ==
    /\ \A c \in Callers : Telling(th[c]) => stored["minidump"].value = th[c].conf["minidump"]
    /\ built /\ "dump" \notin astray /\ (\A c \in Callers : ~Telling(th[c])) => DumpStored

Kept(st, p, item, k, r) == Has(p.conf, item) => st[k] = [run |-> r, value |-> p.conf[item]]
KeptDump(st, p, failed) ==
    p.name = "crash" /\ "minidump" \in RightItems(p.conf) /\ ~failed =>
        Kept(st, p, "minidump", "minidump", 0)
Saved(st, r, p, failed) ==
    /\ p.name \in Switches => Kept(st, p, "switch", p.name, r)
    /\ p.name = "overlimit" => Kept(st, p, "refined", "refined", 0) /\ Kept(st, p, "heap", "heap", r)
    /\ p.name = "cpu" => Kept(st, p, "item", "cpu", 0)
    /\ KeptDump(st, p, failed)

\* What is stored of the policy p when one of its stages is reached.
SavedUpTo(pc, st, r, p, failed) ==
    /\ pc # "start" /\ p.name \in Switches => Kept(st, p, "switch", p.name, r)
    /\ pc = "heap" => Kept(st, p, "refined", "refined", 0)
    /\ pc = "apply" => KeptDump(st, p, failed)

\* What a thread has set without a failure so far is stored.
SavedBy(c) ==
    th[c].pc \in PolicyPcs /\ th[c].good =>
        LET s == th[c] IN
        /\ \A n \in 1..Dealt(s.pack, s.todo) : Saved(stored, run, s.pack[n], excused[c])
        /\ SavedUpTo(s.pc, stored, run, Head(s.todo), excused[c])

SavedOK == \A c \in Callers : SavedBy(c)

\* The items dealt with are in force.
InForceOK ==
    \A c \in Callers : At(c, "configure") =>
        \A n \in 1..Dealt(th[c].items, th[c].todo) : InForce(config, th[c].items[n])

RegisteredOK ==
    \/ crossed
    \/ /\ (\E c \in Callers : At(c, "register")) => registered
       /\ (\E c \in Callers : At(c, "erase")) => added = {}
       /\ added # {} => registered

Calm == ~overlap => AloneOK /\ StatusOK /\ DumpOK /\ SavedOK /\ InForceOK

IInv ==
    /\ StoredOK /\ RestOK /\ AnswersOK
    /\ \A c \in Callers : CallOK(c)
    /\ OsOK
    /\ Calm
    /\ OwnSettingsStay /\ ConfigsAreInRange /\ RegisteredOK

\* The answer of one thread tells what became of its call.
TellsOf(c) ==
    th[c].pc # "idle" /\ th'[c].pc = "idle" /\ run' = run =>
        /\ done'[c] = "ok" /\ ~overlap =>
            /\ "pack" \in DOMAIN th[c] => SavedIn(stored', th[c].pack, excused'[c])
            /\ At(c, "configure") => \A n \in DOMAIN th[c].items : InForce(config', th[c].items[n])
        /\ done'[c] = "refused" =>
            \/ excused'[c]
            \/ c \in range /\ HasNumber(th[c])
            \/ ~library /\ NeedsLibrary(th[c])
            \/ ~registered /\ th[c].pc \in {"create", "erase"}

Tells == \A c \in Callers : TellsOf(c)

--------------------------------------------------------------------------------
(* Sequences and records.                                                        *)

LEMMA RestTail ==
    ASSUME NEW s, NEW todo, IsRest(todo, s), s \in Seq(ToSet(s))
    PROVE  /\ Dealt(s, todo) + 1 \in 1..Len(s)
           /\ DOMAIN s = 1..Len(s) /\ Len(s) \in Nat /\ Dealt(s, todo) \in Nat
           /\ Head(todo) = s[Dealt(s, todo) + 1]
           /\ Tail(todo) = <<>> => Dealt(s, todo) + 1 = Len(s)
           /\ Len(todo) = 1 <=> Tail(todo) = <<>>
           /\ Tail(todo) # <<>> => /\ IsRest(Tail(todo), s)
                                   /\ Dealt(s, Tail(todo)) = Dealt(s, todo) + 1
                                   /\ Tail(todo)[1] = Head(Tail(todo))
<1> DEFINE S == ToSet(s)
<1>1. s \in Seq(S) /\ todo \in Seq(S) /\ Len(todo) \in 1..Len(s)
      /\ \A i \in 1..Len(todo) : todo[i] = s[i + Dealt(s, todo)]
  BY DEF IsRest
<1> HIDE DEF S
<1>2. Len(s) \in Nat /\ Len(todo) \in Nat /\ DOMAIN s = 1..Len(s) /\ todo # <<>>
  BY <1>1
<1>3. Dealt(s, todo) + 1 \in 1..Len(s) /\ Dealt(s, todo) \in Nat
  BY <1>1, <1>2 DEF Dealt
<1>4. Head(todo) = s[Dealt(s, todo) + 1]
  <2>1. Head(todo) = todo[1] /\ 1 \in 1..Len(todo)
    BY <1>1, <1>2
  <2> QED
    BY <2>1, <1>1, <1>3
<1>5. Tail(todo) \in Seq(S) /\ Len(Tail(todo)) = Len(todo) - 1
  BY <1>1, <1>2
<1>6. Len(todo) = 1 <=> Tail(todo) = <<>>
  <2>1. Tail(todo) # <<>> => Len(Tail(todo)) \in Nat \ {0}
    BY <1>5, EmptySeq
  <2>2. Tail(todo) = <<>> => Len(Tail(todo)) = 0
    BY EmptySeq
  <2> QED
    BY <1>2, <1>5, <2>1, <2>2
<1>7. ASSUME Tail(todo) # <<>>
      PROVE  /\ IsRest(Tail(todo), s) /\ Dealt(s, Tail(todo)) = Dealt(s, todo) + 1
             /\ Tail(todo)[1] = Head(Tail(todo))
  <2>1. Dealt(s, Tail(todo)) = Dealt(s, todo) + 1
    BY <1>2, <1>5 DEF Dealt
  <2>2. Len(Tail(todo)) \in 1..Len(s)
    BY <1>1, <1>2, <1>5, <1>6, <1>7
  <2>3. ASSUME NEW i \in 1..Len(Tail(todo))
        PROVE  Tail(todo)[i] = s[i + Dealt(s, Tail(todo))]
    <3>1. Tail(todo)[i] = todo[i + 1] /\ i + 1 \in 1..Len(todo)
      BY <1>1, <1>2, <1>5
    <3>2. (i + 1) + Dealt(s, todo) = i + Dealt(s, Tail(todo))
      BY <2>1, <1>3
    <3> QED
      BY <3>1, <3>2, <1>1
  <2>4. Tail(todo)[1] = Head(Tail(todo))
    BY <1>5, <1>7
  <2> QED
    BY <2>1, <2>2, <2>3, <2>4, <1>5 DEF IsRest, S
<1>8. ASSUME Tail(todo) = <<>> PROVE Dealt(s, todo) + 1 = Len(s)
  <2>1. Len(todo) = 1
    BY <1>6, <1>8, Zenon
  <2> QED
    BY <1>2, <2>1 DEF Dealt
<1> QED
  BY <1>2, <1>3, <1>4, <1>6, <1>7, <1>8

LEMMA RestOfAll ==
    ASSUME NEW s, s \in Seq(ToSet(s)), s # <<>>
    PROVE  IsRest(s, s) /\ Dealt(s, s) = 0
<1> DEFINE S == ToSet(s)
<1>1. s \in Seq(S)
  OBVIOUS
<1> HIDE DEF S
<1>2. Len(s) \in Nat \ {0}
  BY <1>1, EmptySeq
<1>3. Len(s) \in 1..Len(s) /\ Dealt(s, s) = 0
  BY <1>2 DEF Dealt
<1>4. \A i \in 1..Len(s) : s[i] = s[i + Dealt(s, s)]
  BY <1>3
<1> QED
  BY <1>3, <1>4 DEF IsRest

\* The policy a thread is at is one of its pack.
LEMMA PolicyOfPack ==
    ASSUME NEW c \in Callers, PackOK(c)
    PROVE  /\ Dealt(th[c].pack, th[c].todo) + 1 \in DOMAIN th[c].pack
           /\ Policy(c) = th[c].pack[Dealt(th[c].pack, th[c].todo) + 1].name
           /\ Head(th[c].todo) = th[c].pack[Dealt(th[c].pack, th[c].todo) + 1]
           /\ Policy(c) \in Policies
           /\ Doubtful(Head(th[c].todo)) => excused[c]
           /\ \A m \in 1..Dealt(th[c].pack, th[c].todo) : th[c].pack[m].name # Policy(c)
<1> DEFINE pack == th[c].pack
           todo == th[c].todo
           n == Dealt(pack, todo) + 1
<1>1. IsPack(pack) /\ IsRest(todo, pack) /\ pack \in Seq(ToSet(pack))
  BY DEF PackOK, IsPack
<1>2. /\ n \in 1..Len(pack) /\ Head(todo) = pack[n] /\ DOMAIN pack = 1..Len(pack)
      /\ Dealt(pack, todo) \in Nat /\ Len(pack) \in Nat
  <2> HIDE DEF pack, todo
  <2> QED
    BY <1>1, RestTail DEF n
<1>3. pack[n].name \in Policies
  BY <1>1, <1>2 DEF IsPack
<1>4. Doubtful(pack[n]) => excused[c]
  BY <1>2 DEF PackOK
<1>5. ASSUME NEW m \in 1..Dealt(pack, todo) PROVE pack[m].name # pack[n].name
  <2>1. m \in DOMAIN pack /\ n \in DOMAIN pack /\ m # n
    BY <1>2
  <2> QED
    BY <1>1, <2>1 DEF IsPack
<1> QED
  BY <1>2, <1>3, <1>4, <1>5 DEF Policy

\* What is asked of a thread about its pack does not depend on how far it is.
LEMMA SamePack ==
    ASSUME NEW s, NEW t, DOMAIN s = PackFields, DOMAIN t = PackFields, t.pack = s.pack,
           s.pc # "configure"
    PROVE  (HasNumber(s) => HasNumber(t)) /\ (NeedsLibrary(s) => NeedsLibrary(t))
BY DEF HasNumber, NeedsLibrary, PackFields

--------------------------------------------------------------------------------
(* What the helpers of the actions do to the threads.                            *)

OthersStay(c) == DOMAIN th' = Callers /\ \A d \in Callers \ {c} : th'[d] = th[d]

\* Something may have failed in the call of c.
Excusing(c) ==
    /\ excused' \in [Callers -> BOOLEAN]
    /\ \A d \in Callers \ {c} : excused'[d] = excused[d]
    /\ excused[c] => excused'[c]

\* The thread is idle and has answered.
Answered(c, ok) ==
    /\ th'[c] = Idle
    /\ done'[c] = IF ok THEN "ok" ELSE "refused"

\* The thread goes on with the next policy.
GoesOn(c, good) ==
    LET s == th[c]
        t == th'[c] IN
    /\ DOMAIN t = PackFields
    /\ t.pc = "start" /\ t.pack = s.pack /\ t.todo = Tail(s.todo) /\ Tail(s.todo) # <<>>
    /\ t.conf = Head(Tail(s.todo)).conf
    /\ t.good = good /\ t.seen = s.seen

LEMMA OthersTell ==
    ASSUME NEW c \in Callers, OthersStay(c), TellsOf(c)
    PROVE  Tells
BY DEF OthersStay, Tells, TellsOf

LEMMA AnswerFacts ==
    ASSUME NEW c \in Callers, NEW ok \in BOOLEAN, AnswersOK, Answer(c, ok), Excusing(c)
    PROVE  OthersStay(c) /\ AnswersOK' /\ Answered(c, ok)
<1>1. DOMAIN th = Callers /\ done \in [Callers -> Answers]
  BY DEF AnswersOK
<1>2. th' = [th EXCEPT ![c] = Idle] /\ done' = [done EXCEPT ![c] = IF ok THEN "ok" ELSE "refused"]
  BY DEF Answer
<1>3. (IF ok THEN "ok" ELSE "refused") \in Answers
  BY DEF Answers
<1>4. DOMAIN th' = Callers /\ done' \in [Callers -> Answers] /\ excused' \in [Callers -> BOOLEAN]
  BY <1>1, <1>2, <1>3 DEF Excusing
<1>5. OthersStay(c) /\ Answered(c, ok)
  BY <1>1, <1>2 DEF OthersStay, Answered
<1> QED
  BY <1>4, <1>5 DEF AnswersOK

LEMMA MoveFacts ==
    ASSUME NEW c \in Callers, NEW next, AnswersOK, th' = [th EXCEPT ![c] = next],
           done' = done, Excusing(c)
    PROVE  OthersStay(c) /\ AnswersOK' /\ th'[c] = next
BY DEF AnswersOK, OthersStay, Excusing

LEMMA FinishFacts ==
    ASSUME NEW c \in Callers, NEW ok \in BOOLEAN, AnswersOK, PackOK(c), FinishPolicy(c, ok),
           Excusing(c)
    PROVE  /\ OthersStay(c) /\ AnswersOK'
           /\ \/ /\ Answered(c, th[c].good /\ ok)
                 /\ th[c].good /\ ok => Tail(th[c].todo) = <<>>
              \/ GoesOn(c, th[c].good /\ ok)
<1> DEFINE s == th[c]
           rest == Tail(s.todo)
           good == s.good /\ ok
           next == [s EXCEPT !.pc = "start", !.todo = rest, !.conf = rest[1].conf,
                             !.good = good, !.kept = {}]
<1>1. DOMAIN s = PackFields /\ IsPack(s.pack) /\ IsRest(s.todo, s.pack)
  BY DEF PackOK
<1>2. rest # <<>> => rest[1] = Head(rest)
  <2> DEFINE pack == s.pack
             todo == s.todo
  <2>1. IsRest(todo, pack) /\ pack \in Seq(ToSet(pack))
    BY <1>1 DEF IsPack
  <2> HIDE DEF pack, todo
  <2>2. Tail(todo) # <<>> => Tail(todo)[1] = Head(Tail(todo))
    BY <2>1, RestTail
  <2> QED
    BY <2>2 DEF todo
<1>3. CASE rest = <<>> \/ (s.by = "js" /\ ~ok)
  <2>1. Answer(c, good) /\ good \in BOOLEAN
    BY <1>3 DEF FinishPolicy
  <2>2. good => rest = <<>>
    BY <1>3
  <2> HIDE DEF good
  <2>3. OthersStay(c) /\ AnswersOK' /\ Answered(c, good)
    BY <2>1, AnswerFacts
  <2> QED
    BY <2>2, <2>3 DEF good
<1>4. CASE ~(rest = <<>> \/ (s.by = "js" /\ ~ok))
  <2>1. th' = [th EXCEPT ![c] = next] /\ done' = done
    <3>1. th' = [th EXCEPT ![c] = [@ EXCEPT !.pc = "start", !.todo = rest, !.conf = rest[1].conf,
                                              !.good = good, !.kept = {}]] /\ done' = done
      BY <1>4 DEF FinishPolicy
    <3>2. c \in DOMAIN th
      BY DEF AnswersOK
    <3> QED
      BY <3>1, <3>2
  <2>2. /\ DOMAIN next = PackFields /\ next.pc = "start" /\ next.pack = s.pack /\ next.todo = rest
        /\ next.conf = rest[1].conf /\ next.good = good /\ next.seen = s.seen
    BY <1>1 DEF PackFields
  <2> HIDE DEF next
  <2>3. OthersStay(c) /\ AnswersOK' /\ th'[c] = next
    BY <2>1, MoveFacts
  <2>4. GoesOn(c, good)
    BY <2>2, <2>3, <1>2, <1>4 DEF GoesOn
  <2> QED
    BY <2>3, <2>4
<1> QED
  BY <1>3, <1>4

--------------------------------------------------------------------------------
(* Where a policy is done, and the thread answers or goes on.                    *)

\* What a step of a thread that sets policies may do to what is excused and to errno.
Side(c) ==
    /\ Excusing(c)
    /\ range' \subseteq Callers /\ \A d \in Callers \ {c} : d \in range => d \in range'
    /\ Policy(c) # "crash" /\ c \in range => c \in range'
    /\ faults' \in Nat

\* Why the policy at hand is refused.
Why(c) ==
    \/ excused'[c]
    \/ ~library /\ NeedsLibrary(th[c])
    \/ c \in range /\ c \in range' /\ HasNumber(th[c]) /\ Policy(c) = "crash"

\* A reason stays one, in the thread as it is after the step.
LEMMA ReasonStays ==
    ASSUME NEW c \in Callers, PackOK(c), Side(c), library' = library, th[c].pc # "configure",
           DOMAIN th'[c] = PackFields, th'[c].pack = th[c].pack,
           LET m == Dealt(th[c].pack, th[c].todo)
               n == Dealt(th'[c].pack, th'[c].todo) IN
           /\ n \in Nat /\ n >= m
           /\ Reason(c, m) \/ (Why(c) /\ n > m)
    PROVE  Reason(c, Dealt(th[c].pack, th[c].todo))'
<1> DEFINE m == Dealt(th[c].pack, th[c].todo)
           n == Dealt(th'[c].pack, th'[c].todo)
<1>1. /\ m + 1 \in DOMAIN th[c].pack /\ Policy(c) = th[c].pack[m + 1].name
      /\ \A k \in 1..m : th[c].pack[k].name # Policy(c)
  BY PolicyOfPack
<1>2. m \in Nat
  <2> DEFINE pack == th[c].pack
             todo == th[c].todo
  <2>1. IsRest(todo, pack) /\ pack \in Seq(ToSet(pack))
    BY DEF PackOK, IsPack
  <2> HIDE DEF pack, todo
  <2>2. Dealt(pack, todo) \in Nat
    BY <2>1, RestTail
  <2> QED
    BY <2>2 DEF pack, todo
<1>3. (HasNumber(th[c]) => HasNumber(th'[c])) /\ (NeedsLibrary(th[c]) => NeedsLibrary(th'[c]))
  BY SamePack DEF PackOK
<1>4. n \in Nat /\ n >= m /\ (Reason(c, m) \/ (Why(c) /\ n > m))
  OBVIOUS
<1>5. (\/ excused'[c]
       \/ ~library' /\ NeedsLibrary(th'[c])
       \/ c \in range' /\ HasNumber(th'[c]) /\ \E k \in 1..n : th'[c].pack[k].name = "crash")
      => Reason(c, Dealt(th[c].pack, th[c].todo))'
  BY DEF Reason
<1> HIDE DEF m, n
<1>6. CASE Reason(c, m)
  <2>1. CASE excused[c] \/ (~library /\ NeedsLibrary(th[c]))
    BY <1>3, <1>5, <2>1 DEF Side, Excusing
  <2>2. CASE c \in range /\ HasNumber(th[c]) /\ \E k \in 1..m : th[c].pack[k].name = "crash"
    <3>1. Policy(c) # "crash"
      BY <1>1, <2>2
    <3>2. c \in range'
      BY <2>2, <3>1 DEF Side
    <3>3. \E k \in 1..n : th'[c].pack[k].name = "crash"
      BY <1>2, <1>4, <2>2
    <3> QED
      BY <1>3, <1>5, <2>2, <3>2, <3>3
  <2> QED
    BY <1>6, <2>1, <2>2 DEF Reason
<1>7. CASE Why(c) /\ n > m
  <2>1. CASE excused'[c] \/ (~library /\ NeedsLibrary(th[c]))
    BY <1>3, <1>5, <2>1
  <2>2. CASE c \in range' /\ HasNumber(th[c]) /\ Policy(c) = "crash"
    <3>1. m + 1 \in 1..n
      BY <1>2, <1>4, <1>7
    <3>2. th'[c].pack[m + 1].name = "crash"
      BY <1>1, <2>2
    <3> QED
      BY <1>3, <1>5, <2>2, <3>1, <3>2
  <2> QED
    BY <1>7, <2>1, <2>2 DEF Why
<1> QED
  BY <1>4, <1>6, <1>7

LEMMA FinishKeeps ==
    ASSUME NEW c \in Callers, NEW ok \in BOOLEAN, AnswersOK, PackOK(c), FinishPolicy(c, ok),
           th[c].pc # "configure", library' = library, Side(c), ok \/ Why(c)
    PROVE  /\ OthersStay(c) /\ AnswersOK'
           /\ CallOK(c)' /\ th'[c].pc \in {"idle", "start"}
           /\ th'[c].pc = "idle" /\ done'[c] = "refused" =>
                \/ excused'[c]
                \/ c \in range /\ HasNumber(th[c])
                \/ ~library /\ NeedsLibrary(th[c])
<1> DEFINE s == th[c]
           good == s.good /\ ok
           t == th'[c]
           m == Dealt(s.pack, s.todo)
<1>1. /\ DOMAIN s = PackFields /\ IsPack(s.pack) /\ IsRest(s.todo, s.pack)
      /\ s.seen \in BOOLEAN /\ s.good \in BOOLEAN
      /\ (\E n \in DOMAIN s.pack : Doubtful(s.pack[n])) => excused'[c]
      /\ s.good \/ Reason(c, m)
  BY DEF PackOK, Side, Excusing
<1>2. good \in BOOLEAN /\ (good \/ Reason(c, m) \/ Why(c))
  BY <1>1
<1>3. /\ OthersStay(c) /\ AnswersOK'
      /\ Answered(c, good) \/ GoesOn(c, good)
  BY FinishFacts DEF Side
<1>4. CASE Answered(c, good)
  <2>1. th'[c] = Idle /\ th'[c].pc = "idle" /\ (done'[c] = "refused" => ~good)
    BY <1>4 DEF Answered, Idle
  <2>2. CallOK(c)'
    BY <2>1 DEF CallOK, PolicyPcs, ProcessorPcs
  <2> HIDE DEF good
  <2>3. ~good => \/ excused'[c]
                 \/ c \in range /\ HasNumber(th[c])
                 \/ ~library /\ NeedsLibrary(th[c])
    BY <1>2 DEF Reason, Why, Side, Excusing
  <2> QED
    BY <2>1, <2>2, <2>3, <1>3
<1>5. CASE GoesOn(c, good)
  <2>1. /\ DOMAIN t = PackFields
        /\ t.pc = "start" /\ t.pack = s.pack /\ t.todo = Tail(s.todo) /\ Tail(s.todo) # <<>>
        /\ t.conf = Head(t.todo).conf
        /\ t.good = good /\ t.seen = s.seen
    BY <1>5 DEF GoesOn
  <2>2. IsRest(t.todo, t.pack) /\ Dealt(t.pack, t.todo) = m + 1 /\ m \in Nat
    <3> DEFINE pack == s.pack
               todo == s.todo
    <3>1. IsRest(todo, pack) /\ pack \in Seq(ToSet(pack)) /\ Tail(todo) # <<>>
      BY <1>1, <2>1 DEF IsPack
    <3> HIDE DEF pack, todo
    <3>2. IsRest(Tail(todo), pack) /\ Dealt(pack, Tail(todo)) = Dealt(pack, todo) + 1
          /\ Dealt(pack, todo) \in Nat
      BY <3>1, RestTail
    <3> QED
      BY <3>2, <2>1 DEF pack, todo
  <2>3. ItemsLeft(t.pc, t.conf, Head(t.todo))
    BY <2>1 DEF ItemsLeft
  <2>4. t.good \/ Reason(c, Dealt(th[c].pack, th[c].todo))'
    <3>1. t.good \in BOOLEAN /\ (t.good \/ Reason(c, m) \/ Why(c))
      BY <1>2, <2>1
    <3>2. Dealt(t.pack, t.todo) \in Nat /\ Dealt(t.pack, t.todo) > m /\ Dealt(t.pack, t.todo) >= m
      BY <2>2
    <3> QED
      BY <2>1, <3>1, <3>2, ReasonStays
  <2>5. PackOK(c)'
    <3> HIDE DEF t, s
    <3>1. /\ (\E n \in DOMAIN t.pack : Doubtful(t.pack[n])) => excused'[c]
          /\ t.seen \in BOOLEAN /\ t.good \in BOOLEAN
          /\ IsPack(t.pack)
      BY <2>1, <1>1, <1>2
    <3> QED
      BY <2>1, <3>1, <2>2, <2>3, <2>4 DEF PackOK, t
  <2>6. CallOK(c)'
    BY <2>1, <2>5 DEF CallOK, PolicyPcs, ProcessorPcs
  <2> QED
    BY <2>1, <2>6, <1>3
<1> QED
  BY <1>3, <1>4, <1>5

\* What setting the policy p may change, and what it leaves of the others.
Touches(p, k) ==
    \/ k = p.name
    \/ k \in {"refined", "heap"} /\ p.name = "overlimit"
    \/ k = "minidump" /\ p.name = "crash"
OnlyTouched(p) == \A k \in Keys : stored'[k] = stored[k] \/ Touches(p, k)

LEMMA SavedStays ==
    ASSUME NEW p, NEW q, NEW failed \in BOOLEAN, NEW failing \in BOOLEAN, failed => failing,
           Saved(stored, run, q, failed), OnlyTouched(p), run' = run, p.name \in Policies,
           q.name \in Policies, p.name # q.name
    PROVE  Saved(stored', run', q, failing)
<1>1. q.name \in Keys => stored'[q.name] = stored[q.name]
  BY DEF OnlyTouched, Touches, Switches, Keys, Policies
<1>2. q.name = "overlimit" => stored'["refined"] = stored["refined"] /\ stored'["heap"] = stored["heap"]
  BY DEF OnlyTouched, Touches, Switches, Keys, Policies
<1>3. q.name = "crash" => stored'["minidump"] = stored["minidump"]
  BY DEF OnlyTouched, Touches, Switches, Keys, Policies
<1> QED
  BY <1>1, <1>2, <1>3 DEF Saved, Kept, KeptDump, Keys, Switches

LEMMA FinishSaves ==
    ASSUME NEW c \in Callers, NEW ok \in BOOLEAN, AnswersOK, PackOK(c), FinishPolicy(c, ok),
           Excusing(c), run' = run, th[c].pc \in PolicyPcs, SavedBy(c),
           OnlyTouched(Head(th[c].todo)),
           th[c].good /\ ok => Saved(stored', run', Head(th[c].todo), excused'[c])
    PROVE  /\ SavedBy(c)'
           /\ th'[c].pc = "idle" /\ done'[c] = "ok" => SavedIn(stored', th[c].pack, excused'[c])
<1> DEFINE s == th[c]
           good == s.good /\ ok
           t == th'[c]
           m == Dealt(s.pack, s.todo)
<1>1. IsPack(s.pack) /\ IsRest(s.todo, s.pack) /\ s.good \in BOOLEAN
  BY DEF PackOK
<1>2. /\ Answered(c, good) /\ (good => Tail(s.todo) = <<>>)
      \/ GoesOn(c, good)
  BY FinishFacts
<1>3. /\ m \in Nat /\ m + 1 \in DOMAIN s.pack /\ Head(s.todo) = s.pack[m + 1]
      /\ DOMAIN s.pack = 1..Len(s.pack) /\ Len(s.pack) \in Nat
      /\ Tail(s.todo) = <<>> => m + 1 = Len(s.pack)
      /\ Tail(s.todo) # <<>> => Dealt(s.pack, Tail(s.todo)) = m + 1
  <2> DEFINE pack == s.pack
             todo == s.todo
  <2>1. IsRest(todo, pack) /\ pack \in Seq(ToSet(pack))
    BY <1>1 DEF IsPack
  <2> HIDE DEF pack, todo
  <2>2. /\ Dealt(pack, todo) \in Nat /\ Dealt(pack, todo) + 1 \in DOMAIN pack
        /\ Head(todo) = pack[Dealt(pack, todo) + 1]
        /\ DOMAIN pack = 1..Len(pack) /\ Len(pack) \in Nat
        /\ Tail(todo) = <<>> => Dealt(pack, todo) + 1 = Len(pack)
        /\ Tail(todo) # <<>> => Dealt(pack, Tail(todo)) = Dealt(pack, todo) + 1
    BY <2>1, RestTail
  <2> QED
    BY <2>2 DEF pack, todo
<1>4. excused[c] \in BOOLEAN /\ excused'[c] \in BOOLEAN /\ (excused[c] => excused'[c])
  BY DEF AnswersOK, Excusing
<1>5. ASSUME good, NEW n \in 1..(m + 1) PROVE Saved(stored', run', s.pack[n], excused'[c])
  <2>1. CASE n = m + 1
    BY <1>3, <1>5, <2>1
  <2>2. CASE n # m + 1
    <3>1. n \in 1..m /\ n \in DOMAIN s.pack
      BY <1>3, <2>2
    <3>2. Saved(stored, run, s.pack[n], excused[c])
      BY <3>1, <1>5 DEF SavedBy
    <3>3. /\ s.pack[n].name # s.pack[m + 1].name
          /\ s.pack[n].name \in Policies /\ s.pack[m + 1].name \in Policies
      BY <1>1, <1>3, <2>2, <3>1 DEF IsPack
    <3>4. OnlyTouched(s.pack[m + 1])
      BY <1>3
    <3> QED
      BY <1>4, <3>2, <3>3, <3>4, SavedStays
  <2> QED
    BY <2>1, <2>2
<1>6. CASE Answered(c, good) /\ (good => Tail(s.todo) = <<>>)
  <2>1. t.pc = "idle" /\ (done'[c] = "ok" => good)
    BY <1>6 DEF Answered, Idle
  <2>2. SavedBy(c)'
    BY <2>1 DEF SavedBy, PolicyPcs
  <2>3. ASSUME good PROVE SavedIn(stored', s.pack, excused'[c])
    <3>1. \A n \in DOMAIN s.pack : Saved(stored', run', s.pack[n], excused'[c])
      BY <1>3, <1>5, <1>6, <2>3
    <3> HIDE DEF s
    <3> QED
      BY <3>1 DEF SavedIn, Saved, Kept, KeptDump
  <2> QED
    BY <2>1, <2>2, <2>3
<1>7. CASE GoesOn(c, good)
  <2>1. /\ t.pc = "start" /\ t.pack = s.pack /\ t.todo = Tail(s.todo) /\ Tail(s.todo) # <<>>
        /\ t.good = good
    BY <1>7 DEF GoesOn
  <2>2. Dealt(t.pack, t.todo) = m + 1
    BY <1>3, <2>1
  <2>3. t.good => \A n \in 1..Dealt(t.pack, t.todo) : Saved(stored', run', t.pack[n], excused'[c])
    BY <1>5, <2>1, <2>2
  <2>4. SavedBy(c)'
    <3>1. t.good => \A n \in 1..Dealt(t.pack, t.todo) :
                        Saved(stored', run', th'[c].pack[n], excused'[c])
      BY <2>3
    <3>2. SavedUpTo(t.pc, stored', run', Head(t.todo), excused'[c])
      BY <2>1 DEF SavedUpTo
    <3> QED
      BY <3>1, <3>2, <2>1 DEF SavedBy
  <2> QED
    BY <2>1, <2>4
<1> QED
  BY <1>2, <1>6, <1>7

--------------------------------------------------------------------------------
(* What stays true of everything else while one thread takes a step.             *)

LEMMA OtherCall ==
    ASSUME NEW d \in Callers, CallOK(d), th'[d] = th[d], excused'[d] = excused[d],
           d \in range => d \in range', library' = library
    PROVE  CallOK(d)'
<1>1. ASSUME PackOK(d) PROVE PackOK(d)'
  <2>1. Reason(d, Dealt(th[d].pack, th[d].todo)) => Reason(d, Dealt(th[d].pack, th[d].todo))'
    BY DEF Reason
  <2> QED
    BY <1>1, <2>1 DEF PackOK
<1>2. ASSUME ConfigureOK(d) PROVE ConfigureOK(d)'
  BY <1>2 DEF ConfigureOK
<1>3. ASSUME LoadOK(d) PROVE LoadOK(d)'
  BY <1>3 DEF LoadOK, RangeOK
<1> QED
  BY <1>1, <1>2, <1>3 DEF CallOK

LEMMA OtherCalls ==
    ASSUME IInv, NEW c \in Callers, OthersStay(c), \A d \in Callers \ {c} : excused'[d] = excused[d],
           \A d \in Callers \ {c} : d \in range => d \in range', library' = library, CallOK(c)'
    PROVE  \A d \in Callers : CallOK(d)'
<1> SUFFICES ASSUME NEW d \in Callers, d # c PROVE CallOK(d)'
  OBVIOUS
<1>1. CallOK(d) /\ th'[d] = th[d] /\ excused'[d] = excused[d] /\ (d \in range => d \in range')
  BY DEF IInv, OthersStay
<1> QED
  BY <1>1, OtherCall

LEMMA StillAlone ==
    ASSUME AloneOK, NEW c \in Callers, th[c].pc # "idle", OthersStay(c), os' = os
    PROVE  AloneOK' /\ os.pc = "idle" /\ \A d \in Callers \ {c} : th'[d].pc = "idle"
<1>1. Busy = {c}
  BY DEF AloneOK, Busy
<1>2. os.pc = "idle"
  BY <1>1 DEF AloneOK
<1>3. \A d \in Callers \ {c} : th'[d].pc = "idle"
  BY <1>1 DEF Busy, OthersStay
<1> QED
  BY <1>2, <1>3 DEF AloneOK, Busy

PolicyUnchanged ==
    UNCHANGED <<run, library, built, config, processorVars, osVars, calls, overlap>>

\* A step of one thread that is setting policies.
PolicyFrame(c) ==
    /\ OthersStay(c) /\ Side(c) /\ PolicyUnchanged
    /\ th'[c].pc \in PolicyPcs \cup {"idle"}

LEMMA PolicyStepKeeps ==
    ASSUME IInv, NEW c \in Callers, th[c].pc \in PolicyPcs, PolicyFrame(c), AnswersOK', CallOK(c)',
           StoredOK', status' \in BOOLEAN, dump' \in BOOLEAN, ~library => ~dump',
           DOMAIN mine' = Switches, overtaken' \subseteq Switches, astray' \subseteq {"status", "dump"},
           OwnSettingsStay',
           \A s \in Switches : MayBeRemoving(s) /\ (s \in overtaken \/ mine[s] = "none") =>
                s \in overtaken' \/ mine'[s] = "none",
           ~overlap /\ AloneOK => StatusOK' /\ DumpOK' /\ SavedBy(c)'
    PROVE  IInv'
<1>1. /\ OthersStay(c) /\ Excusing(c) /\ range' \subseteq Callers /\ faults' \in Nat
      /\ \A d \in Callers \ {c} : d \in range => d \in range'
      /\ UNCHANGED <<run, library, built, config, processorVars, osVars, calls, overlap>>
  BY DEF PolicyFrame, PolicyUnchanged, Side
<1>2. RestOK'
  <2>1. RestOK
    BY DEF IInv
  <2>2. /\ run' = run /\ library' = library /\ built' = built /\ config' = config /\ loaded' = loaded
        /\ registered' = registered /\ added' = added /\ crossed' = crossed /\ sent' = sent
        /\ calls' = calls /\ overlap' = overlap
    BY <1>1 DEF processorVars, osVars
  <2> QED
    BY <1>1, <2>1, <2>2 DEF RestOK
<1>3. \A d \in Callers : CallOK(d)'
  BY <1>1, OtherCalls DEF Excusing
<1>4. OsOK'
  BY <1>1 DEF IInv, OsOK, osVars, MayBeRemoving
<1>5. Calm'
  <2> SUFFICES ASSUME ~overlap' PROVE (AloneOK /\ StatusOK /\ DumpOK /\ SavedOK /\ InForceOK)'
    BY DEF Calm
  <2>1. ~overlap /\ AloneOK /\ os' = os /\ OthersStay(c)
    BY <1>1 DEF IInv, Calm, osVars
  <2>2. th[c].pc # "idle"
    BY DEF PolicyPcs
  <2>3. AloneOK' /\ \A d \in Callers \ {c} : th'[d].pc = "idle"
    BY <2>1, <2>2, StillAlone
  <2>4. SavedOK'
    BY <2>1, <2>3 DEF SavedOK, SavedBy, PolicyPcs
  <2>5. InForceOK'
    BY <2>3 DEF InForceOK, At, PolicyFrame, PolicyPcs
  <2> QED
    BY <2>1, <2>3, <2>4, <2>5
<1>6. ConfigsAreInRange'
  BY <1>1 DEF IInv, ConfigsAreInRange, processorVars
<1>7. RegisteredOK'
  BY <1>1 DEF IInv, RegisteredOK, PolicyFrame, processorVars, OthersStay, At, PolicyPcs
<1> QED
  BY <1>2, <1>3, <1>4, <1>5, <1>6, <1>7 DEF IInv

LEMMA SavedConfig ==
    ASSUME StoredOK, NEW k \in Keys, NEW r \in {0, run}, NEW v, SaveEventConfig(k, r, v),
           run' = run, run \in Nat
    PROVE  /\ StoredOK'
           /\ stored'[k] = [run |-> r, value |-> v]
           /\ \A j \in Keys \ {k} : stored'[j] = stored[j]
<1>1. DOMAIN stored = Keys /\ stored' = [stored EXCEPT ![k] = [run |-> r, value |-> v]]
  BY DEF StoredOK, SaveEventConfig
<1>2. DOMAIN stored' = Keys /\ stored'[k] = [run |-> r, value |-> v]
      /\ \A j \in Keys \ {k} : stored'[j] = stored[j]
  BY <1>1
<1>3. stored'[k].run = r /\ stored'[k].value = v
  BY <1>2
<1>4. \A j \in Keys : stored'[j].run \in 0..run'
  BY <1>2, <1>3 DEF StoredOK
<1>5. \A j \in Keys : stored'[j] = [run |-> stored'[j].run, value |-> stored'[j].value]
  BY <1>2, <1>3 DEF StoredOK
<1> QED
  BY <1>2, <1>4, <1>5 DEF StoredOK

LEMMA StoredStays ==
    ASSUME StoredOK, stored' = stored, run' = run
    PROVE  StoredOK' /\ \A k \in Keys : stored'[k] = stored[k]
BY DEF StoredOK

\* A step that stores no switch.
LEMMA SwitchesStay ==
    ASSUME OwnSettingsStay, \A s \in Switches : stored'[s] = stored[s],
           run' = run, mine' = mine, overtaken' = overtaken
    PROVE  /\ OwnSettingsStay'
           /\ CurSysPageSwitchStatus' <=> CurSysPageSwitchStatus
BY DEF OwnSettingsStay, CurSysPageSwitchStatus

--------------------------------------------------------------------------------
(* The steps of a thread that sets policies.                                     *)

LEMMA AtPolicy ==
    ASSUME IInv, NEW c \in Callers, th[c].pc \in PolicyPcs
    PROVE  /\ PackOK(c) /\ AnswersOK /\ StoredOK /\ OwnSettingsStay
           /\ faults \in Nat /\ run \in Nat /\ status \in BOOLEAN /\ dump \in BOOLEAN
           /\ library \in BOOLEAN /\ (~library => ~dump) /\ range \subseteq Callers
           /\ overtaken \subseteq Switches /\ DOMAIN mine = Switches
           /\ astray \subseteq {"status", "dump"}
           /\ ItemsLeft(th[c].pc, th[c].conf, Head(th[c].todo))
           /\ Policy(c) = Head(th[c].todo).name /\ Policy(c) \in Policies
           /\ Doubtful(Head(th[c].todo)) => excused[c]
<1>1. PackOK(c)
  BY DEF IInv, CallOK
<1>2. Policy(c) \in Policies /\ (Doubtful(Head(th[c].todo)) => excused[c])
  BY <1>1, PolicyOfPack
<1>3. ItemsLeft(th[c].pc, th[c].conf, Head(th[c].todo))
  BY <1>1 DEF PackOK
<1> QED
  BY <1>1, <1>2, <1>3 DEF IInv, RestOK, Policy

\* As long as nothing overlapped, the thread is alone, and what it left is right.
LEMMA AloneFacts ==
    ASSUME IInv, ~overlap, NEW c \in Callers, th[c].pc # "idle"
    PROVE  /\ \A d \in Callers \ {c} : th[d].pc = "idle"
           /\ os.pc = "idle" /\ AloneOK
           /\ "status" \notin astray =>
                /\ th[c].pc \notin {"status", "set"} => (status <=> CurSysPageSwitchStatus)
                /\ th[c].pc = "set" => (th[c].seen <=> CurSysPageSwitchStatus)
           /\ DumpOf(th[c])
           /\ th[c].pc # "apply" /\ built /\ "dump" \notin astray => DumpStored
           /\ SavedBy(c)
<1>1. AloneOK /\ StatusOK /\ DumpOK /\ SavedOK
  BY DEF IInv, Calm
<1>2. (\A d \in Callers \ {c} : th[d].pc = "idle") /\ os.pc = "idle"
  BY <1>1 DEF AloneOK, Busy
<1>3. \A d \in Callers \ {c} : ~Telling(th[d])
  BY <1>2 DEF Telling
<1>4. DumpOf(th[c]) /\ (th[c].pc # "apply" /\ built /\ "dump" \notin astray => DumpStored)
  BY <1>1, <1>3 DEF DumpOK, DumpOf, Telling
<1> QED
  BY <1>1, <1>2, <1>4 DEF StatusOK, SavedOK

LEMMA StatusNow ==
    ASSUME NEW c \in Callers, \A d \in Callers \ {c} : th'[d].pc = "idle",
           "status" \notin astray' =>
               /\ th'[c].pc \notin {"status", "set"} => (status' <=> CurSysPageSwitchStatus')
               /\ th'[c].pc = "set" => (th'[c].seen <=> CurSysPageSwitchStatus')
    PROVE  StatusOK'
<1>1. \A d \in Callers : th'[d].pc = "set" => d = c
  OBVIOUS
<1> QED
  BY <1>1 DEF StatusOK

LEMMA DumpNow ==
    ASSUME NEW c \in Callers, \A d \in Callers \ {c} : th'[d].pc = "idle",
           th'[c].pc = "apply" => DumpOf(th[c])',
           th'[c].pc # "apply" /\ built' /\ "dump" \notin astray' => DumpStored'
    PROVE  DumpOK'
<1>1. \A d \in Callers \ {c} : ~Telling(th[d])'
  BY DEF Telling
<1>2. DumpOf(th[c])'
  BY DEF DumpOf, Telling
<1> QED
  BY <1>1, <1>2 DEF DumpOK, DumpOf

LEMMA PolicyFinish ==
    ASSUME IInv, NEW c \in Callers, th[c].pc \in PolicyPcs, NEW ok \in BOOLEAN, FinishPolicy(c, ok),
           PolicyUnchanged, mine' = mine, overtaken' = overtaken, astray' \subseteq {"status", "dump"},
           Side(c), ok \/ Why(c),
           StoredOK', \A s \in Switches : stored'[s] = stored[s],
           status' \in BOOLEAN, dump' \in BOOLEAN, ~library => ~dump',
           OnlyTouched(Head(th[c].todo)),
           ~overlap /\ "status" \notin astray' => (status' <=> CurSysPageSwitchStatus),
           ~overlap /\ built /\ "dump" \notin astray' => DumpStored',
           ~overlap /\ th[c].good /\ ok => Saved(stored', run', Head(th[c].todo), excused'[c])
    PROVE  IInv' /\ Tells
<1>1. /\ PackOK(c) /\ AnswersOK /\ OwnSettingsStay
      /\ overtaken' \subseteq Switches /\ DOMAIN mine' = Switches
  BY AtPolicy
<1>2. /\ run' = run /\ built' = built /\ library' = library /\ overlap' = overlap
      /\ Excusing(c) /\ th[c].pc # "configure"
  BY DEF PolicyUnchanged, Side, PolicyPcs
<1>3. /\ OthersStay(c) /\ AnswersOK' /\ CallOK(c)' /\ th'[c].pc \in {"idle", "start"}
      /\ th'[c].pc = "idle" /\ done'[c] = "refused" =>
            \/ excused'[c]
            \/ c \in range /\ HasNumber(th[c])
            \/ ~library /\ NeedsLibrary(th[c])
  BY <1>1, <1>2, FinishKeeps
<1>4. PolicyFrame(c)
  BY <1>3 DEF PolicyFrame, PolicyPcs
<1>5. OwnSettingsStay' /\ (CurSysPageSwitchStatus' <=> CurSysPageSwitchStatus)
  BY <1>1, <1>2, SwitchesStay
<1>6. ASSUME ~overlap
      PROVE  /\ StatusOK' /\ DumpOK' /\ SavedBy(c)'
             /\ th'[c].pc = "idle" /\ done'[c] = "ok" => SavedIn(stored', th[c].pack, excused'[c])
  <2>1. th[c].pc # "idle"
    BY DEF PolicyPcs
  <2>2. SavedBy(c) /\ \A d \in Callers \ {c} : th'[d].pc = "idle"
    BY <1>3, <1>6, <2>1, AloneFacts DEF OthersStay
  <2>3. StatusOK' /\ DumpOK'
    BY <1>2, <1>3, <1>5, <1>6, <2>2, StatusNow, DumpNow
  <2>4. /\ SavedBy(c)'
        /\ th'[c].pc = "idle" /\ done'[c] = "ok" => SavedIn(stored', th[c].pack, excused'[c])
    BY <1>1, <1>2, <1>6, <2>2, FinishSaves
  <2> QED
    BY <2>3, <2>4
<1>7. IInv'
  BY <1>1, <1>3, <1>4, <1>5, <1>6, PolicyStepKeeps
<1>8. TellsOf(c)
  BY <1>3, <1>6 DEF TellsOf, At, PolicyPcs
<1> QED
  BY <1>3, <1>7, <1>8, OthersTell

\* The thread reaches the next stage of the policy it is at.
Advances(c, pc, conf) ==
    LET s == th[c]
        t == th'[c] IN
    /\ DOMAIN t = PackFields
    /\ t.pc = pc /\ t.conf = conf
    /\ t.pack = s.pack /\ t.todo = s.todo /\ t.good = s.good

LEMMA AdvanceKeeps ==
    ASSUME NEW c \in Callers, PackOK(c), NEW pc \in PolicyPcs, NEW conf, Advances(c, pc, conf),
           th[c].pc # "configure", library' = library, Side(c),
           pc = "apply" => th'[c].kept \subseteq RightItems(conf) /\ th'[c].kept # {},
           ItemsLeft(pc, conf, Head(th[c].todo)), th'[c].seen \in BOOLEAN
    PROVE  CallOK(c)'
<1>1. PackOK(c)'
  <2> DEFINE s == th[c]
             t == th'[c]
  <2>1. /\ DOMAIN t = PackFields
        /\ t.pc = pc /\ t.conf = conf
        /\ t.pack = s.pack /\ t.todo = s.todo /\ t.good = s.good
        /\ t.seen \in BOOLEAN
    BY DEF Advances
  <2>2. /\ IsPack(s.pack) /\ IsRest(s.todo, s.pack) /\ s.good \in BOOLEAN
        /\ (\E n \in DOMAIN s.pack : Doubtful(s.pack[n])) => excused'[c]
        /\ s.good \/ Reason(c, Dealt(s.pack, s.todo))
        /\ ItemsLeft(pc, conf, Head(s.todo))
    BY DEF PackOK, Side, Excusing
  <2>3. Dealt(s.pack, s.todo) \in Nat
    <3> DEFINE pack == s.pack
               todo == s.todo
    <3>1. IsRest(todo, pack) /\ pack \in Seq(ToSet(pack))
      BY <2>2 DEF IsPack
    <3> HIDE DEF pack, todo
    <3>2. Dealt(pack, todo) \in Nat
      BY <3>1, RestTail
    <3> QED
      BY <3>2 DEF pack, todo
  <2>4. s.good \/ Reason(c, Dealt(th[c].pack, th[c].todo))'
    <3>1. Dealt(t.pack, t.todo) \in Nat /\ Dealt(t.pack, t.todo) >= Dealt(s.pack, s.todo)
      BY <2>1, <2>3
    <3> QED
      BY <2>1, <2>2, <3>1, ReasonStays
  <2> HIDE DEF s, t
  <2>5. /\ IsPack(t.pack) /\ IsRest(t.todo, t.pack) /\ t.good \in BOOLEAN
        /\ (\E n \in DOMAIN t.pack : Doubtful(t.pack[n])) => excused'[c]
        /\ t.good \/ Reason(c, Dealt(th[c].pack, th[c].todo))'
        /\ ItemsLeft(t.pc, t.conf, Head(t.todo))
    BY <2>1, <2>2, <2>4
  <2>6. t.pc = "apply" => t.kept \subseteq RightItems(t.conf) /\ t.kept # {}
    BY <2>1 DEF t
  <2> QED
    BY <2>1, <2>5, <2>6 DEF PackOK, t
<1> QED
  BY <1>1 DEF CallOK, Advances, PolicyPcs, ProcessorPcs

LEMMA AdvanceSaves ==
    ASSUME NEW c \in Callers, PackOK(c), SavedBy(c), th[c].pc \in PolicyPcs, run' = run,
           NEW pc, NEW conf, Advances(c, pc, conf), OnlyTouched(Head(th[c].todo)),
           AnswersOK, Excusing(c),
           th[c].good => SavedUpTo(pc, stored', run', Head(th[c].todo), excused'[c])
    PROVE  SavedBy(c)'
<1> DEFINE s == th[c]
           t == th'[c]
           m == Dealt(s.pack, s.todo)
<1>1. IsPack(s.pack) /\ m + 1 \in DOMAIN s.pack /\ Head(s.todo) = s.pack[m + 1]
      /\ m \in Nat /\ DOMAIN s.pack = 1..Len(s.pack) /\ Len(s.pack) \in Nat
  <2> DEFINE pack == s.pack
             todo == s.todo
  <2>1. IsPack(pack) /\ IsRest(todo, pack) /\ pack \in Seq(ToSet(pack))
    BY DEF IsPack, PackOK
  <2> HIDE DEF pack, todo
  <2>2. /\ Dealt(pack, todo) \in Nat /\ Dealt(pack, todo) + 1 \in DOMAIN pack
        /\ Head(todo) = pack[Dealt(pack, todo) + 1]
        /\ DOMAIN pack = 1..Len(pack) /\ Len(pack) \in Nat
    BY <2>1, RestTail
  <2> QED
    BY <2>1, <2>2 DEF pack, todo
<1>2. excused[c] \in BOOLEAN /\ excused'[c] \in BOOLEAN /\ (excused[c] => excused'[c])
  BY DEF AnswersOK, Excusing
<1>3. ASSUME s.good, NEW n \in 1..m PROVE Saved(stored', run', s.pack[n], excused'[c])
  <2>1. n \in DOMAIN s.pack /\ n # m + 1
    BY <1>1
  <2>2. Saved(stored, run, s.pack[n], excused[c])
    BY <1>3 DEF SavedBy
  <2>3. /\ s.pack[n].name # s.pack[m + 1].name
        /\ s.pack[n].name \in Policies /\ s.pack[m + 1].name \in Policies
    BY <1>1, <2>1 DEF IsPack
  <2>4. OnlyTouched(s.pack[m + 1])
    BY <1>1
  <2> QED
    BY <1>2, <2>2, <2>3, <2>4, SavedStays
<1>4. t.pc = pc /\ t.pack = s.pack /\ t.todo = s.todo /\ t.good = s.good
  BY DEF Advances
<1> QED
  BY <1>3, <1>4 DEF SavedBy

LEMMA PolicyAdvance ==
    ASSUME IInv, NEW c \in Callers, th[c].pc \in PolicyPcs, NEW pc \in PolicyPcs, NEW conf,
           OthersStay(c), AnswersOK', Advances(c, pc, conf), th'[c].seen \in BOOLEAN,
           PolicyUnchanged, mine' = mine, overtaken' = overtaken, astray' \subseteq {"status", "dump"},
           Side(c), pc = "apply" => th'[c].kept \subseteq RightItems(conf) /\ th'[c].kept # {},
           StoredOK', \A s \in Switches : stored'[s] = stored[s],
           status' \in BOOLEAN, dump' = dump,
           OnlyTouched(Head(th[c].todo)), ItemsLeft(pc, conf, Head(th[c].todo)),
           ~overlap /\ "status" \notin astray' =>
             /\ pc \notin {"status", "set"} => (status' <=> CurSysPageSwitchStatus)
             /\ pc = "set" => (th'[c].seen <=> CurSysPageSwitchStatus),
           ~overlap /\ pc = "apply" => DumpOf(th[c])',
           ~overlap /\ pc # "apply" /\ built /\ "dump" \notin astray' => DumpStored',
           ~overlap /\ th[c].good => SavedUpTo(pc, stored', run', Head(th[c].todo), excused'[c])
    PROVE  IInv' /\ Tells
<1>1. /\ PackOK(c) /\ AnswersOK /\ OwnSettingsStay /\ dump' \in BOOLEAN /\ (~library => ~dump')
      /\ overtaken' \subseteq Switches /\ DOMAIN mine' = Switches
  BY AtPolicy
<1>2. /\ run' = run /\ built' = built /\ library' = library /\ overlap' = overlap
      /\ Excusing(c) /\ th[c].pc # "configure"
  BY DEF PolicyUnchanged, Side, PolicyPcs
<1>3. CallOK(c)' /\ th'[c].pc = pc /\ th'[c].conf = conf
  BY <1>1, <1>2, AdvanceKeeps DEF Advances
<1>4. PolicyFrame(c)
  BY <1>3 DEF PolicyFrame
<1>5. OwnSettingsStay' /\ (CurSysPageSwitchStatus' <=> CurSysPageSwitchStatus)
  BY <1>1, <1>2, SwitchesStay
<1>6. ASSUME ~overlap PROVE StatusOK' /\ DumpOK' /\ SavedBy(c)'
  <2>1. th[c].pc # "idle"
    BY DEF PolicyPcs
  <2>2. SavedBy(c) /\ \A d \in Callers \ {c} : th'[d].pc = "idle"
    BY <1>6, <2>1, AloneFacts DEF OthersStay
  <2>3. StatusOK'
    BY <1>3, <1>5, <1>6, <2>2, StatusNow
  <2>4. DumpOK'
    BY <1>2, <1>3, <1>6, <2>2, DumpNow
  <2>5. SavedBy(c)'
    BY <1>1, <1>2, <1>6, <2>2, AdvanceSaves
  <2> QED
    BY <2>3, <2>4, <2>5
<1>7. IInv'
  BY <1>1, <1>3, <1>4, <1>5, <1>6, PolicyStepKeeps
<1>8. TellsOf(c)
  BY <1>3 DEF TellsOf, PolicyPcs
<1> QED
  BY <1>7, <1>8, OthersTell

LEMMA NothingTouched ==
    ASSUME StoredOK, stored' = stored, run' = run, library' = library, NEW p
    PROVE  /\ StoredOK' /\ OnlyTouched(p)
           /\ \A s \in Switches : stored'[s] = stored[s]
           /\ DumpStored /\ dump' = dump => DumpStored'
BY DEF StoredOK, OnlyTouched, DumpStored

\* An item that is no switch has been stored.
LEMMA ItemTouched ==
    ASSUME StoredOK, run' = run, run \in Nat, library' = library, NEW p,
           NEW k \in Keys \ Switches, NEW r \in {0, run}, NEW v, SaveEventConfig(k, r, v), Touches(p, k)
    PROVE  /\ StoredOK' /\ OnlyTouched(p)
           /\ stored'[k] = [run |-> r, value |-> v]
           /\ \A j \in Keys \ {k} : stored'[j] = stored[j]
           /\ \A s \in Switches : stored'[s] = stored[s]
           /\ k # "minidump" /\ DumpStored /\ dump' = dump => DumpStored'
<1>1. /\ StoredOK' /\ stored'[k] = [run |-> r, value |-> v]
      /\ \A j \in Keys \ {k} : stored'[j] = stored[j]
  BY SavedConfig
<1>2. OnlyTouched(p)
  BY <1>1 DEF OnlyTouched
<1>3. \A s \in Switches : stored'[s] = stored[s]
  BY <1>1 DEF Switches, Keys
<1>4. k # "minidump" /\ DumpStored /\ dump' = dump => DumpStored'
  BY <1>1 DEF DumpStored, Keys
<1> QED
  BY <1>1, <1>2, <1>3, <1>4

LEMMA SideFacts ==
    ASSUME NEW c \in Callers, AnswersOK, faults \in Nat, range \subseteq Callers, range' = range,
           FailIn(c) \/ (excused' = excused /\ (faults' = faults \/ Fault))
    PROVE  Side(c) /\ (FailIn(c) => excused'[c])
<1>1. faults' \in Nat
  BY DEF FailIn, Fault
<1>2. Excusing(c) /\ (FailIn(c) => excused'[c])
  BY DEF AnswersOK, FailIn, Excusing
<1> QED
  BY <1>1, <1>2 DEF Side

\* Goto, of a thread that stays in the pack.
LEMMA GotoAdvances ==
    ASSUME NEW c \in Callers, PackOK(c), AnswersOK, NEW pc, Goto(c, pc), Excusing(c)
    PROVE  /\ OthersStay(c) /\ AnswersOK' /\ Advances(c, pc, th[c].conf)
           /\ th'[c].seen \in BOOLEAN
<1> DEFINE next == [th[c] EXCEPT !.pc = pc]
<1>1. th' = [th EXCEPT ![c] = next] /\ done' = done
  BY DEF Goto, AnswersOK
<1>2. /\ DOMAIN next = PackFields /\ next.pc = pc /\ next.conf = th[c].conf
      /\ next.pack = th[c].pack /\ next.todo = th[c].todo /\ next.good = th[c].good
      /\ next.seen = th[c].seen
  BY DEF PackOK, PackFields
<1> HIDE DEF next
<1>3. OthersStay(c) /\ AnswersOK' /\ th'[c] = next
  BY <1>1, MoveFacts
<1> QED
  BY <1>2, <1>3 DEF Advances, PackOK

LEMMA ConfigPageSwitchStep ==
    ASSUME IInv, NEW c \in Callers, ConfigPageSwitch(c)
    PROVE  IInv' /\ Tells
<1> DEFINE conf == th[c].conf
           p == Head(th[c].todo)
           s == Policy(c)
<1>1. th[c].pc = "start" /\ th[c].pc \in PolicyPcs /\ s \in Switches
  BY DEF ConfigPageSwitch, At, PolicyPcs
<1>2. /\ PackOK(c) /\ AnswersOK /\ StoredOK /\ OwnSettingsStay
      /\ faults \in Nat /\ run \in Nat /\ status \in BOOLEAN /\ dump \in BOOLEAN
      /\ overtaken \subseteq Switches /\ DOMAIN mine = Switches
      /\ (~library => ~dump) /\ range \subseteq Callers /\ astray \subseteq {"status", "dump"}
      /\ ItemsLeft("start", conf, p)
      /\ s = p.name /\ s \in Policies
      /\ Doubtful(p) => excused[c]
  BY <1>1, AtPolicy
<1>3. /\ PolicyUnchanged /\ run' = run /\ library' = library /\ status' = status /\ dump' = dump
      /\ built' = built /\ astray' = astray /\ range' = range
  BY DEF ConfigPageSwitch, PolicyUnchanged, configVars
<1>4. DOMAIN conf = DOMAIN p.conf /\ \A i \in DOMAIN conf : conf[i] = p.conf[i]
  BY <1>2 DEF ItemsLeft
<1>5. ASSUME ~overlap
      PROVE  /\ "status" \notin astray => (status <=> CurSysPageSwitchStatus)
             /\ built /\ "dump" \notin astray => DumpStored
             /\ SavedBy(c)
  BY <1>1, <1>5, AloneFacts
<1>6. CASE ~Has(conf, "switch") /\ UNCHANGED <<stored, mine, overtaken, excused, faults>>
  <2>1. /\ StoredOK' /\ OnlyTouched(p) /\ (\A k \in Switches : stored'[k] = stored[k])
        /\ DumpStored => DumpStored'
    BY <1>2, <1>3, <1>6, NothingTouched
  <2>2. Side(c) /\ Excusing(c) /\ excused' = excused /\ mine' = mine /\ overtaken' = overtaken
    BY <1>2, <1>3, <1>6, SideFacts DEF Side
  <2>3. ~Has(p.conf, "switch") /\ s # "cpu"
    BY <1>1, <1>4, <1>6 DEF Has, Switches
  <2>4. CASE Empty(conf) /\ FinishPolicy(c, TRUE)
    <3>1. Saved(stored', run', p, excused'[c])
      BY <2>4, <1>4 DEF Saved, Kept, KeptDump, Empty, Has
    <3> QED
      BY <1>1, <1>2, <1>3, <1>5, <2>1, <2>2, <2>4, <3>1, PolicyFinish
  <2>5. CASE ~Empty(conf) /\ s \in {"crash", "overlimit"}
             /\ Goto(c, IF s = "crash" THEN "items" ELSE "refined")
    <3> DEFINE pc == IF s = "crash" THEN "items" ELSE "refined"
    <3>1. /\ pc \in {"items", "refined"} /\ pc \in PolicyPcs /\ Goto(c, pc)
          /\ pc = "items" => s = "crash"
          /\ pc = "refined" => s = "overlimit"
      BY <2>5 DEF PolicyPcs
    <3> HIDE DEF pc
    <3>2. /\ OthersStay(c) /\ AnswersOK' /\ Advances(c, pc, conf) /\ th'[c].seen \in BOOLEAN
      BY <1>2, <2>2, <3>1, GotoAdvances
    <3>3. ItemsLeft(pc, conf, p)
      BY <1>2, <1>4, <2>3, <2>5, <3>1 DEF ItemsLeft, Has
    <3>4. SavedUpTo(pc, stored', run', p, excused'[c])
      BY <2>3, <3>1 DEF SavedUpTo, Kept
    <3> QED
      BY <1>1, <1>2, <1>3, <1>5, <2>1, <2>2, <3>1, <3>2, <3>3, <3>4, PolicyAdvance
  <2>6. CASE ~Empty(conf) /\ s \notin {"crash", "overlimit"} /\ FinishPolicy(c, FALSE)
    <3>1. Why(c)
      BY <1>1, <1>2, <1>4, <2>2, <2>3, <2>6 DEF Doubtful, Empty, Switches, Why
    <3> QED
      BY <1>1, <1>2, <1>3, <1>5, <2>1, <2>2, <2>6, <3>1, PolicyFinish
  <2>7. CASE Empty(conf)
    <3>1. FinishPolicy(c, TRUE)
      BY <1>6, <2>7 DEF ConfigPageSwitch
    <3> QED
      BY <2>4, <2>7, <3>1
  <2>8. CASE ~Empty(conf) /\ s \in {"crash", "overlimit"}
    <3>1. Goto(c, IF s = "crash" THEN "items" ELSE "refined")
      BY <1>6, <2>8 DEF ConfigPageSwitch
    <3> QED
      BY <2>5, <2>8, <3>1
  <2>9. CASE ~Empty(conf) /\ s \notin {"crash", "overlimit"}
    <3>1. FinishPolicy(c, Empty(conf))
      BY <1>6, <2>9 DEF ConfigPageSwitch
    <3>2. Empty(conf) = FALSE
      BY <2>9 DEF Empty
    <3>3. FinishPolicy(c, FALSE)
      BY <3>1, <3>2, Zenon
    <3> QED
      BY <2>6, <2>9, <3>3
  <2> QED
    BY <2>7, <2>8, <2>9
<1>7. CASE /\ Has(conf, "switch")
           /\ SaveEventConfig(s, run, conf["switch"])
           /\ mine' = [mine EXCEPT ![s] = conf["switch"]]
           /\ overtaken' = IF MayBeRemoving(s) THEN overtaken \cup {s} ELSE overtaken \ {s}
           /\ Goto(c, "status")
           /\ UNCHANGED <<excused, faults>>
  <2>1. s \in Keys /\ run \in {0, run} /\ SaveEventConfig(s, run, conf["switch"])
    BY <1>1, <1>7 DEF Switches, Keys
  <2>2. /\ StoredOK' /\ stored'[s] = [run |-> run, value |-> conf["switch"]]
        /\ \A j \in Keys \ {s} : stored'[j] = stored[j]
    BY <1>2, <1>3, <2>1, SavedConfig
  <2>3. Side(c) /\ Excusing(c)
    BY <1>2, <1>3, <1>7, SideFacts DEF Side
  <2>4. /\ OthersStay(c) /\ AnswersOK' /\ Advances(c, "status", conf) /\ th'[c].seen \in BOOLEAN
    BY <1>2, <1>7, <2>3, GotoAdvances
  <2>5. th'[c].pc = "status" /\ "status" \in PolicyPcs
    BY <2>4 DEF Advances, PolicyPcs
  <2>6. ItemsLeft("status", conf, p)
    BY <1>1, <1>2, <1>4, <1>7 DEF ItemsLeft, Has
  <2>7. CallOK(c)'
    BY <1>1, <1>2, <1>3, <2>4, <2>5, <2>6, <2>3, AdvanceKeeps
  <2>8. PolicyFrame(c)
    BY <1>3, <2>4, <2>5, <2>3 DEF PolicyFrame, PolicyUnchanged
  <2>9. OwnSettingsStay' /\ DOMAIN mine' = Switches /\ overtaken' \subseteq Switches
    <3>1. DOMAIN mine' = Switches /\ mine'[s] = conf["switch"]
          /\ \A k \in Switches \ {s} : mine'[k] = mine[k]
      BY <1>1, <1>2, <1>7
    <3>2. overtaken' \subseteq Switches /\ \A k \in Switches \ {s} : k \in overtaken' <=> k \in overtaken
      BY <1>1, <1>2, <1>7
    <3>3. \A k \in Switches \ {s} : stored'[k] = stored[k]
      BY <2>2 DEF Switches, Keys
    <3>4. OwnSettingsStay'
      BY <1>2, <1>3, <2>2, <3>1, <3>2, <3>3 DEF OwnSettingsStay
    <3> QED
      BY <3>1, <3>2, <3>4
  <2>10. ASSUME NEW k \in Switches, MayBeRemoving(k), k \in overtaken \/ mine[k] = "none"
         PROVE  k \in overtaken' \/ mine'[k] = "none"
    BY <1>1, <1>2, <1>7, <2>10
  <2>11. OnlyTouched(p)
    BY <1>2, <2>2 DEF OnlyTouched, Touches
  <2>12. ASSUME ~overlap PROVE StatusOK' /\ DumpOK' /\ SavedBy(c)'
    <3>1. \A d \in Callers \ {c} : th'[d].pc = "idle"
      BY <1>1, <2>4, <2>12, AloneFacts DEF OthersStay
    <3>2. built' /\ "dump" \notin astray' => DumpStored'
      <4>1. stored'["minidump"] = stored["minidump"]
        BY <1>1, <2>2 DEF Keys, Switches
      <4> QED
        BY <4>1, <1>3, <1>5, <2>12 DEF DumpStored
    <3>3. StatusOK' /\ DumpOK'
      BY <2>5, <3>1, <3>2, StatusNow, DumpNow
    <3>4. SavedUpTo("status", stored', run', p, excused'[c])
      BY <1>2, <1>3, <1>4, <1>7, <2>2 DEF SavedUpTo, Kept, Has
    <3>5. SavedBy(c)'
      BY <1>1, <1>2, <1>3, <1>5, <2>4, <2>3, <2>11, <2>12, <3>4, AdvanceSaves
    <3> QED
      BY <3>3, <3>5
  <2>13. IInv'
    BY <1>1, <1>2, <1>3, <2>2, <2>4, <2>7, <2>8, <2>9, <2>10, <2>12, PolicyStepKeeps
  <2>14. TellsOf(c)
    BY <2>5 DEF TellsOf
  <2> QED
    BY <2>4, <2>13, <2>14, OthersTell
<1>8. CASE FailIn(c) /\ FinishPolicy(c, FALSE) /\ UNCHANGED <<stored, mine, overtaken>>
  <2>1. /\ StoredOK' /\ OnlyTouched(p) /\ (\A k \in Switches : stored'[k] = stored[k])
        /\ DumpStored => DumpStored'
    BY <1>2, <1>3, <1>8, NothingTouched
  <2>2. Side(c) /\ Why(c) /\ mine' = mine /\ overtaken' = overtaken
    BY <1>2, <1>3, <1>8, SideFacts DEF Why
  <2> QED
    BY <1>1, <1>2, <1>3, <1>5, <1>8, <2>1, <2>2, PolicyFinish
<1> QED
  BY <1>6, <1>7, <1>8 DEF ConfigPageSwitch

LEMMA GetStatusStep ==
    ASSUME IInv, NEW c \in Callers, GetCurSysPageSwitchStatus(c)
    PROVE  IInv' /\ Tells
<1> DEFINE conf == th[c].conf
           p == Head(th[c].todo)
<1>1. th[c].pc = "status" /\ th[c].pc \in PolicyPcs /\ "set" \in PolicyPcs
  BY DEF GetCurSysPageSwitchStatus, At, PolicyPcs
<1>2. /\ PackOK(c) /\ AnswersOK /\ StoredOK /\ faults \in Nat /\ range \subseteq Callers
      /\ status \in BOOLEAN /\ ItemsLeft("status", conf, p) /\ astray \subseteq {"status", "dump"}
  BY <1>1, AtPolicy
<1>3. /\ PolicyUnchanged /\ excused' = excused /\ run' = run /\ library' = library /\ built' = built
      /\ status' = status /\ dump' = dump /\ mine' = mine /\ overtaken' = overtaken
      /\ stored' = stored /\ done' = done /\ range' \in {range, range \cup {c}}
  BY DEF GetCurSysPageSwitchStatus, PolicyUnchanged, callVars
<1>4. Side(c) /\ Excusing(c) /\ astray' \subseteq {"status", "dump"}
  <2>1. faults' \in Nat /\ astray' \subseteq {"status", "dump"}
    BY <1>2 DEF GetCurSysPageSwitchStatus, Fault
  <2>2. Excusing(c)
    BY <1>2, <1>3 DEF AnswersOK, Excusing
  <2> QED
    BY <1>2, <1>3, <2>1, <2>2 DEF Side
<1>5. PICK seen \in BOOLEAN :
        /\ th' = [th EXCEPT ![c].pc = "set", ![c].seen = seen]
        /\ "status" \notin astray' => (seen <=> CurSysPageSwitchStatus)
        /\ "dump" \notin astray' => "dump" \notin astray
  <2>1. CASE th' = [th EXCEPT ![c].pc = "set", ![c].seen = CurSysPageSwitchStatus]
             /\ astray' = astray \ {"status"}
    <3>1. CurSysPageSwitchStatus \in BOOLEAN
      BY DEF CurSysPageSwitchStatus
    <3> HIDE DEF CurSysPageSwitchStatus
    <3> QED
      BY <2>1, <3>1
  <2>2. CASE th' = [th EXCEPT ![c].pc = "set", ![c].seen = FALSE] /\ astray' = astray \cup {"status"}
    BY <2>2
  <2> QED
    BY <2>1, <2>2 DEF GetCurSysPageSwitchStatus
<1> DEFINE next == [th[c] EXCEPT !.pc = "set", !.seen = seen]
<1>6. th' = [th EXCEPT ![c] = next]
  BY <1>2, <1>5 DEF AnswersOK, PackOK, PackFields
<1>7. /\ DOMAIN next = PackFields /\ next.pc = "set" /\ next.conf = conf
      /\ next.pack = th[c].pack /\ next.todo = th[c].todo /\ next.good = th[c].good
      /\ next.seen = seen
  BY <1>2 DEF PackOK, PackFields
<1> HIDE DEF next
<1>8. OthersStay(c) /\ AnswersOK' /\ Advances(c, "set", conf) /\ th'[c].seen = seen
  BY <1>2, <1>3, <1>4, <1>6, <1>7, MoveFacts DEF Advances
<1>9. /\ StoredOK' /\ OnlyTouched(p) /\ (\A k \in Switches : stored'[k] = stored[k])
      /\ DumpStored => DumpStored'
  BY <1>2, <1>3, NothingTouched
<1>10. ItemsLeft("set", conf, p)
  BY <1>2 DEF ItemsLeft
<1>11. ASSUME ~overlap
       PROVE  /\ built /\ "dump" \notin astray' => DumpStored'
              /\ th[c].good => SavedUpTo("set", stored', run', p, excused'[c])
  <2>1. /\ built /\ "dump" \notin astray => DumpStored
        /\ SavedBy(c)
    BY <1>1, <1>11, AloneFacts
  <2>2. th[c].good => SavedUpTo("set", stored', run', p, excused'[c])
    BY <1>1, <1>3, <2>1 DEF SavedBy, SavedUpTo
  <2> QED
    BY <1>5, <1>9, <2>1, <2>2
<1>12. th'[c].seen \in BOOLEAN
  BY <1>8
<1> QED
  BY <1>1, <1>2, <1>3, <1>4, <1>5, <1>8, <1>9, <1>10, <1>11, <1>12, PolicyAdvance

LEMMA SetStatusStep ==
    ASSUME IInv, NEW c \in Callers, SetPageSwitchStatus(c)
    PROVE  IInv' /\ Tells
<1> DEFINE conf == th[c].conf
           rest == Without(conf, "switch")
           p == Head(th[c].todo)
<1>1. th[c].pc = "set" /\ th[c].pc \in PolicyPcs
  BY DEF SetPageSwitchStatus, At, PolicyPcs
<1>2. /\ PackOK(c) /\ AnswersOK /\ StoredOK /\ faults \in Nat
      /\ ItemsLeft("set", conf, p) /\ Policy(c) = p.name /\ range \subseteq Callers
  BY <1>1, AtPolicy
<1>3. /\ PolicyUnchanged /\ run' = run /\ library' = library /\ status' = th[c].seen /\ dump' = dump
      /\ dump' \in BOOLEAN /\ (~library => ~dump') /\ mine' = mine /\ overtaken' = overtaken
      /\ stored' = stored /\ astray' = astray /\ astray' \subseteq {"status", "dump"}
      /\ excused' = excused /\ faults' = faults /\ range' = range
  BY <1>1, AtPolicy DEF SetPageSwitchStatus, PolicyUnchanged, configVars
<1>4. Side(c) /\ Excusing(c)
  BY <1>2, <1>3, SideFacts DEF Side
<1>5. /\ DOMAIN conf = DOMAIN p.conf /\ \A i \in DOMAIN conf : conf[i] = p.conf[i]
      /\ p.name \in Switches /\ Has(p.conf, "switch")
  BY <1>2 DEF ItemsLeft
<1>6. status' \in BOOLEAN
  BY <1>2, <1>3 DEF PackOK
<1>7. ASSUME ~overlap
      PROVE  /\ "status" \notin astray => (status' <=> CurSysPageSwitchStatus)
             /\ built /\ "dump" \notin astray => DumpStored
             /\ th[c].good => Kept(stored', p, "switch", p.name, run')
  BY <1>1, <1>3, <1>5, <1>7, AloneFacts DEF SavedBy, SavedUpTo
<1>8. /\ StoredOK' /\ OnlyTouched(p) /\ (\A k \in Switches : stored'[k] = stored[k])
      /\ DumpStored => DumpStored'
  BY <1>2, <1>3, NothingTouched
<1>9. DOMAIN rest = DOMAIN p.conf \ {"switch"} /\ \A i \in DOMAIN rest : rest[i] = p.conf[i]
  BY <1>5 DEF Without
<1>10. CASE Empty(rest) \/ Policy(c) \in {"asan", "freeze"}
  <2>1. FinishPolicy(c, TRUE)
    BY <1>10 DEF SetPageSwitchStatus
  <2>2. p.name = "overlimit" => ~Has(p.conf, "refined") /\ ~Has(p.conf, "heap")
    <3>1. p.name = "overlimit" => DOMAIN rest = {}
      BY <1>2, <1>10 DEF Empty
    <3>2. DOMAIN rest = DOMAIN p.conf \ {"switch"}
      BY <1>9
    <3> HIDE DEF rest, p
    <3> QED
      BY <3>1, <3>2 DEF Has
  <2>3. KeptDump(stored', p, excused'[c])
    BY <1>2, <1>9, <1>10 DEF KeptDump, Kept, Empty, Has
  <2>4. p.name # "cpu"
    BY <1>5 DEF Switches
  <2>5. ASSUME ~overlap, th[c].good PROVE Saved(stored', run', p, excused'[c])
    BY <1>7, <2>2, <2>5, <2>3, <2>4 DEF Saved, Kept
  <2> QED
    BY <1>1, <1>2, <1>3, <1>6, <1>7, <1>8, <1>4, <2>1, <2>5, PolicyFinish
<1>11. CASE ~(Empty(rest) \/ Policy(c) \in {"asan", "freeze"})
  <2> DEFINE pc == IF Policy(c) = "crash" THEN "items" ELSE "refined"
             next == [th[c] EXCEPT !.pc = pc, !.conf = rest]
  <2>1. th' = [th EXCEPT ![c].pc = pc, ![c].conf = rest] /\ done' = done
    BY <1>11 DEF SetPageSwitchStatus
  <2>2. th' = [th EXCEPT ![c] = next]
    BY <1>2, <2>1 DEF AnswersOK, PackOK, PackFields
  <2>3. /\ DOMAIN next = PackFields /\ next.pc = pc /\ next.conf = rest
        /\ next.pack = th[c].pack /\ next.todo = th[c].todo /\ next.good = th[c].good
        /\ next.seen = th[c].seen
    BY <1>2 DEF PackOK, PackFields
  <2>4. /\ pc \in PolicyPcs /\ pc \notin {"status", "set", "apply", "heap", "start"}
        /\ (pc = "items" /\ p.name = "crash") \/ (pc = "refined" /\ p.name = "overlimit")
    BY <1>2, <1>5, <1>11 DEF PolicyPcs, Switches
  <2>5. ItemsLeft(pc, rest, p)
    BY <1>9, <1>11, <2>4 DEF ItemsLeft
  <2> HIDE DEF next, pc
  <2>6. OthersStay(c) /\ AnswersOK' /\ Advances(c, pc, rest) /\ th'[c].seen \in BOOLEAN
    BY <1>2, <1>4, <2>1, <2>2, <2>3, MoveFacts DEF Advances, PackOK
  <2>7. ASSUME ~overlap, th[c].good PROVE SavedUpTo(pc, stored', run', p, excused'[c])
    BY <1>7, <2>4, <2>7 DEF SavedUpTo
  <2> HIDE DEF rest
  <2> QED
    BY <1>1, <1>2, <1>3, <1>6, <1>7, <1>8, <1>4, <2>7, <2>4, <2>5, <2>6, PolicyAdvance
<1> QED
  BY <1>10, <1>11

\* The switch is no item that is right.
LEMMA RightLeft ==
    ASSUME NEW conf, NEW all, DOMAIN conf = DOMAIN all \ {"switch"},
           \A i \in DOMAIN conf : conf[i] = all[i]
    PROVE  RightItems(conf) = RightItems(all)
BY DEF RightItems

LEMMA SetAppCrashLogStep ==
    ASSUME IInv, NEW c \in Callers, SetAppCrashLogPolicy(c)
    PROVE  IInv' /\ Tells
<1> DEFINE conf == th[c].conf
           right == RightItems(conf)
           p == Head(th[c].todo)
<1>1. th[c].pc = "items" /\ th[c].pc \in PolicyPcs /\ "apply" \in PolicyPcs
  BY DEF SetAppCrashLogPolicy, At, PolicyPcs
<1>2. /\ PackOK(c) /\ AnswersOK /\ StoredOK /\ faults \in Nat /\ run \in Nat
      /\ ItemsLeft("items", conf, p) /\ status \in BOOLEAN /\ dump \in BOOLEAN /\ (~library => ~dump)
      /\ range \subseteq Callers /\ astray \subseteq {"status", "dump"} /\ Policy(c) = p.name
      /\ Doubtful(p) => excused[c]
  BY <1>1, AtPolicy
<1>3. /\ PolicyUnchanged /\ run' = run /\ library' = library /\ status' = status /\ dump' = dump
      /\ built' = built /\ astray' = astray /\ mine' = mine /\ overtaken' = overtaken
  BY DEF SetAppCrashLogPolicy, PolicyUnchanged
<1>4. /\ DOMAIN conf = DOMAIN p.conf \ {"switch"} /\ \A i \in DOMAIN conf : conf[i] = p.conf[i]
      /\ p.name = "crash" /\ ~Empty(conf) /\ right = RightItems(p.conf)
  <2>1. /\ DOMAIN conf = DOMAIN p.conf \ {"switch"} /\ \A i \in DOMAIN conf : conf[i] = p.conf[i]
        /\ p.name = "crash" /\ ~Empty(conf)
    BY <1>2 DEF ItemsLeft
  <2> QED
    BY <2>1, RightLeft
<1>5. ASSUME ~overlap
      PROVE  /\ "status" \notin astray => (status <=> CurSysPageSwitchStatus)
             /\ built /\ "dump" \notin astray => DumpStored
             /\ th[c].good => Kept(stored, p, "switch", p.name, run)
  BY <1>1, <1>4, <1>5, AloneFacts DEF SavedBy, SavedUpTo, Switches
<1>6. PICK kept \in SUBSET right :
        /\ right \ kept \subseteq {"minidump", "cutoff"}
        /\ "cutoff" \in right \ kept => c \in range
        /\ IF "minidump" \in right \ kept THEN FailIn(c) ELSE UNCHANGED <<excused, faults>>
        /\ IF "minidump" \in kept THEN SaveEventConfig("minidump", 0, conf["minidump"])
           ELSE UNCHANGED stored
        /\ range' = CASE Has(conf, "cutoff") /\ conf["cutoff"] = "huge" -> range \cup {c}
                      [] "cutoff" \in kept                             -> range \ {c}
                      [] OTHER                                         -> range
        /\ IF kept = {} THEN FinishPolicy(c, FALSE)
           ELSE th' = [th EXCEPT ![c].pc = "apply", ![c].kept = kept] /\ UNCHANGED done
  BY DEF SetAppCrashLogPolicy
<1> HIDE DEF right
<1>7. /\ range' \in {range, range \cup {c}, range \ {c}}
      /\ "cutoff" \notin kept => range' \in {range, range \cup {c}}
  BY <1>6
<1>8. /\ Side(c) /\ Excusing(c)
      /\ "minidump" \in right \ kept => excused'[c]
  <2>1. Excusing(c) /\ faults' \in Nat /\ ("minidump" \in right \ kept => excused'[c])
    <3>1. FailIn(c) \/ (excused' = excused /\ faults' = faults)
      BY <1>6
    <3>2. Excusing(c) /\ (FailIn(c) => excused'[c])
      BY <1>2, <3>1 DEF AnswersOK, FailIn, Excusing
    <3>3. faults' \in Nat
      BY <1>2, <3>1 DEF FailIn, Fault
    <3> QED
      BY <1>6, <3>2, <3>3
  <2>2. range' \subseteq Callers /\ \A d \in Callers \ {c} : d \in range => d \in range'
    BY <1>2, <1>7
  <2> QED
    BY <1>2, <1>4, <2>1, <2>2 DEF Side
<1>9. /\ StoredOK' /\ OnlyTouched(p) /\ (\A k \in Switches : stored'[k] = stored[k])
      /\ "minidump" \notin kept => (DumpStored => DumpStored')
      /\ "minidump" \in kept => stored'["minidump"] = [run |-> 0, value |-> conf["minidump"]]
  <2>1. CASE "minidump" \in kept
    <3>1. "minidump" \in Keys \ Switches /\ 0 \in {0, run} /\ Touches(p, "minidump")
      BY <1>4 DEF Keys, Switches, Touches
    <3>2. SaveEventConfig("minidump", 0, conf["minidump"])
      BY <1>6, <2>1
    <3>3. /\ StoredOK' /\ OnlyTouched(p)
          /\ stored'["minidump"] = [run |-> 0, value |-> conf["minidump"]]
          /\ \A k \in Switches : stored'[k] = stored[k]
      BY <1>2, <1>3, <3>1, <3>2, ItemTouched
    <3> QED
      BY <2>1, <3>3
  <2>2. CASE "minidump" \notin kept
    <3>1. stored' = stored
      BY <1>6, <2>2
    <3> QED
      BY <1>2, <1>3, <2>2, <3>1, NothingTouched
  <2> QED
    BY <2>1, <2>2
<1>10. CASE kept = {}
  <2>1. FinishPolicy(c, FALSE) /\ "minidump" \notin kept
    BY <1>6, <1>10
  <2>2. Why(c)
    <3>1. CASE right = {}
      <4>1. RightItems(Without(p.conf, "switch")) = RightItems(p.conf)
        <5>1. /\ DOMAIN Without(p.conf, "switch") = DOMAIN p.conf \ {"switch"}
              /\ \A i \in DOMAIN Without(p.conf, "switch") : Without(p.conf, "switch")[i] = p.conf[i]
          BY DEF Without
        <5> QED
          BY <5>1, RightLeft
      <4>2. ~Empty(Without(p.conf, "switch"))
        BY <1>4 DEF Empty, Without
      <4>3. Doubtful(p)
        BY <1>4, <3>1, <4>1, <4>2 DEF Doubtful
      <4> QED
        BY <1>2, <1>8, <4>3 DEF Why, Excusing
    <3>2. CASE "minidump" \in right
      BY <1>8, <2>1, <3>2 DEF Why
    <3>3. CASE "cutoff" \in right
      <4>1. c \in range /\ c \in range'
        BY <1>6, <1>7, <1>10, <3>3
      <4>2. HasNumber(th[c])
        <5>1. /\ p = th[c].pack[Dealt(th[c].pack, th[c].todo) + 1]
              /\ Dealt(th[c].pack, th[c].todo) + 1 \in DOMAIN th[c].pack
          BY <1>2, PolicyOfPack
        <5>2. "cutoff" \in RightItems(p.conf) /\ "pack" \in DOMAIN th[c]
          BY <1>2, <1>4, <3>3 DEF PackOK, PackFields
        <5> QED
          BY <5>1, <5>2 DEF HasNumber
      <4> QED
        BY <1>2, <1>4, <4>1, <4>2 DEF Why
    <3> QED
      BY <1>6, <1>10, <3>1, <3>2, <3>3
  <2> QED
    BY <1>1, <1>2, <1>3, <1>5, <1>8, <1>9, <2>1, <2>2, PolicyFinish
<1>11. CASE kept # {}
  <2> DEFINE next == [th[c] EXCEPT !.pc = "apply", !.kept = kept]
  <2>1. th' = [th EXCEPT ![c].pc = "apply", ![c].kept = kept] /\ done' = done
    BY <1>6, <1>11
  <2>2. th' = [th EXCEPT ![c] = next]
    BY <1>2, <2>1 DEF AnswersOK, PackOK, PackFields
  <2>3. /\ DOMAIN next = PackFields /\ next.pc = "apply" /\ next.conf = conf
        /\ next.pack = th[c].pack /\ next.todo = th[c].todo /\ next.good = th[c].good
        /\ next.seen = th[c].seen /\ next.kept = kept
    BY <1>2 DEF PackOK, PackFields
  <2>4. ItemsLeft("apply", conf, p)
    BY <1>4 DEF ItemsLeft
  <2> HIDE DEF next
  <2>5. /\ OthersStay(c) /\ AnswersOK' /\ Advances(c, "apply", conf) /\ th'[c].seen \in BOOLEAN
        /\ th'[c].kept = kept /\ th'[c].pc = "apply" /\ th'[c].conf = conf
    BY <1>2, <1>8, <2>1, <2>2, <2>3, MoveFacts DEF Advances, PackOK
  <2>6. th'[c].kept \subseteq RightItems(conf) /\ th'[c].kept # {}
    BY <1>6, <1>11, <2>5 DEF right
  <2>7. ASSUME ~overlap, th[c].good PROVE SavedUpTo("apply", stored', run', p, excused'[c])
    <3>1. stored'[p.name] = stored[p.name]
      BY <1>4, <1>9 DEF Switches
    <3>2. Kept(stored', p, "switch", p.name, run')
      BY <1>3, <1>5, <2>7, <3>1 DEF Kept
    <3>3. KeptDump(stored', p, excused'[c])
      <4>1. "minidump" \in right /\ ~excused'[c] => "minidump" \in kept
        BY <1>8
      <4>2. "minidump" \in right => conf["minidump"] = p.conf["minidump"]
        BY <1>4 DEF right, RightItems
      <4> QED
        BY <1>4, <1>9, <4>1, <4>2 DEF KeptDump, Kept
    <3> QED
      BY <3>2, <3>3 DEF SavedUpTo
  <2>8. ASSUME ~overlap PROVE DumpOf(th[c])'
    <3>1. CASE "minidump" \in kept
      <4>1. stored'["minidump"].value = conf["minidump"]
        BY <1>9, <3>1
      <4> QED
        BY <2>5, <3>1, <4>1 DEF DumpOf, Telling
    <3>2. CASE "minidump" \notin kept
      <4>1. built' /\ "dump" \notin astray' => DumpStored'
        BY <1>3, <1>5, <1>9, <2>8, <3>2
      <4> QED
        BY <2>5, <3>2, <4>1 DEF DumpOf, Telling
    <3> QED
      BY <3>1, <3>2
  <2> QED
    BY <1>1, <1>2, <1>3, <1>5, <1>8, <1>9, <2>4, <2>5, <2>6, <2>7, <2>8, PolicyAdvance
<1> QED
  BY <1>10, <1>11

LEMMA ApplyStep ==
    ASSUME IInv, NEW c \in Callers, ApplyCrashLogConfig(c)
    PROVE  IInv' /\ Tells
<1> DEFINE conf == th[c].conf
           p == Head(th[c].todo)
           Tell == library /\ "minidump" \in th[c].kept
<1>1. th[c].pc = "apply" /\ th[c].pc \in PolicyPcs /\ th[c].pc # "idle"
  BY DEF ApplyCrashLogConfig, At, PolicyPcs
<1>2. /\ PackOK(c) /\ AnswersOK /\ StoredOK /\ faults \in Nat /\ range \subseteq Callers
      /\ ItemsLeft("apply", conf, p) /\ status \in BOOLEAN /\ dump \in BOOLEAN /\ (~library => ~dump)
      /\ library \in BOOLEAN /\ astray \subseteq {"status", "dump"}
  BY <1>1, AtPolicy
<1>3. /\ PolicyUnchanged /\ run' = run /\ library' = library /\ built' = built /\ status' = status
      /\ mine' = mine /\ overtaken' = overtaken /\ stored' = stored /\ excused' = excused
      /\ range' = range /\ FinishPolicy(c, library)
  BY DEF ApplyCrashLogConfig, PolicyUnchanged, configVars
<1>4. \/ /\ Tell /\ dump' = (conf["minidump"] = "true") /\ astray' = astray \ {"dump"} /\ faults' = faults
      \/ Tell /\ Fault /\ astray' = astray \cup {"dump"} /\ dump' = dump
      \/ ~Tell /\ dump' = dump /\ astray' = astray /\ faults' = faults
  BY DEF ApplyCrashLogConfig
<1>5. /\ Side(c) /\ dump' \in BOOLEAN /\ (~library => ~dump') /\ astray' \subseteq {"status", "dump"}
      /\ "status" \notin astray' => "status" \notin astray
  <2>1. faults' = faults \/ Fault
    BY <1>4
  <2>2. Side(c)
    BY <1>2, <1>3, <2>1, SideFacts
  <2>3. astray' \subseteq {"status", "dump"} /\ ("status" \notin astray' => "status" \notin astray)
    <3>1. astray' \in {astray \ {"dump"}, astray \cup {"dump"}, astray}
      BY <1>4, Zenon
    <3> QED
      BY <1>2, <3>1
  <2>4. dump' \in BOOLEAN
    <3>1. dump' = dump \/ dump' = (conf["minidump"] = "true")
      BY <1>4, Zenon
    <3> QED
      BY <1>2, <3>1
  <2>5. ~library => ~dump'
    <3>1. ~library => dump' = dump
      BY <1>4, Zenon
    <3> QED
      BY <1>2, <3>1, Zenon
  <2> QED
    BY <2>2, <2>3, <2>4, <2>5
<1>6. /\ p.name = "crash"
      /\ th[c].kept # {} /\ th[c].kept \subseteq RightItems(p.conf)
  <2>1. /\ DOMAIN conf = DOMAIN p.conf \ {"switch"} /\ \A i \in DOMAIN conf : conf[i] = p.conf[i]
        /\ p.name = "crash"
    BY <1>2 DEF ItemsLeft
  <2>2. th[c].kept # {} /\ th[c].kept \subseteq RightItems(conf)
    BY <1>1, <1>2 DEF PackOK
  <2>3. RightItems(conf) = RightItems(p.conf)
    BY <2>1, RightLeft
  <2> QED
    BY <2>1, <2>2, <2>3
<1>7. library \/ Why(c)
  <2>1. /\ p = th[c].pack[Dealt(th[c].pack, th[c].todo) + 1]
        /\ Dealt(th[c].pack, th[c].todo) + 1 \in DOMAIN th[c].pack
    BY <1>2, PolicyOfPack
  <2>2. NeedsLibrary(th[c])
    BY <1>2, <1>6, <2>1 DEF NeedsLibrary, PackOK, PackFields
  <2> QED
    BY <2>2 DEF Why
<1>8. StoredOK' /\ OnlyTouched(p) /\ (\A k \in Switches : stored'[k] = stored[k])
  BY <1>2, <1>3, NothingTouched
<1>9. ASSUME ~overlap
      PROVE  /\ "status" \notin astray' => (status' <=> CurSysPageSwitchStatus)
             /\ th[c].good => Saved(stored', run', p, excused'[c])
             /\ built /\ "dump" \notin astray' => DumpStored'
  <2>1. /\ "status" \notin astray => (status <=> CurSysPageSwitchStatus)
        /\ DumpOf(th[c]) /\ SavedBy(c)
    BY <1>1, <1>9, AloneFacts
  <2>2. th[c].good => Saved(stored', run', p, excused'[c])
    BY <1>1, <1>3, <1>6, <2>1 DEF SavedBy, SavedUpTo, Saved
  <2>3. ASSUME built, "dump" \notin astray' PROVE DumpStored'
    <3>1. CASE Tell /\ dump' = (conf["minidump"] = "true")
      <4>1. stored["minidump"].value = conf["minidump"] /\ library
        BY <1>1, <2>1, <3>1 DEF DumpOf, Telling
      <4>2. dump' <=> stored["minidump"].value = "true"
        BY <3>1, <4>1, Zenon
      <4> QED
        BY <1>3, <4>1, <4>2 DEF DumpStored
    <3>2. CASE ~Tell /\ dump' = dump /\ astray' = astray
      <4>1. CASE library
        <5>1. DumpStored
          BY <2>1, <2>3, <3>2, <4>1 DEF DumpOf, Telling
        <5> QED
          BY <1>3, <3>2, <5>1 DEF DumpStored
      <4>2. CASE ~library
        BY <1>2, <1>3, <3>2, <4>2 DEF DumpStored
      <4> QED
        BY <4>1, <4>2
    <3>3. CASE Tell /\ astray' = astray \cup {"dump"}
      BY <2>3, <3>3
    <3> QED
      BY <1>4, <3>1, <3>2, <3>3, Zenon
  <2> QED
    BY <1>3, <1>5, <2>1, <2>2, <2>3
<1> QED
  BY <1>1, <1>2, <1>3, <1>5, <1>7, <1>8, <1>9, PolicyFinish

LEMMA SaveRefinedStep ==
    ASSUME IInv, NEW c \in Callers, SaveRefined(c)
    PROVE  IInv' /\ Tells
<1> DEFINE conf == th[c].conf
           rest == Without(conf, "refined")
           p == Head(th[c].todo)
<1>1. th[c].pc = "refined" /\ th[c].pc \in PolicyPcs /\ "heap" \in PolicyPcs
  BY DEF SaveRefined, At, PolicyPcs
<1>2. /\ PackOK(c) /\ AnswersOK /\ StoredOK /\ faults \in Nat /\ run \in Nat
      /\ ItemsLeft("refined", conf, p) /\ Policy(c) = p.name /\ range \subseteq Callers
  BY <1>1, AtPolicy
<1>3. /\ PolicyUnchanged /\ run' = run /\ library' = library /\ built' = built /\ status' = status
      /\ dump' = dump /\ dump' \in BOOLEAN /\ (~library => ~dump') /\ mine' = mine
      /\ overtaken' = overtaken /\ status' \in BOOLEAN /\ range' = range /\ astray' = astray
      /\ astray' \subseteq {"status", "dump"}
  BY <1>1, AtPolicy DEF SaveRefined, PolicyUnchanged, configVars
<1>4. /\ DOMAIN conf = DOMAIN p.conf \ {"switch"} /\ \A i \in DOMAIN conf : conf[i] = p.conf[i]
      /\ p.name = "overlimit" /\ ~Empty(conf)
  BY <1>2 DEF ItemsLeft
<1>5. ASSUME ~overlap
      PROVE  /\ "status" \notin astray => (status' <=> CurSysPageSwitchStatus)
             /\ built /\ "dump" \notin astray => DumpStored
             /\ th[c].good => Kept(stored, p, "switch", p.name, run)
  BY <1>1, <1>3, <1>4, <1>5, AloneFacts DEF SavedBy, SavedUpTo, Switches
<1>6. ASSUME \A k \in Switches : stored'[k] = stored[k], ~overlap, th[c].good
      PROVE  Kept(stored', p, "switch", p.name, run')
  <2>1. stored'[p.name] = stored[p.name]
    BY <1>4, <1>6 DEF Switches
  <2> QED
    BY <1>3, <1>5, <1>6, <2>1 DEF Kept
<1>7. CASE /\ Has(conf, "refined")
           /\ SaveEventConfig("refined", 0, conf["refined"])
           /\ IF Empty(rest) THEN FinishPolicy(c, TRUE)
              ELSE th' = [th EXCEPT ![c].pc = "heap", ![c].conf = rest] /\ done' = done
           /\ excused' = excused /\ faults' = faults
  <2>1. "refined" \in Keys \ Switches /\ "refined" # "minidump" /\ 0 \in {0, run} /\ Touches(p, "refined")
    BY <1>4 DEF Keys, Switches, Touches
  <2>2. /\ StoredOK' /\ OnlyTouched(p)
        /\ stored'["refined"] = [run |-> 0, value |-> conf["refined"]]
        /\ \A k \in Switches : stored'[k] = stored[k]
        /\ DumpStored => DumpStored'
    BY <1>2, <1>3, <1>7, <2>1, ItemTouched
  <2>3. Kept(stored', p, "refined", "refined", 0)
    BY <1>4, <1>7, <2>2 DEF Kept, Has
  <2>4. Side(c) /\ Excusing(c)
    BY <1>2, <1>3, <1>7, SideFacts DEF Side
  <2>5. DOMAIN rest = DOMAIN p.conf \ {"switch", "refined"} /\ \A i \in DOMAIN rest : rest[i] = p.conf[i]
    BY <1>4 DEF Without
  <2>6. CASE Empty(rest)
    <3>1. FinishPolicy(c, TRUE)
      BY <1>7, <2>6
    <3>2. Kept(stored', p, "heap", "heap", run')
      BY <2>5, <2>6 DEF Kept, Empty, Has
    <3>3. ASSUME ~overlap, th[c].good PROVE Saved(stored', run', p, excused'[c])
      BY <1>4, <1>6, <2>2, <2>3, <3>2, <3>3 DEF Saved, KeptDump
    <3> QED
      BY <1>1, <1>2, <1>3, <1>5, <2>2, <2>4, <3>1, <3>3, PolicyFinish
  <2>7. CASE ~Empty(rest)
    <3> DEFINE next == [th[c] EXCEPT !.pc = "heap", !.conf = rest]
    <3>1. th' = [th EXCEPT ![c].pc = "heap", ![c].conf = rest] /\ done' = done
      BY <1>7, <2>7
    <3>2. th' = [th EXCEPT ![c] = next]
      BY <1>2, <3>1 DEF AnswersOK, PackOK, PackFields
    <3>3. /\ DOMAIN next = PackFields /\ next.pc = "heap" /\ next.conf = rest
          /\ next.pack = th[c].pack /\ next.todo = th[c].todo /\ next.good = th[c].good
          /\ next.seen = th[c].seen
      BY <1>2 DEF PackOK, PackFields
    <3>4. ItemsLeft("heap", rest, p)
      BY <1>4, <2>5, <2>7 DEF ItemsLeft
    <3> HIDE DEF next
    <3>5. OthersStay(c) /\ AnswersOK' /\ Advances(c, "heap", rest) /\ th'[c].seen \in BOOLEAN
      BY <1>2, <2>4, <3>1, <3>2, <3>3, MoveFacts DEF Advances, PackOK
    <3>6. ASSUME ~overlap, th[c].good PROVE SavedUpTo("heap", stored', run', p, excused'[c])
      BY <1>6, <2>2, <2>3, <3>6 DEF SavedUpTo
    <3> HIDE DEF rest
    <3> QED
      BY <1>1, <1>2, <1>3, <1>5, <2>2, <2>4, <3>4, <3>5, <3>6, PolicyAdvance
  <2> QED
    BY <2>6, <2>7
<1>8. CASE Has(conf, "refined") /\ FailIn(c) /\ FinishPolicy(c, FALSE) /\ stored' = stored
  <2>1. /\ StoredOK' /\ OnlyTouched(p) /\ (\A k \in Switches : stored'[k] = stored[k])
        /\ DumpStored => DumpStored'
    BY <1>2, <1>3, <1>8, NothingTouched
  <2>2. Side(c) /\ Why(c)
    BY <1>2, <1>3, <1>8, SideFacts DEF Why
  <2> QED
    BY <1>1, <1>2, <1>3, <1>5, <1>8, <2>1, <2>2, PolicyFinish
<1>9. CASE ~Has(conf, "refined") /\ Goto(c, "heap") /\ stored' = stored /\ excused' = excused
           /\ faults' = faults
  <2>1. /\ StoredOK' /\ OnlyTouched(p) /\ (\A k \in Switches : stored'[k] = stored[k])
        /\ DumpStored => DumpStored'
    BY <1>2, <1>3, <1>9, NothingTouched
  <2>2. Side(c) /\ Excusing(c)
    BY <1>2, <1>3, <1>9, SideFacts DEF Side
  <2>3. OthersStay(c) /\ AnswersOK' /\ Advances(c, "heap", conf) /\ th'[c].seen \in BOOLEAN
    BY <1>2, <1>9, <2>2, GotoAdvances
  <2>4. ItemsLeft("heap", conf, p) /\ Kept(stored', p, "refined", "refined", 0)
    BY <1>4, <1>9 DEF ItemsLeft, Kept, Has
  <2>5. ASSUME ~overlap, th[c].good PROVE SavedUpTo("heap", stored', run', p, excused'[c])
    BY <1>6, <2>1, <2>4, <2>5 DEF SavedUpTo
  <2> QED
    BY <1>1, <1>2, <1>3, <1>5, <2>1, <2>2, <2>3, <2>4, <2>5, PolicyAdvance
<1> QED
  BY <1>7, <1>8, <1>9 DEF SaveRefined

LEMMA SetEventConfigStep ==
    ASSUME IInv, NEW c \in Callers, SetEventConfig(c)
    PROVE  IInv' /\ Tells
<1> DEFINE conf == th[c].conf
           p == Head(th[c].todo)
<1>1. th[c].pc = "heap" /\ th[c].pc \in PolicyPcs
  BY DEF SetEventConfig, At, PolicyPcs
<1>2. /\ PackOK(c) /\ AnswersOK /\ StoredOK /\ faults \in Nat /\ run \in Nat
      /\ ItemsLeft("heap", conf, p) /\ Policy(c) = p.name /\ range \subseteq Callers
      /\ Doubtful(p) => excused[c]
  BY <1>1, AtPolicy
<1>3. /\ PolicyUnchanged /\ run' = run /\ library' = library /\ built' = built /\ status' = status
      /\ dump' = dump /\ dump' \in BOOLEAN /\ (~library => ~dump') /\ mine' = mine
      /\ overtaken' = overtaken /\ status' \in BOOLEAN /\ range' = range /\ astray' = astray
      /\ astray' \subseteq {"status", "dump"}
  BY <1>1, AtPolicy DEF SetEventConfig, PolicyUnchanged, configVars
<1>4. /\ DOMAIN conf = DOMAIN p.conf \ {"switch", "refined"}
      /\ \A i \in DOMAIN conf : conf[i] = p.conf[i]
      /\ p.name = "overlimit" /\ ~Empty(conf)
  BY <1>2 DEF ItemsLeft
<1>5. ASSUME ~overlap
      PROVE  /\ "status" \notin astray => (status' <=> CurSysPageSwitchStatus)
             /\ built /\ "dump" \notin astray => DumpStored
             /\ th[c].good => Kept(stored, p, "switch", p.name, run)
                              /\ Kept(stored, p, "refined", "refined", 0)
  BY <1>1, <1>3, <1>4, <1>5, AloneFacts DEF SavedBy, SavedUpTo, Switches
<1>6. CASE RightHeap(conf) /\ SaveEventConfig("heap", run, conf["heap"]) /\ FinishPolicy(c, TRUE)
           /\ excused' = excused /\ faults' = faults
  <2>1. "heap" \in Keys \ Switches /\ "heap" # "minidump" /\ run \in {0, run} /\ Touches(p, "heap")
    BY <1>4 DEF Keys, Switches, Touches
  <2>2. /\ StoredOK' /\ OnlyTouched(p)
        /\ stored'["heap"] = [run |-> run, value |-> conf["heap"]]
        /\ \A j \in Keys \ {"heap"} : stored'[j] = stored[j]
        /\ \A k \in Switches : stored'[k] = stored[k]
        /\ DumpStored => DumpStored'
    BY <1>2, <1>3, <1>6, <2>1, ItemTouched
  <2>3. Side(c)
    BY <1>2, <1>3, <1>6, SideFacts
  <2>4. stored'[p.name] = stored[p.name] /\ stored'["refined"] = stored["refined"]
    BY <1>4, <2>2 DEF Switches, Keys
  <2>5. conf["heap"] = p.conf["heap"]
    BY <1>4, <1>6 DEF RightHeap, Has
  <2>6. ASSUME ~overlap, th[c].good PROVE Saved(stored', run', p, excused'[c])
    <3>1. Kept(stored', p, "heap", "heap", run')
      BY <1>3, <2>2, <2>5 DEF Kept
    <3>2. Kept(stored', p, "switch", p.name, run') /\ Kept(stored', p, "refined", "refined", 0)
      BY <1>3, <1>5, <2>4, <2>6 DEF Kept
    <3> QED
      BY <1>4, <3>1, <3>2 DEF Saved, KeptDump
  <2> QED
    BY <1>1, <1>2, <1>3, <1>5, <1>6, <2>2, <2>3, <2>6, PolicyFinish
<1>7. CASE FinishPolicy(c, FALSE) /\ stored' = stored
           /\ (FailIn(c) \/ (~RightHeap(conf) /\ excused' = excused /\ faults' = faults))
  <2>1. /\ StoredOK' /\ OnlyTouched(p) /\ (\A k \in Switches : stored'[k] = stored[k])
        /\ DumpStored => DumpStored'
    BY <1>2, <1>3, <1>7, NothingTouched
  <2>2. Side(c) /\ (FailIn(c) => excused'[c])
    BY <1>2, <1>3, <1>7, SideFacts
  <2>3. ~RightHeap(conf) => Doubtful(p)
    <3>1. RightHeap(p.conf) => RightHeap(conf)
      BY <1>4 DEF RightHeap, Has
    <3>2. DOMAIN p.conf \ {"switch", "refined"} # {}
      BY <1>4 DEF Empty
    <3> QED
      BY <1>4, <3>1, <3>2 DEF Doubtful
  <2>4. Why(c)
    BY <1>2, <1>7, <2>2, <2>3 DEF Why, Side, Excusing
  <2> QED
    BY <1>1, <1>2, <1>3, <1>5, <1>7, <2>1, <2>2, <2>4, PolicyFinish
<1> QED
  BY <1>6, <1>7 DEF SetEventConfig

LEMMA SaveCpuItemStep ==
    ASSUME IInv, NEW c \in Callers, SaveCpuItem(c)
    PROVE  IInv' /\ Tells
<1> DEFINE conf == th[c].conf
           p == Head(th[c].todo)
<1>1. th[c].pc = "start" /\ th[c].pc \in PolicyPcs
  BY DEF SaveCpuItem, At, PolicyPcs
<1>2. /\ PackOK(c) /\ AnswersOK /\ StoredOK /\ faults \in Nat /\ run \in Nat
      /\ ItemsLeft("start", conf, p) /\ Policy(c) = p.name /\ range \subseteq Callers
  BY <1>1, AtPolicy
<1>3. /\ PolicyUnchanged /\ run' = run /\ library' = library /\ built' = built /\ status' = status
      /\ dump' = dump /\ dump' \in BOOLEAN /\ (~library => ~dump') /\ mine' = mine
      /\ overtaken' = overtaken /\ status' \in BOOLEAN /\ range' = range /\ astray' = astray
      /\ astray' \subseteq {"status", "dump"}
  BY <1>1, AtPolicy DEF SaveCpuItem, PolicyUnchanged, configVars
<1>4. /\ p.name = "cpu" /\ DOMAIN conf = DOMAIN p.conf /\ \A i \in DOMAIN conf : conf[i] = p.conf[i]
  BY <1>2 DEF SaveCpuItem, ItemsLeft
<1>5. ASSUME ~overlap
      PROVE  /\ "status" \notin astray => (status' <=> CurSysPageSwitchStatus)
             /\ built /\ "dump" \notin astray => DumpStored
  BY <1>1, <1>3, <1>5, AloneFacts
<1>6. Kept(stored', p, "item", "cpu", 0) => Saved(stored', run', p, excused'[c])
  BY <1>4 DEF Saved, KeptDump, Switches
<1>7. CASE /\ IF Empty(conf) THEN stored' = stored ELSE SaveEventConfig("cpu", 0, conf["item"])
           /\ FinishPolicy(c, TRUE)
           /\ excused' = excused /\ faults' = faults
  <2>1. /\ StoredOK' /\ OnlyTouched(p) /\ (\A k \in Switches : stored'[k] = stored[k])
        /\ DumpStored => DumpStored'
        /\ Kept(stored', p, "item", "cpu", 0)
    <3>1. CASE Empty(conf)
      <4>1. Kept(stored', p, "item", "cpu", 0)
        BY <1>4, <3>1 DEF Kept, Empty, Has
      <4> QED
        BY <1>2, <1>3, <1>7, <3>1, <4>1, NothingTouched
    <3>2. CASE ~Empty(conf)
      <4>1. "cpu" \in Keys \ Switches /\ "cpu" # "minidump" /\ 0 \in {0, run} /\ Touches(p, "cpu")
        BY <1>4 DEF Keys, Switches, Touches
      <4>2. SaveEventConfig("cpu", 0, conf["item"])
        BY <1>7, <3>2
      <4>3. /\ StoredOK' /\ OnlyTouched(p) /\ (\A k \in Switches : stored'[k] = stored[k])
            /\ DumpStored => DumpStored'
            /\ stored'["cpu"] = [run |-> 0, value |-> conf["item"]]
        BY <1>2, <1>3, <4>1, <4>2, ItemTouched
      <4> QED
        BY <1>4, <4>3 DEF Kept, Has
    <3> QED
      BY <3>1, <3>2
  <2>2. Side(c)
    BY <1>2, <1>3, <1>7, SideFacts
  <2> QED
    BY <1>1, <1>2, <1>3, <1>5, <1>6, <1>7, <2>1, <2>2, PolicyFinish
<1>8. CASE FailIn(c) /\ FinishPolicy(c, FALSE) /\ stored' = stored
  <2>1. /\ StoredOK' /\ OnlyTouched(p) /\ (\A k \in Switches : stored'[k] = stored[k])
        /\ DumpStored => DumpStored'
    BY <1>2, <1>3, <1>8, NothingTouched
  <2>2. Side(c) /\ Why(c)
    BY <1>2, <1>3, <1>8, SideFacts DEF Why
  <2> QED
    BY <1>1, <1>2, <1>3, <1>5, <1>8, <2>1, <2>2, PolicyFinish
<1> QED
  BY <1>7, <1>8 DEF SaveCpuItem

--------------------------------------------------------------------------------
(* Calls.                                                                        *)

LEMMA CallFacts ==
    ASSUME IInv, NEW c \in Callers, NEW state, NEW suspect \in BOOLEAN, Call(c, state, suspect)
    PROVE  /\ OthersStay(c) /\ AnswersOK' /\ TellsOf(c)
           /\ th[c].pc = "idle" /\ th'[c] = state
           /\ excused'[c] = suspect /\ \A d \in Callers \ {c} : excused'[d] = excused[d]
           /\ calls' \in Nat /\ overlap' \in BOOLEAN
           /\ ~overlap' => ~overlap /\ os.pc = "idle" /\ \A d \in Callers : th[d].pc = "idle"
<1>1. /\ DOMAIN th = Callers /\ done \in [Callers -> Answers] /\ excused \in [Callers -> BOOLEAN]
      /\ calls \in Nat /\ overlap \in BOOLEAN
  BY DEF IInv, AnswersOK, RestOK
<1>2. /\ th[c].pc = "idle" /\ th' = [th EXCEPT ![c] = state] /\ calls' = calls + 1
      /\ excused' = [excused EXCEPT ![c] = suspect]
      /\ overlap' = (overlap \/ os.pc # "idle" \/ \E d \in Callers : th[d].pc # "idle")
  BY DEF Call
<1>3. done' \in [Callers -> Answers]
  <2> DEFINE a == IF state # Idle THEN "none" ELSE IF suspect THEN "refused" ELSE "ok"
  <2>1. done' = [done EXCEPT ![c] = a] /\ a \in Answers
    BY DEF Call, Answers
  <2> HIDE DEF a
  <2> QED
    BY <1>1, <2>1
<1>4. excused' \in [Callers -> BOOLEAN] /\ DOMAIN th' = Callers
  BY <1>1, <1>2
<1>5. OthersStay(c) /\ th'[c] = state /\ excused'[c] = suspect
      /\ \A d \in Callers \ {c} : excused'[d] = excused[d]
  BY <1>1, <1>2 DEF OthersStay
<1>6. overlap' \in BOOLEAN /\ calls' \in Nat
  BY <1>1, <1>2
<1>7. ~overlap' => ~overlap /\ os.pc = "idle" /\ \A d \in Callers : th[d].pc = "idle"
  BY <1>1, <1>2
<1>8. TellsOf(c)
  BY <1>2 DEF TellsOf
<1> QED
  BY <1>2, <1>3, <1>4, <1>5, <1>6, <1>7, <1>8 DEF AnswersOK

\* What a call may do to what the library was told.
DumpKept ==
    /\ built' \in BOOLEAN /\ dump' \in BOOLEAN /\ (~library => ~dump') /\ faults' \in Nat
    /\ astray' \subseteq {"status", "dump"} /\ ("status" \notin astray' => "status" \notin astray)
    /\ (built /\ "dump" \notin astray => DumpStored) => (built' /\ "dump" \notin astray' => DumpStored')

LEMMA CallKeeps ==
    ASSUME IInv, NEW c \in Callers, NEW state, NEW suspect \in BOOLEAN, Call(c, state, suspect),
           UNCHANGED <<run, stored, status, library, mine, overtaken, configVars, loaded, registered,
                       crossed, osVars>>,
           DumpKept, CallOK(c)', state.pc \notin {"status", "set", "apply", "register"},
           state.pc = "configure" => Dealt(state.items, state.todo) = 0,
           ~overlap' => SavedBy(c)',
           added' \subseteq added, state.pc = "erase" => added' = {}
    PROVE  IInv' /\ Tells
<1>1. /\ OthersStay(c) /\ AnswersOK' /\ TellsOf(c)
      /\ th[c].pc = "idle" /\ th'[c] = state
      /\ \A d \in Callers \ {c} : excused'[d] = excused[d]
      /\ calls' \in Nat /\ overlap' \in BOOLEAN
      /\ ~overlap' => ~overlap /\ os.pc = "idle" /\ \A d \in Callers : th[d].pc = "idle"
  BY CallFacts
<1>2. /\ run' = run /\ stored' = stored /\ status' = status /\ mine' = mine /\ overtaken' = overtaken
      /\ library' = library /\ config' = config /\ range' = range /\ loaded' = loaded
      /\ registered' = registered /\ crossed' = crossed /\ os' = os /\ events' = events /\ sent' = sent
  BY DEF configVars, osVars
<1>3. StoredOK'
  BY <1>2 DEF IInv, StoredOK
<1>4. RestOK'
  <2>1. RestOK
    BY DEF IInv
  <2> QED
    BY <1>1, <1>2, <2>1 DEF RestOK, DumpKept
<1>5. \A d \in Callers : CallOK(d)'
  BY <1>1, <1>2, OtherCalls
<1>6. OsOK' /\ OwnSettingsStay'
  BY <1>2 DEF IInv, OsOK, OwnSettingsStay
<1>7. Calm'
  <2> SUFFICES ASSUME ~overlap' PROVE (AloneOK /\ StatusOK /\ DumpOK /\ SavedOK /\ InForceOK)'
    BY DEF Calm
  <2>1. AloneOK /\ StatusOK /\ DumpOK /\ os.pc = "idle" /\ \A d \in Callers : th[d].pc = "idle"
    BY <1>1 DEF IInv, Calm
  <2>2. \A d \in Callers \ {c} : th'[d].pc = "idle"
    BY <1>1, <2>1 DEF OthersStay
  <2>3. AloneOK'
    BY <1>2, <2>1, <2>2 DEF AloneOK, Busy
  <2>4. /\ "status" \notin astray => (status <=> CurSysPageSwitchStatus)
        /\ built /\ "dump" \notin astray => DumpStored
    BY <2>1 DEF StatusOK, DumpOK, Telling
  <2>5. CurSysPageSwitchStatus' <=> CurSysPageSwitchStatus
    BY <1>2 DEF CurSysPageSwitchStatus
  <2>6. StatusOK' /\ DumpOK'
    BY <1>1, <1>2, <2>2, <2>4, <2>5, StatusNow, DumpNow DEF DumpKept
  <2>7. SavedOK'
    BY <2>2 DEF SavedOK, SavedBy, PolicyPcs
  <2>8. InForceOK'
    <3>1. At(c, "configure")' => 1..Dealt(state.items, state.todo) = {}
      BY <1>1 DEF At
    <3> QED
      BY <1>1, <2>2, <3>1 DEF InForceOK, At
  <2> QED
    BY <2>3, <2>6, <2>7, <2>8
<1>8. ConfigsAreInRange'
  BY DEF IInv, ConfigsAreInRange
<1>9. RegisteredOK'
  BY <1>1, <1>2 DEF IInv, RegisteredOK, OthersStay, At
<1> QED
  BY <1>1, <1>3, <1>4, <1>5, <1>6, <1>7, <1>8, <1>9, OthersTell DEF IInv

LEMMA MiniDumpFacts ==
    ASSUME IInv
    PROVE  /\ MiniDump \in BOOLEAN /\ (~library => ~MiniDump)
           /\ built => (MiniDump <=> dump)
           /\ ~built => (MiniDump <=> library /\ stored["minidump"].value = "true")
<1>1. built \in BOOLEAN /\ dump \in BOOLEAN /\ library \in BOOLEAN /\ (~library => ~dump)
  BY Zenon DEF IInv, RestOK
<1>2. CASE built
  <2>1. MiniDump = dump
    BY <1>2, Zenon DEF MiniDump
  <2> QED
    BY <1>1, <1>2, <2>1
<1>3. CASE ~built
  <2>1. MiniDump = (library /\ stored["minidump"].value = "true")
    BY <1>3, Zenon DEF MiniDump
  <2> QED
    BY <1>1, <1>3, <2>1
<1> QED
  BY <1>2, <1>3

LEMMA InitMiniDump ==
    ASSUME IInv, InitMiniDumpConfig, stored' = stored, library' = library
    PROVE  DumpKept
<1>1. /\ MiniDump \in BOOLEAN /\ (~library => ~MiniDump)
      /\ built => (MiniDump <=> dump)
      /\ ~built => (MiniDump <=> library /\ stored["minidump"].value = "true")
  BY MiniDumpFacts
<1>2. /\ built \in BOOLEAN /\ dump \in BOOLEAN /\ (~library => ~dump) /\ faults \in Nat
      /\ astray \subseteq {"status", "dump"}
  BY DEF IInv, RestOK
<1>3. built' = TRUE
  BY DEF InitMiniDumpConfig
<1>4. CASE dump' = MiniDump /\ astray' = astray /\ faults' = faults
  <2>1. dump' \in BOOLEAN /\ (dump' <=> MiniDump)
    BY <1>1, <1>4
  <2> HIDE DEF MiniDump
  <2>2. (built /\ "dump" \notin astray => DumpStored) => (built' /\ "dump" \notin astray' => DumpStored')
    BY <1>1, <1>3, <1>4, <2>1 DEF DumpStored
  <2> QED
    BY <1>1, <1>2, <1>3, <1>4, <2>1, <2>2 DEF DumpKept
<1>5. CASE Fault /\ astray' = astray \cup {"dump"} /\ dump' = dump
  BY <1>2, <1>3, <1>5 DEF Fault, DumpKept
<1> QED
  BY <1>4, <1>5 DEF InitMiniDumpConfig

LEMMA ConfigEventPolicyCall ==
    ASSUME IInv, NEW c \in Callers, NEW p \in Packs, ConfigEventPolicy(c, p.by, p.pack)
    PROVE  IInv' /\ Tells
<1> DEFINE pack == p.pack
           suspect == \E n \in DOMAIN pack : Doubtful(pack[n])
           state == [pc |-> "start", by |-> p.by, pack |-> pack, todo |-> pack, conf |-> Head(pack).conf,
                     kept |-> {}, seen |-> FALSE, good |-> TRUE]
<1>1. /\ UNCHANGED <<run, stored, status, library, mine, overtaken, configVars, processorVars, osVars>>
      /\ RestOK
  BY DEF ConfigEventPolicy, IInv
<1>2. /\ UNCHANGED <<run, stored, status, library, mine, overtaken, configVars, loaded, registered,
                     crossed, osVars>>
      /\ stored' = stored /\ library' = library /\ added' \subseteq added
  BY <1>1 DEF processorVars
<1>3. CASE Call(c, Idle, TRUE) /\ UNCHANGED <<built, dump, astray, faults>>
  <2>1. built' = built /\ dump' = dump /\ astray' = astray /\ faults' = faults
    BY <1>3
  <2>2. DumpKept
    BY <1>1, <1>2, <2>1 DEF DumpKept, RestOK, DumpStored
  <2>3. Idle.pc = "idle" /\ th'[c] = Idle
    BY <1>3, CallFacts DEF Idle
  <2>4. CallOK(c)' /\ SavedBy(c)'
    BY <2>3 DEF CallOK, SavedBy, PolicyPcs, ProcessorPcs
  <2> QED
    BY <1>2, <1>3, <2>2, <2>3, <2>4, CallKeeps
<1>4. CASE Call(c, state, suspect) /\ InitMiniDumpConfig
  <2>1. DumpKept
    BY <1>2, <1>4, InitMiniDump
  <2>2. IsPack(pack) /\ pack \in Seq(ToSet(pack)) /\ pack # <<>>
    BY SettingsAssumption DEF IsPack
  <2>3. IsRest(pack, pack) /\ Dealt(pack, pack) = 0
    <3> HIDE DEF pack
    <3> QED
      BY <2>2, RestOfAll
  <2>4. /\ DOMAIN state = PackFields /\ state.pc = "start" /\ state.pack = pack
        /\ state.todo = pack /\ state.conf = Head(pack).conf
        /\ state.seen = FALSE /\ state.good = TRUE
    BY DEF PackFields
  <2> HIDE DEF state, pack
  <2>5. suspect \in BOOLEAN
    OBVIOUS
  <2> HIDE DEF suspect
  <2>6. th'[c] = state /\ excused'[c] = suspect
    BY <1>4, <2>5, CallFacts
  <2>7. ItemsLeft("start", state.conf, Head(pack))
    BY <2>4 DEF ItemsLeft
  <2>8. PackOK(c)'
    BY <2>2, <2>3, <2>4, <2>6, <2>7 DEF PackOK, suspect
  <2>9. CallOK(c)'
    BY <2>4, <2>6, <2>8 DEF CallOK, PolicyPcs, ProcessorPcs
  <2>10. SavedBy(c)'
    BY <2>3, <2>4, <2>6 DEF SavedBy, SavedUpTo
  <2> QED
    BY <1>2, <1>4, <2>1, <2>4, <2>5, <2>9, <2>10, CallKeeps
<1> QED
  BY <1>3, <1>4 DEF ConfigEventPolicy

LEMMA SetCrashLogCall ==
    ASSUME IInv, NEW c \in Callers, NEW value \in BOOLEAN, SetCrashLogConfig(c, value)
    PROVE  IInv' /\ Tells
<1>1. /\ built' = TRUE /\ astray' = astray \cup {"dump"}
      /\ UNCHANGED <<run, stored, status, library, mine, overtaken, configVars, loaded, registered,
                     crossed, osVars>>
      /\ added' \subseteq added
  BY DEF SetCrashLogConfig, processorVars
<1>2. PICK suspect \in BOOLEAN : Call(c, Idle, suspect)
  <2>1. Call(c, Idle, ~library)
    BY DEF SetCrashLogConfig
  <2>2. CASE library
    <3>1. Call(c, Idle, FALSE)
      BY <2>1, <2>2 DEF Call
    <3> QED
      BY <3>1
  <2>3. CASE ~library
    <3>1. Call(c, Idle, TRUE)
      BY <2>1, <2>3 DEF Call
    <3> QED
      BY <3>1
  <2> QED
    BY <2>2, <2>3
<1>3. Idle.pc = "idle" /\ th'[c] = Idle
  BY <1>2, CallFacts DEF Idle
<1>4. CallOK(c)' /\ SavedBy(c)'
  BY <1>3 DEF CallOK, SavedBy, PolicyPcs, ProcessorPcs
<1>5. DumpKept
  <2>1. faults \in Nat /\ astray \subseteq {"status", "dump"} /\ library \in BOOLEAN
    BY DEF IInv, RestOK
  <2>2. dump' = MiniDump \/ dump' = (library /\ value)
    BY Zenon DEF SetCrashLogConfig
  <2>3. dump' \in BOOLEAN /\ (~library => ~dump')
    <3>1. MiniDump \in BOOLEAN /\ (~library => ~MiniDump)
      BY MiniDumpFacts
    <3> HIDE DEF MiniDump
    <3>2. CASE dump' = MiniDump
      BY <3>1, <3>2
    <3>3. CASE dump' = (library /\ value)
      BY <3>3
    <3> QED
      BY <2>2, <3>2, <3>3
  <2>4. faults' \in Nat
    BY <2>1 DEF SetCrashLogConfig, Fault
  <2> QED
    BY <1>1, <2>1, <2>3, <2>4 DEF DumpKept
<1> QED
  BY <1>1, <1>3, <1>4, <1>5, <1>2, CallKeeps

\* A call that is not about the policies.
LEMMA OtherCallKeeps ==
    ASSUME IInv, NEW c \in Callers, NEW state, NEW suspect \in BOOLEAN, Call(c, state, suspect),
           UNCHANGED <<run, policyVars, configVars, loaded, registered, crossed, osVars, faults>>,
           CallOK(c)', state.pc \in {"configure", "load", "erase"},
           state.pc = "configure" => Dealt(state.items, state.todo) = 0,
           added' \subseteq added, state.pc = "erase" => added' = {}
    PROVE  IInv' /\ Tells
<1>1. /\ UNCHANGED <<run, stored, status, library, mine, overtaken, configVars, loaded, registered,
                     crossed, osVars>>
      /\ stored' = stored /\ library' = library /\ built' = built /\ dump' = dump
      /\ astray' = astray /\ faults' = faults
  BY DEF policyVars
<1>2. DumpKept
  BY <1>1 DEF DumpKept, IInv, RestOK, DumpStored
<1>3. SavedBy(c)'
  BY CallFacts DEF SavedBy, PolicyPcs
<1> QED
  BY <1>1, <1>2, <1>3, CallKeeps

LEMMA ConfigureCall ==
    ASSUME IInv, NEW c \in Callers, NEW items \in Options, Configure(c, items)
    PROVE  IInv' /\ Tells
<1> DEFINE state == [pc |-> "configure", items |-> items, todo |-> items]
           suspect == \E n \in DOMAIN items : ~RightOption(items[n])
<1>1. /\ Call(c, state, suspect) /\ suspect \in BOOLEAN /\ added' \subseteq added
      /\ UNCHANGED <<run, policyVars, configVars, loaded, registered, crossed, osVars, faults>>
  BY DEF Configure, processorVars
<1>2. IsOptions(items) /\ items \in Seq(ToSet(items)) /\ items # <<>>
  BY SettingsAssumption DEF IsOptions
<1>3. IsRest(items, items) /\ Dealt(items, items) = 0
  BY <1>2, RestOfAll
<1>4. /\ DOMAIN state = {"pc", "items", "todo"} /\ state.pc = "configure"
      /\ state.items = items /\ state.todo = items
  OBVIOUS
<1> HIDE DEF state
<1>5. th'[c] = state /\ excused'[c] = suspect
  <2> HIDE DEF suspect
  <2> QED
    BY <1>1, CallFacts
<1>6. ConfigureOK(c)'
  BY <1>2, <1>3, <1>4, <1>5 DEF ConfigureOK
<1>7. CallOK(c)'
  BY <1>4, <1>5, <1>6 DEF CallOK, PolicyPcs, ProcessorPcs
<1> HIDE DEF suspect
<1> QED
  BY <1>1, <1>3, <1>4, <1>7, OtherCallKeeps

--------------------------------------------------------------------------------
(* Configurations of processors: what each interface makes of any of them.       *)

LEMMA FineLists == Fine(<<>>) /\ \A list : Fine(AllOrNone(list))
<1>1. Fine(<<>>)
  BY DEF Fine
<1>2. ASSUME NEW list PROVE Fine(AllOrNone(list))
  BY <1>1 DEF AllOrNone
<1> QED
  BY <1>1, <1>2

LEMMA FewCustoms ==
    ASSUME NEW list
    PROVE  Len(AllOrNone(Number(list))) <= MaxCustoms
<1>1. Len(<<>>) <= MaxCustoms
  BY MaxCustomsAssumption
<1>2. CASE Len(list) <= MaxCustoms
  BY <1>1, <1>2 DEF AllOrNone, Number
<1>3. CASE ~(Len(list) <= MaxCustoms)
  BY <1>1, <1>3 DEF AllOrNone, Number
<1> QED
  BY <1>2, <1>3

\* What the checks of the manager leave is in range, and its lists are whole.
LEMMA VerifiedIsInRange ==
    ASSUME NEW conf
    PROVE  LET v == VerifyReportConfig(conf) IN
           /\ DOMAIN v = Fields /\ InRange(v)
           /\ \A f \in Lists : v[f] \in {<<>>, conf[f]}
<1> DEFINE v == VerifyReportConfig(conf)
<1>1. DOMAIN v = Fields
  BY DEF VerifyReportConfig
<1>2. \A f \in Scalars : v[f] \in {"good", "absent"}
  <2>1. \A f \in Scalars : v[f] = GoodOr(conf[f])
    BY DEF VerifyReportConfig, Fields, Scalars, Lists
  <2> QED
    BY <2>1 DEF GoodOr
<1>3. v["customs"] = AllOrNone(Number(conf["customs"]))
  BY DEF VerifyReportConfig, Fields, Scalars, Lists
<1>4. \A f \in Lists \ {"customs"} : v[f] = AllOrNone(conf[f])
  BY DEF VerifyReportConfig, Fields, Scalars, Lists
<1> HIDE DEF v
<1>5. \A f \in Lists : Fine(v[f])
  BY <1>3, <1>4, FineLists
<1>6. Len(v["customs"]) <= MaxCustoms
  BY <1>3, FewCustoms
<1>7. \A f \in Lists : v[f] \in {<<>>, conf[f]}
  BY <1>3, <1>4 DEF AllOrNone, Number
<1> QED
  BY <1>1, <1>2, <1>5, <1>6, <1>7 DEF InRange, v

LEMMA ConfigByRange ==
    ASSUME NEW by \in Interfaces \ {"file"}, NEW given \in Configs, NEW named \in BOOLEAN,
           NEW file \in Files
    PROVE  LET conf == ConfigBy(by, given, named, file)
               source == Source(by, given, named, file) IN
           DOMAIN conf = Fields /\ DOMAIN source = Fields /\ RangeOK(by, conf, source)
<1> DEFINE conf == ConfigBy(by, given, named, file)
           source == Source(by, given, named, file)
<1>1. DOMAIN file = Fields /\ DOMAIN given = Fields /\ by \in {"js", "ets", "cj", "ndk", "inner"}
  BY SettingsAssumption DEF Interfaces
<1>2. source \in {given, file}
  BY DEF Source
<1>3. DOMAIN source = Fields
  BY <1>1, <1>2
<1>4. CASE by \in {"js", "inner"}
  <2>1. \/ conf = file /\ source = file /\ LoadProcessorConfig(file)
        \/ conf = VerifyReportConfig(given) /\ source = given
    BY <1>4 DEF ConfigBy, JsConfig, InnerConfig, JsTransConfig, Source
  <2> HIDE DEF conf, source
  <2>2. /\ DOMAIN conf = Fields /\ (InRange(conf) \/ (conf \in Files /\ LoadProcessorConfig(conf)))
        /\ \A f \in Lists : conf[f] \in {<<>>, source[f]}
    BY <1>1, <2>1, VerifiedIsInRange
  <2> QED
    BY <1>4, <1>3, <2>2 DEF RangeOK, conf, source
<1>5. CASE by = "ndk"
  <2> DEFINE taken == IF named /\ LoadProcessorConfig(file) THEN file ELSE NdkSetters(given)
  <2>1. conf = VerifyReportConfig(taken)
    BY <1>5 DEF ConfigBy, NdkConfig
  <2>2. \A f \in {"userIds", "userProperties"} : taken[f] \in {<<>>, source[f]}
    <3>1. \A f \in {"userIds", "userProperties"} : NdkSetters(given)[f] = AllOrNone(given[f])
      BY DEF NdkSetters, Fields, Scalars, Lists
    <3>2. \/ taken = file /\ source = file
          \/ taken = NdkSetters(given) /\ source = given
      BY <1>5 DEF Source
    <3> HIDE DEF taken, source
    <3> QED
      BY <3>1, <3>2 DEF AllOrNone
  <2> HIDE DEF conf, taken, source
  <2>3. DOMAIN conf = Fields /\ InRange(conf) /\ \A f \in Lists : conf[f] \in {<<>>, taken[f]}
    BY <2>1, VerifiedIsInRange
  <2>4. \A f \in {"userIds", "userProperties"} : conf[f] \in {<<>>, source[f]}
    BY <2>2, <2>3 DEF Lists
  <2> QED
    BY <1>5, <1>3, <2>3, <2>4 DEF RangeOK, conf, source
<1>6. CASE by = "ets"
  <2>1. conf = EtsTransConfig(given) /\ source = given
    BY <1>6 DEF ConfigBy, Source
  <2>2. /\ DOMAIN conf = Fields
        /\ \A f \in {"userIds", "userProperties"} : conf[f] = AllOrNone(given[f])
        /\ conf["customs"] = Number(given["customs"])
    BY <2>1 DEF EtsTransConfig, Fields, Lists
  <2> HIDE DEF conf, source
  <2>3. \A f \in {"userIds", "userProperties"} : Fine(conf[f]) /\ conf[f] \in {<<>>, source[f]}
    BY <2>1, <2>2, FineLists DEF AllOrNone
  <2>4. conf["customs"] \in {<<>>, source["customs"]}
    BY <2>1, <2>2 DEF Number
  <2> QED
    BY <1>6, <1>3, <2>2, <2>3, <2>4 DEF RangeOK, conf, source
<1>7. CASE by = "cj"
  <2> DEFINE left == [conf EXCEPT !["routeInfo"] = "absent", !["appId"] = "absent",
                                  !["userIds"] = <<>>, !["userProperties"] = <<>>]
  <2>1. conf = CjConvertReportConfig(given) /\ source = given
    BY <1>7 DEF ConfigBy, Source
  <2>2. /\ DOMAIN conf = Fields
        /\ \A f \in {"period", "batch"} : conf[f] = GoodOr(given[f])
        /\ conf["events"] = AllOrNone(given["events"])
        /\ conf["configId"] = "absent" /\ conf["customs"] = <<>>
    BY <2>1 DEF CjConvertReportConfig, Default, Fields, Lists, Scalars
  <2> HIDE DEF conf, source
  <2>3. /\ left["routeInfo"] = "absent" /\ left["appId"] = "absent"
        /\ left["userIds"] = <<>> /\ left["userProperties"] = <<>>
        /\ left["period"] = conf["period"] /\ left["batch"] = conf["batch"]
        /\ left["configId"] = conf["configId"]
        /\ left["events"] = conf["events"] /\ left["customs"] = conf["customs"]
    BY <2>2 DEF Fields, Scalars, Lists
  <2> HIDE DEF left
  <2>4. \A f \in Scalars : left[f] \in {"good", "absent"}
    BY <2>2, <2>3 DEF Scalars, GoodOr
  <2>5. \A f \in Lists : Fine(left[f])
    BY <2>2, <2>3, FineLists DEF Lists
  <2>6. Len(left["customs"]) <= MaxCustoms
    BY <2>2, <2>3, MaxCustomsAssumption
  <2>7. InRange(left)
    BY <2>4, <2>5, <2>6 DEF InRange
  <2>8. conf["events"] \in {<<>>, source["events"]}
    BY <2>1, <2>2 DEF AllOrNone
  <2> QED
    BY <1>7, <1>3, <2>2, <2>7, <2>8 DEF RangeOK, left, conf, source
<1> QED
  BY <1>1, <1>4, <1>5, <1>6, <1>7

LEMMA AddCall ==
    ASSUME IInv, NEW c \in Callers, NEW by, NEW conf, NEW given, NEW state, NEW suspect \in BOOLEAN,
           state = [pc |-> "load", by |-> by, conf |-> conf, given |-> given], Call(c, state, suspect),
           UNCHANGED <<run, policyVars, configVars, processorVars, osVars, faults>>,
           DOMAIN conf = Fields, DOMAIN given = Fields,
           by = "file" => conf \in Files /\ given = conf /\ (LoadProcessorConfig(conf) \/ suspect),
           by # "file" => RangeOK(by, conf, given)
    PROVE  IInv' /\ Tells
<1>1. /\ Call(c, state, suspect) /\ added' \subseteq added
      /\ UNCHANGED <<run, policyVars, configVars, loaded, registered, crossed, osVars, faults>>
  BY DEF processorVars
<1>2. /\ DOMAIN state = {"pc", "by", "conf", "given"} /\ state.pc = "load" /\ state.by = by
      /\ state.conf = conf /\ state.given = given
  OBVIOUS
<1>3. th'[c] = state /\ excused'[c] = suspect
  BY <1>1, CallFacts
<1>4. LoadOK(c)'
  <2>1. th'[c].by # "file" => RangeOK(th'[c].by, th'[c].conf, th'[c].given)
    BY <1>2, <1>3
  <2> QED
    BY <1>2, <1>3, <2>1 DEF LoadOK
<1>5. CallOK(c)'
  BY <1>2, <1>3, <1>4 DEF CallOK, PolicyPcs, ProcessorPcs
<1> QED
  BY <1>1, <1>2, <1>5, OtherCallKeeps

LEMMA AddProcessorCall ==
    ASSUME IInv, NEW c \in Callers, NEW by \in Interfaces, NEW given \in Configs,
           NEW named \in BOOLEAN, NEW file \in Files, AddProcessor(c, by, given, named, file)
    PROVE  IInv' /\ Tells
<1> DEFINE conf == ConfigBy(by, given, named, file)
           source == Source(by, given, named, file)
           state == [pc |-> "load", by |-> by, conf |-> conf, given |-> source]
<1>1. /\ by \in Interfaces \ {"file"} /\ by # "file" /\ Call(c, state, FALSE)
      /\ UNCHANGED <<run, policyVars, configVars, processorVars, osVars, faults>>
  BY DEF AddProcessor
<1>2. DOMAIN conf = Fields /\ DOMAIN source = Fields /\ RangeOK(by, conf, source)
  BY <1>1, ConfigByRange
<1>3. state = [pc |-> "load", by |-> by, conf |-> conf, given |-> source]
  OBVIOUS
<1> HIDE DEF state, conf, source
<1> QED
  BY <1>1, <1>2, <1>3, AddCall

LEMMA AddFromConfigCall ==
    ASSUME IInv, NEW c \in Callers, NEW file \in Files, AddProcessorFromConfig(c, file)
    PROVE  IInv' /\ Tells
<1> DEFINE suspect == ~LoadProcessorConfig(file)
           state == [pc |-> "load", by |-> "file", conf |-> file, given |-> file]
<1>1. DOMAIN file = Fields
  BY SettingsAssumption
<1>2. /\ Call(c, state, suspect)
      /\ UNCHANGED <<run, policyVars, configVars, processorVars, osVars, faults>>
  BY DEF AddProcessorFromConfig
<1>3. suspect \in BOOLEAN /\ (LoadProcessorConfig(file) \/ suspect)
  BY DEF LoadProcessorConfig
<1>4. state = [pc |-> "load", by |-> "file", conf |-> file, given |-> file]
  OBVIOUS
<1> HIDE DEF state, suspect
<1> QED
  BY <1>1, <1>2, <1>3, <1>4, AddCall

LEMMA UnregisterCall ==
    ASSUME IInv, NEW c \in Callers, UnregisterProcessor(c)
    PROVE  IInv' /\ Tells
<1> DEFINE state == [pc |-> "erase"]
<1>1. /\ Call(c, state, FALSE) /\ added' = {}
      /\ UNCHANGED <<run, policyVars, configVars, loaded, registered, crossed, osVars, faults>>
  BY DEF UnregisterProcessor, RemoveObservers
<1>2. DOMAIN state = {"pc"} /\ state.pc = "erase"
  OBVIOUS
<1> HIDE DEF state
<1>3. th'[c] = state
  BY <1>1, CallFacts
<1>4. CallOK(c)'
  BY <1>2, <1>3 DEF CallOK, PolicyPcs, ProcessorPcs
<1> QED
  BY <1>1, <1>2, <1>4, OtherCallKeeps

--------------------------------------------------------------------------------
(* The steps of a thread that configures, adds or takes back a processor.        *)

LEMMA ThreadStepKeeps ==
    ASSUME IInv, NEW c \in Callers,
           th[c].pc \in ProcessorPcs \cup {"configure", "erase"}, th'[c].pc \notin PolicyPcs,
           OthersStay(c), AnswersOK', CallOK(c)', Excusing(c),
           UNCHANGED <<run, policyVars, osVars, calls, overlap>>, faults' \in Nat,
           config' \in [disable : BOOLEAN, quota : Quotas \cup {"default"}], range' \subseteq Callers,
           \A d \in Callers \ {c} : d \in range => d \in range',
           loaded' \in BOOLEAN, registered' \in BOOLEAN, crossed' \in BOOLEAN,
           \A p \in added' : DOMAIN p.conf = Fields /\ DOMAIN p.given = Fields,
           ConfigsAreInRange', RegisteredOK',
           ~overlap /\ At(c, "configure")' =>
               \A n \in 1..Dealt(th'[c].items, th'[c].todo) : InForce(config', th'[c].items[n])
    PROVE  IInv'
<1>1. /\ run' = run /\ stored' = stored /\ status' = status /\ mine' = mine /\ overtaken' = overtaken
      /\ library' = library /\ built' = built /\ dump' = dump /\ astray' = astray /\ calls' = calls
      /\ overlap' = overlap /\ os' = os /\ events' = events /\ sent' = sent
  BY DEF policyVars, osVars
<1>2. StoredOK' /\ OsOK' /\ OwnSettingsStay'
  BY <1>1 DEF IInv, StoredOK, OsOK, OwnSettingsStay
<1>3. RestOK'
  <2>1. RestOK
    BY DEF IInv
  <2> QED
    BY <1>1, <2>1 DEF RestOK
<1>4. \A d \in Callers : CallOK(d)'
  BY <1>1, OtherCalls DEF Excusing
<1>5. Calm'
  <2> SUFFICES ASSUME ~overlap' PROVE (AloneOK /\ StatusOK /\ DumpOK /\ SavedOK /\ InForceOK)'
    BY DEF Calm
  <2>1. /\ ~overlap /\ AloneOK /\ th[c].pc # "idle" /\ th[c].pc \notin {"status", "set", "apply"}
    BY <1>1 DEF IInv, Calm, ProcessorPcs
  <2>2. AloneOK' /\ \A d \in Callers \ {c} : th'[d].pc = "idle"
    BY <1>1, <2>1, StillAlone
  <2>3. /\ "status" \notin astray => (status <=> CurSysPageSwitchStatus)
        /\ built /\ "dump" \notin astray => DumpStored
    BY <2>1, AloneFacts
  <2>4. /\ CurSysPageSwitchStatus' <=> CurSysPageSwitchStatus
        /\ DumpStored' <=> DumpStored
    BY <1>1 DEF CurSysPageSwitchStatus, DumpStored
  <2>5. th'[c].pc \notin {"status", "set", "apply"}
    BY DEF PolicyPcs
  <2>6. StatusOK' /\ DumpOK'
    BY <1>1, <2>2, <2>3, <2>4, <2>5, StatusNow, DumpNow
  <2>7. SavedOK'
    BY <2>2 DEF SavedOK, SavedBy, PolicyPcs
  <2>8. InForceOK'
    BY <2>1, <2>2 DEF InForceOK, At
  <2> QED
    BY <2>2, <2>6, <2>7, <2>8
<1> QED
  BY <1>2, <1>3, <1>4, <1>5 DEF IInv

\* A right item that has been taken is in force, and so are those taken before it.
LEMMA TakenInForce ==
    ASSUME NEW items, IsOptions(items), NEW n \in Nat, n + 1 \in DOMAIN items,
           RestOK, \A m \in 1..(n + 1) : RightOption(items[m]),
           \A m \in 1..n : InForce(config, items[m]),
           \/ items[n + 1].item = "disable" /\ config' = [config EXCEPT !.disable = (items[n + 1].value = "true")]
           \/ items[n + 1].item = "maxStorage" /\ config' = [config EXCEPT !.quota = items[n + 1].value],
           NEW m \in 1..(n + 1)
    PROVE  InForce(config', items[m])
<1> DEFINE i == items[n + 1]
           v == (i.value = "true")
<1>1. config \in [disable : BOOLEAN, quota : Quotas \cup {"default"}]
  BY DEF RestOK
<1>2. DOMAIN items = 1..Len(items) /\ Len(items) \in Nat
  BY DEF IsOptions
<1>3. m \in DOMAIN items /\ (m # n + 1 => m \in 1..n /\ items[m].item # i.item)
  BY <1>2 DEF IsOptions
<1>4. RightOption(items[m]) /\ items[m].item \in {"disable", "maxStorage"}
  BY DEF RightOption
<1>5. CASE i.item = "disable" /\ config' = [config EXCEPT !.disable = v]
  <2>1. v \in BOOLEAN
    OBVIOUS
  <2>2. CASE m = n + 1
    <3>1. config'.disable = v
      <4> HIDE DEF v
      <4> QED
        BY <1>1, <1>5
    <3> QED
      BY <1>5, <2>2, <3>1, Zenon DEF InForce
  <2>3. CASE m # n + 1
    <3>1. items[m].item = "maxStorage" /\ InForce(config, items[m])
      BY <1>3, <1>4, <1>5, <2>3
    <3>2. config'.quota = config.quota
      <4> HIDE DEF v
      <4> QED
        BY <1>1, <1>5
    <3> QED
      BY <3>1, <3>2 DEF InForce
  <2> QED
    BY <2>2, <2>3
<1>6. CASE i.item = "maxStorage" /\ config' = [config EXCEPT !.quota = i.value]
  <2>1. config'.quota = i.value /\ config'.disable = config.disable
    BY <1>1, <1>6
  <2>2. CASE m = n + 1
    BY <1>6, <2>1, <2>2 DEF InForce
  <2>3. CASE m # n + 1
    <3>1. items[m].item = "disable" /\ InForce(config, items[m])
      BY <1>3, <1>4, <1>6, <2>3
    <3> QED
      BY <2>1, <3>1, Zenon DEF InForce
  <2> QED
    BY <2>2, <2>3
<1> QED
  BY <1>5, <1>6

LEMMA SetConfigurationItemStep ==
    ASSUME IInv, NEW c \in Callers, SetConfigurationItem(c)
    PROVE  IInv' /\ Tells
<1> DEFINE s == th[c]
           i == Head(s.todo)
           n == Dealt(s.items, s.todo)
           next == [s EXCEPT !.todo = Tail(s.todo)]
<1>1. th[c].pc = "configure" /\ ConfigureOK(c) /\ AnswersOK /\ RestOK /\ c \in DOMAIN th
  BY DEF SetConfigurationItem, At, IInv, CallOK, AnswersOK
<1>2. /\ UNCHANGED <<run, policyVars, processorVars, osVars, calls, overlap>>
      /\ faults' = faults /\ faults' \in Nat
      /\ excused' = excused /\ run' = run /\ overlap' = overlap /\ Excusing(c)
  BY <1>1 DEF SetConfigurationItem, RestOK, Excusing, AnswersOK
<1>3. /\ DOMAIN s = {"pc", "items", "todo"} /\ IsOptions(s.items)
      /\ (\E m \in DOMAIN s.items : ~RightOption(s.items[m])) => excused[c]
      /\ \A m \in 1..n : RightOption(s.items[m])
  BY <1>1 DEF ConfigureOK
<1>4. /\ n \in Nat /\ n + 1 \in DOMAIN s.items /\ i = s.items[n + 1]
      /\ DOMAIN s.items = 1..Len(s.items) /\ Len(s.items) \in Nat
      /\ Len(s.todo) = 1 => n + 1 = Len(s.items)
      /\ Len(s.todo) # 1 => IsRest(Tail(s.todo), s.items) /\ Dealt(s.items, Tail(s.todo)) = n + 1
  <2> DEFINE items == s.items
             todo == s.todo
  <2>1. IsRest(todo, items) /\ items \in Seq(ToSet(items))
    BY <1>1 DEF ConfigureOK, IsOptions
  <2> HIDE DEF items, todo
  <2>2. /\ Dealt(items, todo) \in Nat /\ Dealt(items, todo) + 1 \in 1..Len(items)
        /\ DOMAIN items = 1..Len(items) /\ Len(items) \in Nat
        /\ Head(todo) = items[Dealt(items, todo) + 1]
        /\ Len(todo) = 1 <=> Tail(todo) = <<>>
        /\ Tail(todo) = <<>> => Dealt(items, todo) + 1 = Len(items)
        /\ Tail(todo) # <<>> => IsRest(Tail(todo), items) /\ Dealt(items, Tail(todo)) = Dealt(items, todo) + 1
    BY <2>1, RestTail
  <2> QED
    BY <2>2 DEF items, todo
<1>5. /\ config' \in [disable : BOOLEAN, quota : Quotas \cup {"default"}]
      /\ range' \subseteq Callers /\ \A d \in Callers \ {c} : d \in range => d \in range'
  <2>1. config \in [disable : BOOLEAN, quota : Quotas \cup {"default"}] /\ range \subseteq Callers
    BY <1>1 DEF RestOK
  <2>2. \/ config' = [config EXCEPT !.disable = (i.value = "true")]
        \/ i.value \in Quotas /\ config' = [config EXCEPT !.quota = i.value]
        \/ config' = config
    BY DEF SetConfigurationItem, configVars, RightOption
  <2>3. range' \in {range, range \ {c}, range \cup {c}}
    BY DEF SetConfigurationItem, configVars
  <2>4. (i.value = "true") \in BOOLEAN
    OBVIOUS
  <2> HIDE DEF i
  <2>5. config' \in [disable : BOOLEAN, quota : Quotas \cup {"default"}]
    <3>1. CASE config' = [config EXCEPT !.disable = (i.value = "true")]
      BY <2>1, <2>4, <3>1
    <3>2. CASE i.value \in Quotas /\ config' = [config EXCEPT !.quota = i.value]
      BY <2>1, <3>2
    <3> QED
      BY <2>1, <2>2, <3>1, <3>2
  <2> QED
    BY <2>1, <2>3, <2>5
<1>6. ASSUME th'[c].pc \in {"idle", "configure"}, OthersStay(c), AnswersOK', CallOK(c)',
             ~overlap /\ At(c, "configure")' =>
                 \A m \in 1..Dealt(th'[c].items, th'[c].todo) : InForce(config', th'[c].items[m])
      PROVE  IInv'
  <2>1. /\ loaded' = loaded /\ registered' = registered /\ crossed' = crossed /\ added' = added
    BY <1>2 DEF processorVars
  <2>2. /\ loaded' \in BOOLEAN /\ registered' \in BOOLEAN /\ crossed' \in BOOLEAN
        /\ \A p \in added' : DOMAIN p.conf = Fields /\ DOMAIN p.given = Fields
    BY <1>1, <2>1 DEF RestOK
  <2>3. ConfigsAreInRange'
    BY <2>1 DEF IInv, ConfigsAreInRange
  <2>4. RegisteredOK'
    BY <2>1, <1>6 DEF IInv, RegisteredOK, OthersStay, At
  <2>5. th'[c].pc \notin PolicyPcs
    BY <1>6 DEF PolicyPcs
  <2> QED
    BY <1>1, <1>2, <1>5, <1>6, <2>2, <2>3, <2>4, <2>5, ThreadStepKeeps
<1> DEFINE Took ==
        /\ RightOption(i)
        /\ \/ i.item = "disable" /\ config' = [config EXCEPT !.disable = (i.value = "true")]
           \/ i.item = "maxStorage" /\ config' = [config EXCEPT !.quota = i.value]
<1>7. ASSUME Took
      PROVE  /\ \A m \in 1..(n + 1) : RightOption(s.items[m])
             /\ ~overlap => \A m \in 1..(n + 1) : InForce(config', s.items[m])
  <2>1. \A m \in 1..(n + 1) : m = n + 1 \/ m \in 1..n
    BY <1>4
  <2>2. \A m \in 1..(n + 1) : RightOption(s.items[m])
    BY <1>3, <1>4, <1>7, <2>1
  <2>3. ~overlap => \A m \in 1..n : InForce(config, s.items[m])
    BY <1>1 DEF IInv, Calm, InForceOK, At
  <2>4. ASSUME ~overlap, NEW m \in 1..(n + 1) PROVE InForce(config', s.items[m])
    <3> DEFINE items == s.items
    <3>1. /\ IsOptions(items) /\ n + 1 \in DOMAIN items /\ n \in Nat
          /\ \A k \in 1..(n + 1) : RightOption(items[k])
          /\ \A k \in 1..n : InForce(config, items[k])
          /\ \/ items[n + 1].item = "disable" /\ config' = [config EXCEPT !.disable = (items[n + 1].value = "true")]
             \/ items[n + 1].item = "maxStorage" /\ config' = [config EXCEPT !.quota = items[n + 1].value]
      BY <1>3, <1>4, <1>7, <2>2, <2>3, <2>4
    <3> HIDE DEF n, items
    <3>2. InForce(config', items[m])
      BY <1>1, <3>1, <2>4, TakenInForce
    <3> QED
      BY <3>2 DEF items
  <2> QED
    BY <2>2, <2>4
<1>8. ASSUME NEW ok \in BOOLEAN, Answer(c, ok),
             ~ok => excused[c] \/ (c \in range /\ HasNumber(s)),
             ok => Len(s.todo) = 1 /\ Took
      PROVE  IInv' /\ Tells
  <2>1. OthersStay(c) /\ AnswersOK' /\ th'[c] = Idle /\ done'[c] = IF ok THEN "ok" ELSE "refused"
    BY <1>1, <1>2, <1>8, AnswerFacts DEF Answered
  <2>2. CallOK(c)' /\ th'[c].pc = "idle"
    BY <2>1 DEF CallOK, PolicyPcs, ProcessorPcs, Idle
  <2>3. TellsOf(c)
    <3>1. ok /\ ~overlap => \A m \in DOMAIN s.items : InForce(config', s.items[m])
      BY <1>4, <1>7, <1>8
    <3>2. done'[c] = "ok" => ok
      BY <2>1
    <3>3. done'[c] = "refused" => ~ok
      BY <2>1
    <3> QED
      BY <1>1, <1>2, <1>3, <1>8, <3>1, <3>2, <3>3 DEF TellsOf, At
  <2>4. ~At(c, "configure")'
    BY <2>2 DEF At
  <2> QED
    BY <1>6, <2>1, <2>2, <2>3, <2>4, OthersTell
<1>9. ASSUME th' = [th EXCEPT ![c].todo = Tail(@)], done' = done, Len(s.todo) # 1, Took
      PROVE  IInv' /\ Tells
  <2>1. th' = [th EXCEPT ![c] = next]
    BY <1>1, <1>3, <1>9
  <2>2. /\ DOMAIN next = {"pc", "items", "todo"} /\ next.pc = "configure" /\ next.items = s.items
        /\ next.todo = Tail(s.todo)
    BY <1>1, <1>3
  <2> HIDE DEF next
  <2>3. OthersStay(c) /\ AnswersOK' /\ th'[c] = next
    BY <1>1, <1>2, <1>9, <2>1, MoveFacts
  <2>4. /\ \A m \in 1..(n + 1) : RightOption(s.items[m])
        /\ ~overlap => \A m \in 1..(n + 1) : InForce(config', s.items[m])
    BY <1>7, <1>9
  <2>5. IsRest(next.todo, s.items) /\ Dealt(s.items, next.todo) = n + 1
    BY <1>4, <1>9, <2>2
  <2>6. ConfigureOK(c)'
    <3> HIDE DEF n, s
    <3> QED
      BY <1>2, <1>3, <2>2, <2>3, <2>4, <2>5 DEF ConfigureOK
  <2>7. CallOK(c)' /\ th'[c].pc = "configure"
    BY <2>2, <2>3, <2>6 DEF CallOK, PolicyPcs, ProcessorPcs
  <2>8. TellsOf(c)
    BY <2>7 DEF TellsOf
  <2>9. ~overlap => \A m \in 1..Dealt(th'[c].items, th'[c].todo) : InForce(config', th'[c].items[m])
    BY <2>2, <2>3, <2>4, <2>5
  <2> QED
    BY <1>6, <2>3, <2>7, <2>8, <2>9, OthersTell
<1>10. ~RightOption(i) => excused[c]
  BY <1>3, <1>4
<1>11. i.item = "maxStorage" => HasNumber(s)
  BY <1>1, <1>4 DEF HasNumber
<1>12. CASE /\ Took
            /\ IF Len(s.todo) = 1 THEN Answer(c, TRUE)
               ELSE th' = [th EXCEPT ![c].todo = Tail(@)] /\ done' = done
  <2>1. CASE Len(s.todo) = 1
    BY <1>8, <1>12, <2>1
  <2>2. CASE Len(s.todo) # 1
    BY <1>9, <1>12, <2>2
  <2> QED
    BY <2>1, <2>2
<1>13. CASE Answer(c, FALSE) /\ (excused[c] \/ (c \in range /\ HasNumber(s)))
  BY <1>8, <1>13
<1> QED
  BY <1>10, <1>11, <1>12, <1>13 DEF SetConfigurationItem

LEMMA LoadStep ==
    ASSUME IInv, NEW c \in Callers, Load(c)
    PROVE  IInv' /\ Tells
<1> DEFINE s == th[c]
           next == [s EXCEPT !.pc = "create"]
<1>1. /\ s.pc = "load" /\ LoadOK(c) /\ AnswersOK /\ RestOK /\ RegisteredOK /\ ConfigsAreInRange
      /\ s.pc \in ProcessorPcs
  BY DEF Load, At, IInv, CallOK, ProcessorPcs
<1>2. /\ UNCHANGED <<run, policyVars, osVars, calls, overlap>>
      /\ run' = run /\ added' = added /\ crossed' = crossed
      /\ config' = config /\ range' = range
      /\ FailIn(c) \/ (excused' = excused /\ faults' = faults)
      /\ loaded' \in BOOLEAN /\ registered' \in BOOLEAN /\ (registered => registered')
  <2>1. loaded \in BOOLEAN /\ registered \in BOOLEAN
    BY <1>1 DEF RestOK
  <2>2. CASE loaded' = TRUE /\ registered' = (registered \/ ~loaded) /\ UNCHANGED <<excused, faults>>
    BY <2>1, <2>2 DEF Load, configVars
  <2>3. CASE FailIn(c) /\ UNCHANGED <<loaded, registered>>
    BY <2>1, <2>3 DEF Load, configVars
  <2> QED
    BY <2>2, <2>3 DEF Load
<1>3. faults' \in Nat /\ Excusing(c)
  <2>1. faults' \in Nat
    BY <1>1, <1>2 DEF RestOK, FailIn, Fault
  <2>2. Excusing(c)
    BY <1>1, <1>2 DEF AnswersOK, FailIn, Excusing
  <2> QED
    BY <2>1, <2>2
<1>4. ConfigsAreInRange'
  BY <1>1, <1>2 DEF ConfigsAreInRange
<1>5. ASSUME th'[c].pc \in {"idle", "create"}, OthersStay(c), AnswersOK', CallOK(c)'
      PROVE  IInv'
  <2>1. ~At(c, "configure")'
    BY <1>5 DEF At
  <2>2. RegisteredOK'
    BY <1>1, <1>2, <1>5 DEF RegisteredOK, OthersStay, At
  <2>3. /\ crossed' \in BOOLEAN /\ \A p \in added' : DOMAIN p.conf = Fields /\ DOMAIN p.given = Fields
        /\ config' \in [disable : BOOLEAN, quota : Quotas \cup {"default"}] /\ range' \subseteq Callers
    BY <1>1, <1>2 DEF RestOK
  <2>4. th'[c].pc \notin PolicyPcs
    BY <1>5 DEF PolicyPcs
  <2> QED
    BY <1>1, <1>2, <1>3, <1>4, <1>5, <2>2, <2>3, <2>4, <2>1, ThreadStepKeeps
<1>6. CASE Answer(c, FALSE) /\ (FailIn(c) \/ (s.by = "file" /\ ~LoadProcessorConfig(s.conf)))
  <2>1. OthersStay(c) /\ AnswersOK' /\ th'[c] = Idle /\ done'[c] = "refused"
    BY <1>1, <1>3, <1>6, AnswerFacts DEF Answered
  <2>2. CallOK(c)' /\ th'[c].pc = "idle"
    BY <2>1 DEF CallOK, PolicyPcs, ProcessorPcs, Idle
  <2>3. excused'[c]
    <3>1. excused[c] => excused'[c]
      BY <1>3 DEF Excusing
    <3>2. FailIn(c) => excused'[c]
      BY <1>1 DEF FailIn, AnswersOK
    <3> QED
      BY <1>1, <1>6, <3>1, <3>2 DEF LoadOK
  <2>4. TellsOf(c)
    BY <2>1, <2>3 DEF TellsOf
  <2> QED
    BY <1>5, <2>1, <2>2, <2>4, OthersTell
<1>7. CASE Goto(c, "create") /\ ~(s.by = "file" /\ ~LoadProcessorConfig(s.conf))
  <2>1. th' = [th EXCEPT ![c] = next] /\ done' = done
    BY <1>1, <1>7 DEF Goto, AnswersOK
  <2>2. /\ DOMAIN next = {"pc", "by", "conf", "given"} /\ next.pc = "create" /\ next.by = s.by
        /\ next.conf = s.conf /\ next.given = s.given
    BY <1>1 DEF LoadOK
  <2> HIDE DEF next
  <2>3. OthersStay(c) /\ AnswersOK' /\ th'[c] = next
    BY <1>1, <1>3, <2>1, MoveFacts
  <2>4. RangeOK(s.by, s.conf, s.given)
    <3>1. CASE s.by = "file"
      BY <1>1, <1>7, <3>1 DEF LoadOK, RangeOK
    <3>2. CASE s.by # "file"
      BY <1>1, <3>2 DEF LoadOK
    <3> QED
      BY <3>1, <3>2
  <2>5. RangeOK(th'[c].by, th'[c].conf, th'[c].given)
    BY <2>2, <2>3, <2>4
  <2>6. LoadOK(c)'
    BY <1>1, <1>2, <2>2, <2>3, <2>5 DEF LoadOK
  <2>7. CallOK(c)' /\ th'[c].pc = "create"
    BY <2>2, <2>3, <2>6 DEF CallOK, PolicyPcs, ProcessorPcs
  <2>8. TellsOf(c)
    BY <2>7 DEF TellsOf
  <2> QED
    BY <1>5, <2>3, <2>7, <2>8, OthersTell
<1> QED
  BY <1>6, <1>7 DEF Load

LEMMA CreateStep ==
    ASSUME IInv, NEW c \in Callers, CreateProcessorProxy(c)
    PROVE  IInv' /\ Tells
<1> DEFINE s == th[c]
           next == [s EXCEPT !.pc = "register"]
<1>1. /\ s.pc = "create" /\ LoadOK(c) /\ AnswersOK /\ RestOK /\ RegisteredOK /\ ConfigsAreInRange
      /\ s.pc \in ProcessorPcs
  BY DEF CreateProcessorProxy, At, IInv, CallOK, ProcessorPcs
<1>2. /\ UNCHANGED <<run, policyVars, osVars, calls, overlap>>
      /\ excused' = excused /\ run' = run /\ added' = added /\ crossed' = crossed
      /\ config' = config /\ range' = range /\ loaded' = loaded /\ registered' = registered
      /\ faults' = faults /\ Excusing(c)
  BY <1>1 DEF CreateProcessorProxy, processorVars, configVars, AnswersOK, Excusing
<1>3. /\ crossed' \in BOOLEAN /\ \A p \in added' : DOMAIN p.conf = Fields /\ DOMAIN p.given = Fields
      /\ config' \in [disable : BOOLEAN, quota : Quotas \cup {"default"}] /\ range' \subseteq Callers
      /\ loaded' \in BOOLEAN /\ registered' \in BOOLEAN /\ faults' \in Nat
  BY <1>1, <1>2 DEF RestOK
<1>4. ConfigsAreInRange'
  BY <1>1, <1>2 DEF ConfigsAreInRange
<1>5. ASSUME \/ th'[c].pc = "idle"
             \/ th'[c].pc = "register" /\ registered,
             OthersStay(c), AnswersOK', CallOK(c)'
      PROVE  IInv'
  <2>1. RegisteredOK'
    BY <1>1, <1>2, <1>5 DEF RegisteredOK, OthersStay, At
  <2>2. th'[c].pc \notin PolicyPcs /\ ~At(c, "configure")'
    BY <1>5 DEF PolicyPcs, At
  <2> QED
    BY <1>1, <1>2, <1>3, <1>4, <1>5, <2>1, <2>2, ThreadStepKeeps
<1>6. CASE Answer(c, FALSE) /\ ~registered
  <2>1. OthersStay(c) /\ AnswersOK' /\ th'[c] = Idle /\ done'[c] = "refused"
    BY <1>1, <1>2, <1>6, AnswerFacts DEF Answered
  <2>2. CallOK(c)' /\ th'[c].pc = "idle"
    BY <2>1 DEF CallOK, PolicyPcs, ProcessorPcs, Idle
  <2>3. TellsOf(c)
    BY <1>1, <1>6, <2>1 DEF TellsOf
  <2> QED
    BY <1>5, <2>1, <2>2, <2>3, OthersTell
<1>7. CASE registered /\ Goto(c, "register")
  <2>1. th' = [th EXCEPT ![c] = next] /\ done' = done
    BY <1>1, <1>7 DEF Goto, AnswersOK
  <2>2. /\ DOMAIN next = {"pc", "by", "conf", "given"} /\ next.pc = "register" /\ next.by = s.by
        /\ next.conf = s.conf /\ next.given = s.given
    BY <1>1 DEF LoadOK
  <2> HIDE DEF next
  <2>3. OthersStay(c) /\ AnswersOK' /\ th'[c] = next
    BY <1>1, <1>2, <2>1, MoveFacts
  <2>4. RangeOK(s.by, s.conf, s.given)
    BY <1>1 DEF LoadOK
  <2>5. RangeOK(th'[c].by, th'[c].conf, th'[c].given)
    BY <2>2, <2>3, <2>4
  <2>6. LoadOK(c)'
    BY <1>1, <1>2, <2>2, <2>3, <2>5 DEF LoadOK
  <2>7. CallOK(c)' /\ th'[c].pc = "register"
    BY <2>2, <2>3, <2>6 DEF CallOK, PolicyPcs, ProcessorPcs
  <2>8. TellsOf(c)
    BY <2>7 DEF TellsOf
  <2> QED
    BY <1>5, <1>7, <2>3, <2>7, <2>8, OthersTell
<1> QED
  BY <1>6, <1>7 DEF CreateProcessorProxy

LEMMA RegisterStep ==
    ASSUME IInv, NEW c \in Callers, RegisterObserver(c)
    PROVE  IInv' /\ Tells
<1> DEFINE s == th[c]
<1>1. /\ s.pc = "register" /\ LoadOK(c) /\ AnswersOK /\ RestOK /\ RegisteredOK /\ ConfigsAreInRange
      /\ s.pc \in ProcessorPcs
  BY DEF RegisterObserver, At, IInv, CallOK, ProcessorPcs
<1>2. /\ UNCHANGED <<run, policyVars, osVars, calls, overlap>>
      /\ excused' = excused /\ run' = run
      /\ config' = config /\ range' = range /\ loaded' = loaded /\ registered' = registered
      /\ faults' = faults /\ Answer(c, TRUE) /\ Excusing(c)
      /\ added' = added \cup {[by |-> s.by, conf |-> s.conf, given |-> s.given]}
      /\ crossed' = (crossed \/ \E d \in Callers : At(d, "erase"))
  BY <1>1 DEF RegisterObserver, configVars, AnswersOK, Excusing
<1>3. /\ crossed' \in BOOLEAN
      /\ config' \in [disable : BOOLEAN, quota : Quotas \cup {"default"}] /\ range' \subseteq Callers
      /\ loaded' \in BOOLEAN /\ registered' \in BOOLEAN /\ faults' \in Nat
  BY <1>1, <1>2 DEF RestOK
<1>4. OthersStay(c) /\ AnswersOK' /\ th'[c] = Idle /\ done'[c] = "ok"
  BY <1>1, <1>2, AnswerFacts DEF Answered
<1>5. CallOK(c)' /\ th'[c].pc = "idle" /\ th'[c].pc \notin PolicyPcs /\ ~At(c, "configure")'
  BY <1>4 DEF CallOK, PolicyPcs, ProcessorPcs, Idle, At
<1>6. RangeOK(s.by, s.conf, s.given) /\ DOMAIN s.conf = Fields /\ DOMAIN s.given = Fields
  BY <1>1 DEF LoadOK
<1>7. /\ ConfigsAreInRange'
      /\ \A p \in added' : DOMAIN p.conf = Fields /\ DOMAIN p.given = Fields
  <2> DEFINE Good(p) == /\ RangeOK(p.by, p.conf, p.given)
                        /\ DOMAIN p.conf = Fields /\ DOMAIN p.given = Fields
             q == [by |-> s.by, conf |-> s.conf, given |-> s.given]
  <2>1. \A p \in added : Good(p)
    BY <1>1 DEF RestOK, ConfigsAreInRange, RangeOK
  <2>2. q.by = s.by /\ q.conf = s.conf /\ q.given = s.given
    OBVIOUS
  <2>3. \A p \in added' : Good(p)
    <3> HIDE DEF q
    <3> QED
      BY <1>2, <1>6, <2>1, <2>2 DEF q
  <2> QED
    BY <2>3 DEF ConfigsAreInRange, RangeOK
<1>8. RegisteredOK'
  BY <1>1, <1>2, <1>4, <1>5 DEF RegisteredOK, OthersStay, At
<1>9. TellsOf(c)
  BY <1>1, <1>4 DEF TellsOf, LoadOK, At
<1>10. IInv'
  BY <1>1, <1>2, <1>3, <1>4, <1>5, <1>7, <1>8, ThreadStepKeeps
<1> QED
  BY <1>4, <1>9, <1>10, OthersTell

LEMMA EraseStep ==
    ASSUME IInv, NEW c \in Callers, EraseProcessor(c)
    PROVE  IInv' /\ Tells
<1> DEFINE s == th[c]
<1>1. /\ s.pc = "erase" /\ DOMAIN s = {"pc"}
      /\ AnswersOK /\ RestOK /\ RegisteredOK /\ ConfigsAreInRange
  BY DEF EraseProcessor, At, IInv, CallOK
<1>2. /\ UNCHANGED <<run, policyVars, osVars, calls, overlap>>
      /\ excused' = excused /\ run' = run /\ added' = added /\ Excusing(c)
      /\ config' = config /\ range' = range /\ loaded' = loaded /\ registered' = FALSE
      /\ faults' = faults /\ Answer(c, registered)
      /\ crossed' = (crossed \/ \E d \in Callers : At(d, "register"))
  BY <1>1 DEF EraseProcessor, configVars, AnswersOK, Excusing
<1>3. /\ crossed' \in BOOLEAN /\ \A p \in added' : DOMAIN p.conf = Fields /\ DOMAIN p.given = Fields
      /\ config' \in [disable : BOOLEAN, quota : Quotas \cup {"default"}] /\ range' \subseteq Callers
      /\ loaded' \in BOOLEAN /\ faults' \in Nat
  BY <1>1, <1>2 DEF RestOK
<1>4. registered \in BOOLEAN /\ registered' \in BOOLEAN
  BY <1>1, <1>2, Zenon DEF RestOK
<1>5. OthersStay(c) /\ AnswersOK' /\ th'[c] = Idle /\ (done'[c] = "refused" => ~registered)
  BY <1>1, <1>2, <1>4, AnswerFacts DEF Answered
<1>6. CallOK(c)' /\ th'[c].pc = "idle" /\ th'[c].pc \notin PolicyPcs /\ ~At(c, "configure")'
  BY <1>5 DEF CallOK, PolicyPcs, ProcessorPcs, Idle, At
<1>7. ConfigsAreInRange'
  BY <1>1, <1>2 DEF ConfigsAreInRange
<1>8. RegisteredOK'
  BY <1>1, <1>2, <1>5, <1>6 DEF RegisteredOK, OthersStay, At
<1>9. TellsOf(c)
  BY <1>1, <1>5 DEF TellsOf, At
<1>10. IInv'
  BY <1>1, <1>2, <1>3, <1>5, <1>6, <1>7, <1>8, <1>4, ThreadStepKeeps
<1> QED
  BY <1>5, <1>9, <1>10, OthersTell

--------------------------------------------------------------------------------
(* OS events, the end of the process, and every step.                            *)

LEMMA NobodyAnswers ==
    ASSUME th' = th
    PROVE  Tells
BY DEF Tells, TellsOf

LEMMA CalmStays ==
    ASSUME Calm, UNCHANGED <<run, stored, status, library, dump, built, astray, config, os, overlap,
                             excused, th>>
    PROVE  Calm'
<1> SUFFICES ASSUME ~overlap' PROVE (AloneOK /\ StatusOK /\ DumpOK /\ SavedOK /\ InForceOK)'
  BY DEF Calm
<1>1. AloneOK /\ StatusOK /\ DumpOK /\ SavedOK /\ InForceOK
  BY DEF Calm
<1>2. AloneOK' /\ StatusOK' /\ DumpOK'
  BY <1>1 DEF AloneOK, Busy, StatusOK, CurSysPageSwitchStatus, DumpOK, Telling, DumpStored
<1>3. SavedOK'
  BY <1>1 DEF SavedOK, SavedBy
<1>4. InForceOK'
  BY <1>1 DEF InForceOK, At
<1> QED
  BY <1>2, <1>3, <1>4

LEMMA OsEventStep ==
    ASSUME IInv, NEW s \in Switches, OsEvent(s)
    PROVE  IInv' /\ Tells
<1>1. /\ UNCHANGED <<run, policyVars, configVars, processorVars, os, callVars, th, faults>>
      /\ th' = th /\ sent' = sent + 1 /\ events' = events \cup {<<s, sent'>>}
  BY DEF OsEvent
<1>2. /\ StoredOK' /\ AnswersOK' /\ OwnSettingsStay' /\ ConfigsAreInRange' /\ RegisteredOK'
  BY <1>1 DEF IInv, StoredOK, AnswersOK, OwnSettingsStay, ConfigsAreInRange, RegisteredOK, At,
              policyVars, callVars, processorVars
<1>3. RestOK'
  <2>1. RestOK
    BY DEF IInv
  <2>2. sent' \in Nat
    BY <1>1, <2>1 DEF RestOK
  <2> QED
    BY <1>1, <2>1, <2>2 DEF RestOK, policyVars, callVars, processorVars, configVars
<1>4. \A c \in Callers : CallOK(c)'
  <2> SUFFICES ASSUME NEW c \in Callers PROVE CallOK(c)'
    OBVIOUS
  <2>1. CallOK(c) /\ library' = library /\ excused' = excused /\ range' = range
    BY <1>1 DEF IInv, callVars, configVars, policyVars
  <2> QED
    BY <1>1, <2>1, OtherCall
<1>5. OsOK'
  <2>1. \A e \in events' : e[1] \in Switches
    BY <1>1 DEF IInv, OsOK
  <2> QED
    BY <1>1, <2>1 DEF IInv, OsOK, policyVars
<1>6. Calm'
  BY <1>1, CalmStays DEF IInv, policyVars, callVars, configVars
<1> QED
  BY <1>1, <1>2, <1>3, <1>4, <1>5, <1>6, NobodyAnswers DEF IInv

\* A step of the thread of OS events that changes no switch that counts.
LEMMA OsStepKeeps ==
    ASSUME IInv, UNCHANGED <<run, status, library, mine, overtaken, configVars, processorVars, sent,
                             calls, done, excused, th>>,
           StoredOK', OwnSettingsStay', OsOK', overlap' \in BOOLEAN, DumpKept,
           ~overlap' => ~overlap /\ AloneOK',
           ~overlap' => CurSysPageSwitchStatus' <=> CurSysPageSwitchStatus,
           ~overlap' => \A c \in Callers : th[c].pc = "idle"
    PROVE  IInv' /\ Tells
<1>1. /\ run' = run /\ status' = status /\ mine' = mine /\ overtaken' = overtaken
      /\ library' = library /\ th' = th /\ excused' = excused /\ done' = done
      /\ config' = config /\ range' = range
  BY DEF configVars
<1>2. AnswersOK' /\ ConfigsAreInRange' /\ RegisteredOK'
  BY <1>1 DEF IInv, AnswersOK, ConfigsAreInRange, RegisteredOK, At, processorVars
<1>3. RestOK'
  <2>1. RestOK
    BY DEF IInv
  <2> QED
    BY <1>1, <2>1 DEF RestOK, DumpKept, processorVars
<1>4. \A c \in Callers : CallOK(c)'
  <2> SUFFICES ASSUME NEW c \in Callers PROVE CallOK(c)'
    OBVIOUS
  <2>1. CallOK(c)
    BY DEF IInv
  <2> QED
    BY <1>1, <2>1, OtherCall
<1>5. Calm'
  <2> SUFFICES ASSUME ~overlap' PROVE (AloneOK /\ StatusOK /\ DumpOK /\ SavedOK /\ InForceOK)'
    BY DEF Calm
  <2>1. StatusOK /\ DumpOK /\ \A c \in Callers : th[c].pc = "idle" /\ th'[c].pc = "idle"
    BY <1>1 DEF IInv, Calm
  <2>2. /\ "status" \notin astray => (status <=> CurSysPageSwitchStatus)
        /\ built /\ "dump" \notin astray => DumpStored
    BY <2>1 DEF StatusOK, DumpOK, Telling
  <2>3. "status" \notin astray' => (status' <=> CurSysPageSwitchStatus')
    BY <1>1, <2>2 DEF DumpKept
  <2>4. StatusOK' /\ DumpOK'
    BY <2>1, <2>2, <2>3 DEF StatusOK, DumpOK, DumpKept, Telling
  <2>5. SavedOK' /\ InForceOK'
    BY <2>1 DEF SavedOK, SavedBy, PolicyPcs, InForceOK, At
  <2> QED
    BY <2>4, <2>5
<1> QED
  BY <1>1, <1>2, <1>3, <1>4, <1>5, NobodyAnswers DEF IInv

LEMMA GetEventStatusStep ==
    ASSUME IInv, NEW e \in events, GetEventPageSwitchStatus(e)
    PROVE  IInv' /\ Tells
<1>1. /\ os.pc = "idle" /\ events' = events \ {e} /\ InitMiniDumpConfig
      /\ os' = [pc |-> "check", switch |-> e[1]] \/ os' = os
      /\ overlap' = (overlap \/ \E c \in Callers : th[c].pc # "idle")
      /\ UNCHANGED <<run, status, library, mine, overtaken, configVars, processorVars, sent,
                     calls, done, excused, th>>
      /\ stored' = stored /\ run' = run /\ library' = library /\ mine' = mine
      /\ overtaken' = overtaken /\ th' = th
  BY DEF GetEventPageSwitchStatus
<1>2. StoredOK /\ OsOK /\ OwnSettingsStay /\ overlap \in BOOLEAN
  BY DEF IInv, RestOK
<1>3. DumpKept
  BY <1>1, InitMiniDump
<1>4. StoredOK' /\ OwnSettingsStay' /\ (CurSysPageSwitchStatus' <=> CurSysPageSwitchStatus)
  BY <1>1, <1>2 DEF StoredOK, OwnSettingsStay, CurSysPageSwitchStatus
<1>5. os'.pc \in {"idle", "check"} /\ OsOK'
  <2>1. e[1] \in Switches
    BY <1>2 DEF OsOK
  <2>2. CASE os' = os
    BY <1>1, <1>2, <2>2 DEF OsOK
  <2>3. CASE os' = [pc |-> "check", switch |-> e[1]]
    <3>1. os'.pc = "check" /\ DOMAIN os' = {"pc", "switch"} /\ os'.switch = e[1]
      BY <2>3
    <3> QED
      BY <1>1, <1>2, <2>1, <3>1 DEF OsOK
  <2> QED
    BY <1>1, <2>2, <2>3
<1>6. overlap' \in BOOLEAN /\ (~overlap' => ~overlap /\ \A c \in Callers : th[c].pc = "idle")
  BY <1>1, <1>2
<1>7. ~overlap' => AloneOK'
  BY <1>1, <1>5, <1>6 DEF AloneOK, Busy
<1> QED
  BY <1>1, <1>3, <1>4, <1>5, <1>6, <1>7, OsStepKeeps

LEMMA RemoveEventConfigStep ==
    ASSUME IInv, RemoveEventConfig
    PROVE  IInv' /\ Tells
<1>1. /\ os.pc = "check"
      /\ \/ stored[os.switch].run \notin {0, run} /\ os' = [os EXCEPT !.pc = "remove"]
         \/ os' = Idle
      /\ UNCHANGED <<run, status, library, mine, overtaken, configVars, processorVars, sent,
                     calls, done, excused, th>>
      /\ stored' = stored /\ run' = run /\ faults' = faults /\ mine' = mine /\ overtaken' = overtaken
      /\ th' = th /\ library' = library /\ built' = built /\ dump' = dump /\ astray' = astray
      /\ overlap' = overlap /\ events' = events
  BY DEF RemoveEventConfig, policyVars, callVars
<1>2. RestOK /\ StoredOK /\ OsOK /\ OwnSettingsStay /\ Calm
  BY DEF IInv
<1>3. overlap' \in BOOLEAN
  BY <1>1, <1>2, Zenon DEF RestOK
<1>4. StoredOK' /\ OwnSettingsStay' /\ (CurSysPageSwitchStatus' <=> CurSysPageSwitchStatus) /\ DumpKept
  BY <1>1, <1>2 DEF StoredOK, OwnSettingsStay, CurSysPageSwitchStatus, DumpStored, DumpKept, RestOK
<1>5. /\ OsOK'
      /\ os'.pc = "remove" => stored'[os'.switch].run # run'
  <2>1. DOMAIN os = {"pc", "switch"} /\ os.switch \in Switches
    BY <1>1, <1>2 DEF OsOK
  <2>2. CASE os' = Idle
    BY <1>1, <1>2, <2>2 DEF OsOK, Idle
  <2>3. CASE stored[os.switch].run \notin {0, run} /\ os' = [os EXCEPT !.pc = "remove"]
    <3>1. os'.pc = "remove" /\ DOMAIN os' = {"pc", "switch"} /\ os'.switch = os.switch
      BY <2>1, <2>3
    <3>2. stored[os.switch] # [run |-> run, value |-> mine[os.switch]]
      <4>1. [run |-> run, value |-> mine[os.switch]].run = run
        OBVIOUS
      <4> QED
        BY <2>3, <4>1
    <3>3. os.switch \in overtaken \/ mine[os.switch] = "none"
      BY <1>2, <2>1, <3>2 DEF OwnSettingsStay
    <3> QED
      BY <1>1, <1>2, <2>1, <2>3, <3>1, <3>3 DEF OsOK
  <2> QED
    BY <1>1, <2>2, <2>3
<1>6. ~overlap' => ~overlap /\ AloneOK' /\ \A c \in Callers : th[c].pc = "idle"
  BY <1>1, <1>2, <1>5 DEF Calm, AloneOK, Busy
<1> QED
  BY <1>1, <1>3, <1>4, <1>5, <1>6, OsStepKeeps

LEMMA RemoveDirXattrStep ==
    ASSUME IInv, RemoveDirXattr
    PROVE  IInv' /\ Tells
<1>1. /\ os.pc = "remove" /\ os' = Idle
      /\ \/ stored' = [stored EXCEPT ![os.switch] = None] /\ faults' = faults
         \/ Fault /\ stored' = stored
      /\ UNCHANGED <<run, status, library, mine, overtaken, configVars, processorVars, sent,
                     calls, done, excused, th>>
      /\ run' = run /\ mine' = mine /\ overtaken' = overtaken /\ library' = library
      /\ th' = th /\ built' = built /\ dump' = dump /\ astray' = astray /\ overlap' = overlap
      /\ events' = events
  BY DEF RemoveDirXattr, callVars
<1>2. /\ RestOK /\ StoredOK /\ OsOK /\ OwnSettingsStay /\ Calm /\ faults \in Nat /\ run \in Nat \ {0}
  BY DEF IInv, RestOK
<1>3. /\ os.switch \in Switches /\ (os.switch \in overtaken \/ mine[os.switch] = "none")
  BY <1>1, <1>2 DEF OsOK
<1>4. overlap' \in BOOLEAN
  BY <1>1, <1>2, Zenon DEF RestOK
<1>5. faults' \in Nat
  BY <1>1, <1>2 DEF Fault
<1>6. /\ DOMAIN stored' = Keys
      /\ stored'[os.switch] = None \/ stored'[os.switch] = stored[os.switch]
      /\ \A k \in Keys \ {os.switch} : stored'[k] = stored[k]
      /\ os.switch \in Keys /\ os.switch # "minidump"
  BY <1>1, <1>2, <1>3 DEF StoredOK, Switches, Keys
<1>7. StoredOK'
  <2>1. None.run = 0 /\ None = [run |-> None.run, value |-> None.value]
    BY DEF None
  <2>2. \A k \in Keys : stored'[k] = None \/ stored'[k] = stored[k]
    BY <1>6
  <2> QED
    BY <1>1, <1>2, <1>6, <2>1, <2>2 DEF StoredOK
<1>8. OwnSettingsStay'
  <2>1. \A s \in Switches : s # os.switch => stored'[s] = stored[s]
    BY <1>6 DEF Switches, Keys
  <2> QED
    BY <1>1, <1>2, <1>3, <2>1 DEF OwnSettingsStay
<1>9. OsOK'
  BY <1>1, <1>2 DEF OsOK, Idle
<1>10. ASSUME ~overlap' PROVE AloneOK' /\ \A c \in Callers : th[c].pc = "idle"
  BY <1>1, <1>2, <1>10 DEF Calm, AloneOK, Busy, Idle
<1>11. ASSUME ~overlap' PROVE CurSysPageSwitchStatus' <=> CurSysPageSwitchStatus
  <2>1. stored[os.switch].run # run
    BY <1>1, <1>2, <1>11 DEF Calm, AloneOK
  <2>2. stored'[os.switch].run # run
    BY <1>2, <1>6, <2>1 DEF None
  <2>3. \A s \in Switches \ {os.switch} : stored'[s] = stored[s]
    BY <1>6 DEF Switches, Keys
  <2>4. \A st, s : st[s].run # run => st[s] # [run |-> run, value |-> "true"]
    OBVIOUS
  <2>5. \A s \in Switches : stored'[s] = [run |-> run, value |-> "true"]
                        <=> stored[s] = [run |-> run, value |-> "true"]
    <3> TAKE s \in Switches
    <3>1. CASE s = os.switch
      BY <2>1, <2>2, <2>4, <3>1
    <3>2. CASE s # os.switch
      BY <2>3, <3>2
    <3> QED
      BY <3>1, <3>2
  <2> QED
    BY <1>1, <2>5 DEF CurSysPageSwitchStatus
<1>12. DumpKept
  <2>1. stored'["minidump"] = stored["minidump"]
    BY <1>6 DEF Keys
  <2> QED
    BY <1>1, <1>2, <1>5, <2>1 DEF DumpKept, DumpStored, RestOK
<1> QED
  BY <1>1, <1>4, <1>7, <1>8, <1>9, <1>10, <1>11, <1>12, OsStepKeeps

\* Nothing under way, nothing built: the state of a process that has just begun.
Fresh ==
    /\ run \in 1..MaxRuns /\ StoredOK /\ \A s \in Switches : stored[s].run # run
    /\ status = FALSE /\ library \in BOOLEAN /\ dump = FALSE /\ built = FALSE
    /\ mine = [s \in Switches |-> "none"] /\ overtaken = {} /\ astray = {}
    /\ config = [disable |-> FALSE, quota |-> "default"] /\ range = {}
    /\ loaded = FALSE /\ registered = FALSE /\ added = {} /\ crossed = FALSE
    /\ th = [c \in Callers |-> Idle] /\ os = Idle /\ overlap = FALSE
    /\ done = [c \in Callers |-> "none"] /\ excused = [c \in Callers |-> FALSE]
    /\ \A e \in events : e[1] \in Switches
    /\ calls \in Nat /\ sent \in Nat /\ faults \in Nat

LEMMA FreshProcess == Fresh => IInv
<1> SUFFICES ASSUME Fresh PROVE IInv
  OBVIOUS
<1> USE DEF Fresh
<1>1. /\ DOMAIN th = Callers /\ DOMAIN mine = Switches
      /\ \A c \in Callers : th[c] = Idle /\ th[c].pc = "idle"
      /\ \A s \in Switches : mine[s] = "none"
  BY DEF Idle
<1>2. RestOK
  <2>1. config \in [disable : BOOLEAN, quota : Quotas \cup {"default"}]
    OBVIOUS
  <2> QED
    BY <1>1, <2>1 DEF RestOK
<1>3. AnswersOK
  BY <1>1 DEF AnswersOK, Answers
<1>4. \A c \in Callers : CallOK(c)
  BY <1>1 DEF CallOK, PolicyPcs, ProcessorPcs
<1>5. OsOK
  BY DEF OsOK, Idle
<1>6. Calm
  <2>1. AloneOK
    BY <1>1 DEF AloneOK, Busy, Idle
  <2>2. ~CurSysPageSwitchStatus
    <3>1. \A s \in Switches : stored[s] # [run |-> run, value |-> "true"]
      <4> TAKE s \in Switches
      <4>1. [run |-> run, value |-> "true"].run = run
        OBVIOUS
      <4> QED
        BY <4>1
    <3> QED
      BY <3>1 DEF CurSysPageSwitchStatus
  <2>3. StatusOK /\ DumpOK /\ SavedOK /\ InForceOK
    BY <1>1, <2>2 DEF StatusOK, DumpOK, Telling, SavedOK, SavedBy, PolicyPcs, InForceOK, At
  <2> QED
    BY <2>1, <2>3 DEF Calm
<1>7. OwnSettingsStay /\ ConfigsAreInRange /\ RegisteredOK
  BY <1>1 DEF OwnSettingsStay, ConfigsAreInRange, RegisteredOK, At
<1> QED
  BY <1>2, <1>3, <1>4, <1>5, <1>6, <1>7 DEF IInv

LEMMA FreshNext == Fresh' => IInv'
BY FreshProcess, PTL

LEMMA InitIInv == Init => IInv
<1> SUFFICES ASSUME Init PROVE IInv
  OBVIOUS
<1>1. run = 1 /\ run \in 1..MaxRuns
  BY SettingsAssumption DEF Init
<1>2. DOMAIN stored = Keys /\ \A k \in Keys : stored[k] = None /\ stored[k].run = 0
  BY DEF Init, None
<1>3. StoredOK
  BY <1>1, <1>2 DEF StoredOK, None
<1>4. \A s \in Switches : stored[s].run # run
  BY <1>1, <1>2 DEF Keys
<1> QED
  BY <1>1, <1>3, <1>4, FreshProcess DEF Init, Fresh

LEMMA RestartStep ==
    ASSUME IInv, Restart
    PROVE  IInv' /\ Tells
<1>1. /\ RestOK /\ StoredOK /\ OsOK /\ run \in Nat
  BY DEF IInv, RestOK
<1>2. run' = run + 1 /\ run' \in 1..MaxRuns /\ stored' = stored
  BY <1>1, SettingsAssumption DEF Restart, RestOK
<1>3. StoredOK'
  BY <1>1, <1>2 DEF StoredOK
<1>4. \A s \in Switches : stored'[s].run # run'
  BY <1>1, <1>2 DEF StoredOK, Keys
<1>5. /\ \A e \in events' : e[1] \in Switches
      /\ calls' \in Nat /\ sent' \in Nat /\ faults' \in Nat
  BY <1>1 DEF Restart, RestOK, OsOK
<1>6. library' \in BOOLEAN
  BY <1>1, Zenon DEF Restart, RestOK
<1>7. IInv'
  <2>1. Fresh'
    BY <1>2, <1>3, <1>4, <1>5, <1>6, Zenon DEF Restart, Fresh
  <2> QED
    BY <2>1, FreshNext
<1>8. Tells
  BY <1>1, <1>2 DEF Tells, TellsOf
<1> QED
  BY <1>7, <1>8

LEMMA StepIInv == IInv /\ Next => IInv' /\ Tells
<1> SUFFICES ASSUME IInv, Next PROVE IInv' /\ Tells
  OBVIOUS
<1>1. ASSUME NEW c \in Callers, PolicyStep(c) PROVE IInv' /\ Tells
  BY <1>1, ConfigPageSwitchStep, GetStatusStep, SetStatusStep, SetAppCrashLogStep, ApplyStep,
     SaveRefinedStep, SetEventConfigStep, SaveCpuItemStep DEF PolicyStep
<1>2. ASSUME NEW c \in Callers, ProcessorStep(c) PROVE IInv' /\ Tells
  BY <1>2, LoadStep, CreateStep, RegisterStep, EraseStep DEF ProcessorStep
<1> QED
  BY <1>1, <1>2, ConfigEventPolicyCall, SetCrashLogCall, ConfigureCall, AddProcessorCall,
     AddFromConfigCall, UnregisterCall, SetConfigurationItemStep, OsEventStep,
     GetEventStatusStep, RemoveEventConfigStep, RemoveDirXattrStep, RestartStep DEF Next

--------------------------------------------------------------------------------
(* The theorems.                                                                 *)

LEMMA NextIInv == IInv /\ [Next]_vars => IInv'
<1> SUFFICES ASSUME IInv, [Next]_vars PROVE IInv'
  OBVIOUS
<1>1. CASE Next
  BY <1>1, StepIInv
<1>2. CASE UNCHANGED vars
  <2>1. /\ StoredOK' /\ AnswersOK' /\ OsOK' /\ OwnSettingsStay' /\ ConfigsAreInRange' /\ RegisteredOK'
    BY <1>2 DEF IInv, StoredOK, AnswersOK, OsOK, OwnSettingsStay, ConfigsAreInRange, RegisteredOK, At,
                vars, policyVars, configVars, processorVars, osVars, callVars
  <2>2. RestOK'
    BY <1>2 DEF IInv, RestOK, vars, policyVars, configVars, processorVars, osVars, callVars
  <2>3. \A c \in Callers : CallOK(c)'
    <3> SUFFICES ASSUME NEW c \in Callers PROVE CallOK(c)'
      OBVIOUS
    <3>1. CallOK(c) /\ library' = library /\ excused' = excused /\ range' = range /\ th' = th
      BY <1>2 DEF IInv, vars, policyVars, callVars, configVars
    <3> QED
      BY <3>1, OtherCall
  <2>4. Calm'
    BY <1>2, CalmStays DEF IInv, vars, policyVars, configVars, callVars, osVars
  <2> QED
    BY <2>1, <2>2, <2>3, <2>4 DEF IInv
<1> QED
  BY <1>1, <1>2

LEMMA Invariance == Spec => []IInv
<1>1. Init => IInv
  BY InitIInv
<1>2. IInv /\ [Next]_vars => IInv'
  BY NextIInv
<1> QED
  BY <1>1, <1>2, PTL DEF Spec

LEMMA Typing == IInv => TypeOK
<1> SUFFICES ASSUME IInv PROVE TypeOK
  OBVIOUS
<1>1. RestOK /\ StoredOK /\ AnswersOK
  BY DEF IInv
<1>2. {status, library, dump, built, loaded, registered, overlap, crossed} \subseteq BOOLEAN
  BY <1>1, Zenon DEF RestOK
<1>3. \A c \in Callers : th[c].pc \in {"idle", "start", "status", "set", "items", "apply", "refined",
                                       "heap", "configure", "load", "create", "register", "erase"}
  BY DEF IInv, CallOK, PolicyPcs, ProcessorPcs
<1>4. {calls, sent, faults} \subseteq Nat
  BY <1>1 DEF RestOK
<1> QED
  BY <1>1, <1>2, <1>3, <1>4 DEF TypeOK, RestOK, StoredOK, AnswersOK

\* What the process follows is what is stored, when nothing is under way and no calls or events
\* overlapped, for any packs and failures: the page switch status the switches of this run,
\* unless one of them could not be read; and the crash library, if it is there, the minidump
\* setting, unless it was told nothing at the first use or something that is not stored (and
\* every variable has its type).
THEOREM FollowsWhatIsStored == Spec => []FollowsStored
<1>1. IInv => FollowsStored
  <2> SUFFICES ASSUME IInv PROVE FollowsStored
    OBVIOUS
  <2>1. TypeOK
    BY Typing
  <2>2. ASSUME AtRest, ~overlap
        PROVE  /\ "status" \notin astray =>
                    (status <=> \E s \in Switches : stored[s] = [run |-> run, value |-> "true"])
               /\ built /\ "dump" \notin astray =>
                    (dump <=> library /\ stored["minidump"].value = "true")
    <3>1. StatusOK /\ DumpOK /\ \A c \in Callers : th[c].pc = "idle"
      BY <2>2 DEF IInv, Calm, AtRest
    <3>2. "status" \notin astray => (status <=> CurSysPageSwitchStatus)
      BY <3>1 DEF StatusOK
    <3>3. built /\ "dump" \notin astray => DumpStored
      BY <3>1 DEF DumpOK, Telling
    <3> QED
      BY <3>2, <3>3 DEF CurSysPageSwitchStatus, DumpStored
  <2> QED
    BY <2>1, <2>2 DEF FollowsStored
<1> QED
  BY <1>1, Invariance, PTL

\* A switch that this run has set stays as it was set last, whatever events of earlier runs the
\* other thread handles, unless it was stored between the look at the old setting and its removal.
THEOREM OwnSettingsHold == Spec => []OwnSettingsStay
<1>1. IInv => OwnSettingsStay
  BY DEF IInv
<1> QED
  BY <1>1, Invariance, PTL

\* Whatever an application gives, no processor of JavaScript, C or C++ works with a value out of
\* range or with a list of which some elements are left out, but for the events and customs that
\* C adds one at a time; none of ETS or Cangjie with more than its interface lets through.
THEOREM ConfigsHoldRange == Spec => []ConfigsAreInRange
<1>1. IInv => ConfigsAreInRange
  BY DEF IInv
<1> QED
  BY <1>1, Invariance, PTL

\* The manager keeps no processor that its module has taken back, unless the two crossed.
THEOREM AddedHaveModule == Spec => []AddedIsRegistered
<1>1. IInv => AddedIsRegistered
  BY DEF IInv, RegisteredOK, AddedIsRegistered
<1> QED
  BY <1>1, Invariance, PTL

\* The answer to a call tells what became of it.  After success its switches, its items of
\* RESOURCE_OVERLIMIT and cpuUsageHighPolicy and the minidump setting are stored and its
\* configuration items in force, unless another call or an event interfered or, of the minidump
\* setting, something failed.  A refusal has a reason: something wrong or something that failed,
\* an errno left by an earlier number, the missing library, or the missing processor.
THEOREM AnswersAreTrue == Spec => AnswersTell
<1>1. IInv /\ [Next]_vars => [Tells]_vars
  BY StepIInv
<1>2. Spec => [][Tells]_vars
  BY <1>1, Invariance, PTL DEF Spec
<1> QED
  BY <1>2, Zenon DEF AnswersTell, Tells, TellsOf

================================================================================
