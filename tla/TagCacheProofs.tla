----------------------------- MODULE TagCacheProofs -----------------------------
(***************************************************************************)
(* TagCache keeps the promise of TrackedCache, and its stale names are     *)
(* explained, for any tags, names, tasks and number of jobs.               *)
(*                                                                         *)
(* The invariant adds the order of the commands of a job (a request has    *)
(* one statement, and a DEL follows its SMEMBERS at once, so nothing that  *)
(* is still to be executed gets lost on the way) and that no command knows *)
(* a tag that was never created: a tag that comes with a task, of which    *)
(* nobody tells the cache, has no copy there yet.                          *)
(***************************************************************************)
EXTENDS TagCache, TLAPS

Has(s, c) == \E i \in DOMAIN s : s[i] = c

InOrder(s) ==
  \A i \in DOMAIN s :
    /\ s[i].op \in {"rename", "remove"} => Len(s) = 1
    /\ s[i].op = "drop" => i = 1

KnowsOnly(s, tags) ==
  \A i \in DOMAIN s : s[i].op \in {"rename", "setTag"} => s[i].tag \in tags

JobsInOrder == \A j \in Job : InOrder(job[j])

TagsWereUsed ==
  /\ TaskTag \in used
  /\ \A t \in Tag : name[t] # None \/ cachedTag[t] \in Name => t \in used
  /\ \A j \in Job : KnowsOnly(job[j], used)

-----------------------------------------------------------------------------
(* Sequences of commands *)

LEMMA HeadTail ==
  ASSUME NEW S, NEW s \in Seq(S), s # <<>>
  PROVE  /\ Head(s) \in S /\ Head(s) = s[1] /\ 1 \in DOMAIN s
         /\ Tail(s) \in Seq(S)
         /\ Len(Tail(s)) = Len(s) - 1 /\ Len(s) \in Nat
         /\ \A i \in DOMAIN Tail(s) : Tail(s)[i] = s[i + 1] /\ i + 1 \in DOMAIN s /\ i \in Nat /\ i >= 1
         /\ \A i \in DOMAIN s : i = 1 \/ (i - 1 \in DOMAIN Tail(s) /\ Tail(s)[i - 1] = s[i])
OBVIOUS

LEMMA ConsFacts ==
  ASSUME NEW S, NEW s \in Seq(S), NEW x \in S
  PROVE  /\ <<x>> \o s \in Seq(S) /\ <<x>> \o s # <<>> /\ Head(<<x>> \o s) = x
         /\ Len(<<x>> \o s) = Len(s) + 1
         /\ (<<x>> \o s)[1] = x
         /\ \A i \in DOMAIN (<<x>> \o s) : i = 1 \/ (i - 1 \in DOMAIN s /\ (<<x>> \o s)[i] = s[i - 1])
         /\ \A i \in DOMAIN s : i + 1 \in DOMAIN (<<x>> \o s) /\ (<<x>> \o s)[i + 1] = s[i]
OBVIOUS

-----------------------------------------------------------------------------
(* Commands *)

\* What a command is, by its op.
LEMMA CommandFacts ==
  ASSUME NEW c \in Command
  PROVE  /\ c.op \in {"rename", "setTag", "remove", "delTag", "setTags", "setTask", "drop",
                      "delTags", "members"}
         /\ c.op \in {"rename", "setTag", "remove", "delTag"} => c.tag \in Tag
         /\ c.op = "rename" => c.value \in Name
         /\ c.op = "setTag" => c.value \in Name \cup {Blank}
         /\ c.op = "setTags" => c.view \in View
         /\ c.op = "setTask" => c.task \in Task /\ c.value \in Name \cup {Blank}
         /\ c.op = "drop" => c.keys \subseteq Task /\ c = Drop(c.keys)
         /\ c.op = "delTag" => c = DelTag(c.tag)
         /\ c.op = "delTags" => c = DelTags
         /\ c.op = "members" => c = Members
<1>1. CASE c \in [op : {"rename"}, tag : Tag, value : Name]
  BY <1>1
<1>2. CASE c \in [op : {"setTag"}, tag : Tag, value : Name \cup {Blank}]
  BY <1>2
<1>3. CASE c \in [op : {"remove", "delTag"}, tag : Tag]
  BY <1>3 DEF DelTag
<1>4. CASE c \in [op : {"setTags"}, view : View]
  BY <1>4
<1>5. CASE c \in [op : {"setTask"}, task : Task, value : Name \cup {Blank}]
  BY <1>5
<1>6. CASE c \in [op : {"drop"}, keys : SUBSET Task]
  BY <1>6 DEF Drop
<1>7. CASE c \in {DelTags, Members}
  BY <1>7 DEF DelTags, Members
<1> QED BY <1>1, <1>2, <1>3, <1>4, <1>5, <1>6, <1>7 DEF Command

LEMMA Commands ==
  /\ \A t \in Tag, n \in Name : Rename(t, n) \in Command
  /\ \A t \in Tag : Remove(t) \in Command /\ DelTag(t) \in Command
  /\ \A t \in Tag, v \in Name \cup {Blank} : SetTag(t, v) \in Command
  /\ \A v \in View : SetTags(v) \in Command
  /\ \A k \in Task, v \in Name \cup {Blank} : SetTask(k, v) \in Command
  /\ \A keys \in SUBSET Task : Drop(keys) \in Command
  /\ DelTags \in Command /\ Members \in Command
BY DEF Command, Rename, Remove, DelTag, SetTag, SetTags, SetTask, Drop, DelTags, Members

LEMMA Ops ==
  /\ \A t, n : Rename(t, n).op = "rename" /\ Rename(t, n).tag = t
  /\ \A t : Remove(t).op = "remove"
  /\ \A t : DelTag(t).op = "delTag" /\ DelTag(t).tag = t
  /\ \A t, v : SetTag(t, v).op = "setTag" /\ SetTag(t, v).tag = t
  /\ \A v : SetTags(v).op = "setTags"
  /\ \A k, v : SetTask(k, v).op = "setTask"
  /\ \A keys : Drop(keys).op = "drop" /\ Drop(keys).keys = keys
  /\ DelTags.op = "delTags" /\ Members.op = "members"
BY DEF Rename, Remove, DelTag, SetTag, SetTags, SetTask, Drop, DelTags, Members

\* A sequence of commands a job may have still to execute, when the tags are
\* those that were used.
Fit(s, tags) == s \in Seq(Command) /\ InOrder(s) /\ KnowsOnly(s, tags)

LEMMA SingleFit ==
  ASSUME NEW tags, NEW c \in Command, c.op # "drop",
         c.op \in {"rename", "setTag"} => c.tag \in tags
  PROVE  Fit(<<c>>, tags) /\ <<c>> # <<>> /\ Head(<<c>>) = c
BY DEF Fit, InOrder, KnowsOnly

LEMMA AfterFit ==
  ASSUME NEW tags, NEW t \in Tag, t \in tags
  PROVE  /\ \A n \in Name : /\ Fit(AfterCreate(t, n), tags)
                            /\ AfterCreate(t, n) # <<>> /\ Head(AfterCreate(t, n)).op # "drop"
                            /\ Has(AfterCreate(t, n), DelTags)
         /\ Fit(AfterRename(t), tags)
         /\ AfterRename(t) # <<>> /\ Head(AfterRename(t)).op # "drop"
         /\ Has(AfterRename(t), DelTag(t)) /\ Has(AfterRename(t), DelTags)
         /\ Has(AfterRename(t), Members)
<1>1. ASSUME NEW n \in Name
      PROVE  /\ Fit(AfterCreate(t, n), tags)
             /\ AfterCreate(t, n) # <<>> /\ Head(AfterCreate(t, n)).op # "drop"
             /\ Has(AfterCreate(t, n), DelTags)
  BY Commands, Ops DEF AfterCreate, Fit, InOrder, KnowsOnly, Has
<1>2. Fit(AfterRename(t), tags)
  BY Commands, Ops DEF AfterRename, Fit, InOrder, KnowsOnly
<1>3. /\ AfterRename(t) # <<>> /\ Head(AfterRename(t)).op # "drop"
      /\ Has(AfterRename(t), DelTag(t)) /\ Has(AfterRename(t), DelTags)
      /\ Has(AfterRename(t), Members)
  BY Ops DEF AfterRename, Has
<1> QED BY <1>1, <1>2, <1>3

LEMMA AfterRemoveFit ==
  ASSUME NEW tags, NEW t \in Tag
  PROVE  /\ Fit(AfterRemove(t), tags)
         /\ AfterRemove(t) # <<>> /\ Head(AfterRemove(t)).op # "drop"
         /\ Has(AfterRemove(t), DelTag(t)) /\ Has(AfterRemove(t), DelTags)
         /\ Has(AfterRemove(t), Members)
BY Commands, Ops DEF AfterRemove, Fit, InOrder, KnowsOnly, Has

\* What follows the first command is neither a statement nor a DEL of keys.
LEMMA TailOps ==
  ASSUME NEW tags, NEW s, Fit(s, tags), s # <<>>, NEW i \in DOMAIN Tail(s)
  PROVE  /\ Tail(s)[i] = s[i + 1] /\ i + 1 \in DOMAIN s
         /\ Tail(s)[i].op \notin {"rename", "remove", "drop"}
<1>1. s \in Seq(Command)
  BY DEF Fit
<1>2. Tail(s)[i] = s[i + 1] /\ i + 1 \in DOMAIN s /\ i \in Nat /\ i >= 1
  BY <1>1, HeadTail
<1>3. Len(s) # 1 /\ i + 1 # 1
  BY <1>1, <1>2
<1> QED BY <1>2, <1>3 DEF Fit, InOrder

LEMMA TailFit ==
  ASSUME NEW tags, NEW s, Fit(s, tags), s # <<>>
  PROVE  /\ Fit(Tail(s), tags)
         /\ Tail(s) # <<>> => Head(Tail(s)).op # "drop"
         /\ \A c : Has(s, c) => Has(Tail(s), c) \/ c = Head(s)
         /\ Head(s) \in Command
         /\ Head(s).op \in {"rename", "remove"} => Tail(s) = <<>>
         /\ Head(s).op \in {"rename", "setTag"} => Head(s).tag \in tags
<1>1. s \in Seq(Command)
  BY DEF Fit
<1>2. Tail(s) \in Seq(Command) /\ Head(s) \in Command /\ Head(s) = s[1] /\ 1 \in DOMAIN s
  BY <1>1, HeadTail
<1>3. InOrder(Tail(s)) /\ KnowsOnly(Tail(s), tags)
  BY TailOps DEF InOrder, KnowsOnly, Fit
<1>4. ASSUME Tail(s) # <<>> PROVE Head(Tail(s)).op # "drop"
  <2>1. 1 \in DOMAIN Tail(s) /\ Head(Tail(s)) = Tail(s)[1]
    BY <1>2, <1>4, HeadTail
  <2>2. \A i \in DOMAIN Tail(s) : Tail(s)[i].op # "drop"
    BY TailOps
  <2> QED BY <2>1, <2>2
<1>5. ASSUME NEW c, Has(s, c) PROVE Has(Tail(s), c) \/ c = Head(s)
  <2>1. PICK i \in DOMAIN s : s[i] = c
    BY <1>5 DEF Has
  <2>2. i = 1 \/ (i - 1 \in DOMAIN Tail(s) /\ Tail(s)[i - 1] = s[i])
    BY <1>1, HeadTail
  <2> QED BY <1>2, <2>1, <2>2 DEF Has
<1>6. Head(s).op \in {"rename", "remove"} => Tail(s) = <<>>
  BY <1>1, <1>2 DEF Fit, InOrder
<1>7. Head(s).op \in {"rename", "setTag"} => Head(s).tag \in tags
  BY <1>2 DEF Fit, KnowsOnly
<1> QED BY <1>2, <1>3, <1>4, <1>5, <1>6, <1>7 DEF Fit

\* SMEMBERS is replaced by the DEL of what it returned.
LEMMA DropFit ==
  ASSUME NEW tags, NEW s, Fit(s, tags), s # <<>>, NEW keys \in SUBSET Task,
         NEW new, new = <<Drop(keys)>> \o Tail(s), Head(s).op = "members"
  PROVE  /\ Fit(new, tags) /\ new # <<>> /\ Head(new) = Drop(keys)
         /\ \A c : Has(s, c) => Has(new, c) \/ c = Head(s)
         /\ Has(new, Drop(keys))
<1>1. Tail(s) \in Seq(Command) /\ Drop(keys) \in Command
  BY HeadTail, Commands DEF Fit
<1>2. /\ new \in Seq(Command) /\ new # <<>> /\ Head(new) = Drop(keys) /\ new[1] = Drop(keys)
      /\ \A i \in DOMAIN new : i = 1 \/ (i - 1 \in DOMAIN Tail(s) /\ new[i] = Tail(s)[i - 1])
      /\ \A i \in DOMAIN Tail(s) : i + 1 \in DOMAIN new /\ new[i + 1] = Tail(s)[i]
  BY <1>1, ConsFacts
<1>3. \A i \in DOMAIN Tail(s) : Tail(s)[i].op \notin {"rename", "remove", "drop"}
  BY TailOps
<1>4. InOrder(new) /\ KnowsOnly(new, tags)
  BY <1>2, <1>3, Ops, TailFit DEF InOrder, KnowsOnly, Fit
<1>5. ASSUME NEW c, Has(s, c) PROVE Has(new, c) \/ c = Head(s)
  <2>1. CASE Has(Tail(s), c)
    BY <1>2, <2>1 DEF Has
  <2> QED BY <1>5, <2>1, TailFit
<1>6. Has(new, Drop(keys))
  <2>1. 1 \in DOMAIN new
    BY <1>2, HeadTail
  <2> QED BY <1>2, <2>1 DEF Has
<1> QED BY <1>2, <1>4, <1>5, <1>6 DEF Fit

-----------------------------------------------------------------------------
(* Steps *)

\* A job goes on with the commands s: it forgets at most the one it executed.
Continues(j, s) ==
  /\ job' = [job EXCEPT ![j] = s]
  /\ Fit(s, used')
  /\ \A c : Has(job[j], c) => Has(s, c) \/ (job[j] # <<>> /\ c = Head(job[j]))

\* Handlers that start a job; none of them writes to Redis.
Handler(j) ==
  \/ \E t \in Tag, n \in Name : CreateTag(j, t, n) \/ UpdateTag(j, t, n)
  \/ \E t \in Tag : DeleteTag(j, t) \/ FindOne(j, t)
  \/ GetList(j)
  \/ \E k \in Task : FindTask(j, k) \/ CreateTask(j, k)

Statement(j) == RenameTag(j) \/ RemoveTag(j)

\* Redis commands that a job leaves behind.
Redis(j) == WriteTag(j) \/ WriteTags(j) \/ StoreTask(j) \/ TaskDrop(j) \/ CommandFails(j)

Expiry ==
  \/ \E t \in Tag : ExpireTag(t)
  \/ ExpireTags
  \/ \E k \in Task : ExpireTask(k)

\* A task is created and no copy of it stored.
Uncached == \E k \in Task : CreateUncached(k)

LEMMA NextKinds ==
  ASSUME [Next]_vars
  PROVE  \/ \E j \in Job : Handler(j) \/ Statement(j) \/ Redis(j) \/ TaskMembers(j)
         \/ \E t \in Tag, n \in Name : TagFromTask(t, n)
         \/ Expiry
         \/ Uncached
         \/ Crash
         \/ UNCHANGED vars
BY DEF Next, Handler, Statement, Redis, Expiry, Uncached

JobIInv == TypeOK /\ JobsInOrder /\ TagsWereUsed

LEMMA JobsFit ==
  ASSUME JobIInv, NEW j \in Job
  PROVE  Fit(job[j], used)
BY DEF JobIInv, TypeOK, JobsInOrder, TagsWereUsed, Fit

LEMMA NamesFacts ==
  ASSUME TypeOK
  PROVE  /\ \A t \in Tag : name[t] \in Name \cup {None}
         /\ \A t \in Tag : NameOf(t) \in Name \cup {Blank}
BY DEF TypeOK, View, NameOf

\* A job that had nothing to do gets the commands s.
Launches(j, s) == Continues(j, s) /\ s # <<>> /\ Head(s).op # "drop"

LEMMA Launching ==
  ASSUME NEW j \in Job, NEW s, Start(j, s), Fit(s, used'), s # <<>>, Head(s).op # "drop"
  PROVE  Launches(j, s)
BY DEF Start, Launches, Continues, Has

LEMMA LaunchesOne ==
  ASSUME NEW j \in Job, NEW c \in Command, Start(j, <<c>>), c.op # "drop",
         c.op \in {"rename", "setTag"} => c.tag \in used'
  PROVE  \E s : Launches(j, s)
<1>1. Fit(<<c>>, used') /\ <<c>> # <<>> /\ Head(<<c>>) = c
  BY SingleFit
<1> QED BY <1>1, Launching

LEMMA HandlerLaunches ==
  ASSUME JobIInv, NEW j \in Job, Handler(j)
  PROVE  /\ UNCHANGED <<redisVars, history>>
         /\ job[j] = <<>>
         /\ \E s : Launches(j, s)
<1>1. ASSUME NEW t \in Tag, NEW n \in Name, CreateTag(j, t, n) PROVE \E s : Launches(j, s)
  <2>1. t \in used' /\ Start(j, AfterCreate(t, n))
    BY <1>1 DEF CreateTag
  <2>2. /\ Fit(AfterCreate(t, n), used') /\ AfterCreate(t, n) # <<>>
        /\ Head(AfterCreate(t, n)).op # "drop"
    BY <2>1, AfterFit
  <2> QED BY <2>1, <2>2, Launching
<1>2. ASSUME NEW t \in Tag, name[t] # None, used' = used PROVE t \in used' /\ name[t] \in Name
  BY <1>2, NamesFacts DEF JobIInv, TagsWereUsed
<1>3. ASSUME NEW t \in Tag, NEW n \in Name, UpdateTag(j, t, n) PROVE \E s : Launches(j, s)
  <2>1. Start(j, <<Rename(t, n)>>) /\ t \in used'
    BY <1>2, <1>3 DEF UpdateTag, dbVars
  <2> QED BY <2>1, LaunchesOne, Commands, Ops
<1>4. ASSUME NEW t \in Tag, DeleteTag(j, t) PROVE \E s : Launches(j, s)
  <2>1. Start(j, <<Remove(t)>>)
    BY <1>4 DEF DeleteTag
  <2> QED BY <2>1, LaunchesOne, Commands, Ops
<1>5. ASSUME NEW t \in Tag, FindOne(j, t) PROVE \E s : Launches(j, s)
  <2>1. Start(j, <<SetTag(t, name[t])>>) /\ t \in used' /\ name[t] \in Name
    BY <1>2, <1>5 DEF FindOne, dbVars
  <2> QED BY <2>1, LaunchesOne, Commands, Ops
<1>6. ASSUME GetList(j) PROVE \E s : Launches(j, s)
  <2>1. Start(j, <<SetTags(name)>>) /\ name \in View
    BY <1>6 DEF GetList, JobIInv, TypeOK
  <2> QED BY <2>1, LaunchesOne, Commands, Ops
<1>7. ASSUME NEW k \in Task, FindTask(j, k) PROVE \E s : Launches(j, s)
  <2>1. Start(j, <<SetTask(k, NameOf(TaskTag))>>) /\ NameOf(TaskTag) \in Name \cup {Blank}
    BY <1>7, NamesFacts, TagAssumption DEF FindTask, JobIInv
  <2> QED BY <2>1, LaunchesOne, Commands, Ops
<1>8. ASSUME NEW k \in Task, CreateTask(j, k) PROVE \E s : Launches(j, s)
  <2>1. PICK v \in {NameOf(TaskTag), Blank} : Start(j, <<SetTask(k, v)>>)
    BY <1>8 DEF CreateTask
  <2>2. v \in Name \cup {Blank}
    BY NamesFacts, TagAssumption DEF JobIInv
  <2> QED BY <2>1, <2>2, LaunchesOne, Commands, Ops
<1>9. \E s : Launches(j, s)
  BY <1>1, <1>3, <1>4, <1>5, <1>6, <1>7, <1>8 DEF Handler
<1>10. UNCHANGED <<redisVars, history>> /\ job[j] = <<>>
  BY DEF Handler, CreateTag, UpdateTag, DeleteTag, FindOne, GetList, FindTask, CreateTask, Start
<1> QED BY <1>9, <1>10

\* A command is executed, or fails.
LEMMA Advancing ==
  ASSUME JobIInv, NEW j \in Job, job[j] # <<>>, Advance(j), used' = used
  PROVE  /\ Continues(j, Tail(job[j]))
         /\ Tail(job[j]) # <<>> => Head(Tail(job[j])).op # "drop"
<1>1. Fit(job[j], used)
  BY JobsFit
<1> QED BY <1>1, TailFit DEF Advance, Continues

LEMMA StatementContinues ==
  ASSUME JobIInv, NEW j \in Job, Statement(j)
  PROVE  /\ UNCHANGED <<redisVars, history, used>>
         /\ \E s : Continues(j, s) /\ (s # <<>> => Head(s).op # "drop")
         /\ job[j] # <<>> /\ Head(job[j]).op \in {"rename", "remove"}
<1>1. job[j] # <<>> /\ Head(job[j]).op \in {"rename", "remove"}
  BY DEF Statement, RenameTag, RemoveTag, AtOp
<1>2. UNCHANGED <<redisVars, history, used>>
  BY DEF Statement, RenameTag, RemoveTag
<1>3. Fit(job[j], used)
  BY JobsFit
<1> DEFINE t == Head(job[j]).tag
<1>4. /\ t \in Tag
      /\ Head(job[j]).op = "rename" => t \in used
      /\ Tail(job[j]) = <<>>
      /\ \A c : Has(job[j], c) => c = Head(job[j])
  <2>1. Head(job[j]) \in Command /\ Tail(job[j]) = <<>>
    BY <1>1, <1>3, TailFit
  <2>2. \A c : Has(job[j], c) => Has(Tail(job[j]), c) \/ c = Head(job[j])
    BY <1>1, <1>3, TailFit
  <2>3. t \in Tag
    BY <1>1, <2>1, CommandFacts
  <2>4. Head(job[j]).op = "rename" => t \in used
    BY <1>1, <1>3, TailFit
  <2>5. \A c : ~Has(<<>>, c)
    BY DEF Has
  <2> QED BY <2>1, <2>2, <2>3, <2>4, <2>5
<1>5. CASE RenameTag(j)
  <2>1. CASE Advance(j)
    BY <1>1, <1>2, <2>1, Advancing
  <2>2. CASE job' = [job EXCEPT ![j] = AfterRename(t)]
    <3>1. t \in used'
      BY <1>2, <1>4, <1>5 DEF RenameTag, AtOp
    <3>2. Fit(AfterRename(t), used') /\ Head(AfterRename(t)).op # "drop"
      BY <1>4, <3>1, AfterFit
    <3>3. Continues(j, AfterRename(t))
      BY <1>1, <1>4, <2>2, <3>2 DEF Continues
    <3> QED BY <1>1, <1>2, <3>2, <3>3
  <2> QED BY <1>5, <2>1, <2>2 DEF RenameTag
<1>6. CASE RemoveTag(j)
  <2>1. job' = [job EXCEPT ![j] = AfterRemove(t)]
    BY <1>6 DEF RemoveTag
  <2>2. Fit(AfterRemove(t), used') /\ Head(AfterRemove(t)).op # "drop"
    BY <1>4, AfterRemoveFit
  <2>3. Continues(j, AfterRemove(t))
    BY <1>1, <1>4, <2>1, <2>2 DEF Continues
  <2> QED BY <1>1, <1>2, <2>2, <2>3
<1> QED BY <1>1, <1>2, <1>5, <1>6 DEF Statement

LEMMA RedisContinues ==
  ASSUME JobIInv, NEW j \in Job, Redis(j)
  PROVE  /\ UNCHANGED dbVars
         /\ job[j] # <<>> /\ Advance(j)
         /\ Continues(j, Tail(job[j]))
         /\ Tail(job[j]) # <<>> => Head(Tail(job[j])).op # "drop"
<1>1. UNCHANGED dbVars /\ job[j] # <<>> /\ Advance(j)
  BY DEF Redis, WriteTag, WriteTags, StoreTask, TaskDrop, CommandFails, AtOp
<1> QED BY <1>1, Advancing DEF dbVars

LEMMA MembersContinues ==
  ASSUME JobIInv, NEW j \in Job, TaskMembers(j)
  PROVE  /\ UNCHANGED <<dbVars, redisVars, history>>
         /\ job[j] # <<>> /\ Head(job[j]) = Members
         /\ userTasks = {} => /\ Continues(j, Tail(job[j]))
                              /\ Tail(job[j]) # <<>> => Head(Tail(job[j])).op # "drop"
         /\ userTasks # {} => \E s : /\ Continues(j, s) /\ s # <<>> /\ Head(s) = Drop(userTasks)
                                     /\ Has(s, Drop(userTasks))
<1>1. UNCHANGED <<dbVars, redisVars, history>> /\ job[j] # <<>> /\ Head(job[j]).op = "members"
  BY DEF TaskMembers, AtOp
<1>2. Fit(job[j], used) /\ used' = used
  BY <1>1, JobsFit DEF dbVars
<1>3. Head(job[j]) = Members
  BY <1>1, <1>2, TailFit, CommandFacts
<1>4. CASE userTasks = {}
  <2>1. Advance(j)
    BY <1>4 DEF TaskMembers, Advance
  <2> QED BY <1>1, <1>2, <1>3, <1>4, <2>1, Advancing
<1>5. CASE userTasks # {}
  <2>1. userTasks \in SUBSET Task
    BY DEF JobIInv, TypeOK
  <2>2. PICK s : s = <<Drop(userTasks)>> \o Tail(job[j])
    OBVIOUS
  <2>3. job' = [job EXCEPT ![j] = s]
    BY <1>5, <2>2 DEF TaskMembers
  <2>4. /\ Fit(s, used) /\ s # <<>> /\ Head(s) = Drop(userTasks)
        /\ \A c : Has(job[j], c) => Has(s, c) \/ c = Head(job[j])
        /\ Has(s, Drop(userTasks))
    <3>1. PICK q : q = job[j]
      OBVIOUS
    <3>2. PICK keys \in SUBSET Task : keys = userTasks
      BY <2>1
    <3>3. Fit(q, used) /\ q # <<>> /\ Head(q).op = "members" /\ s = <<Drop(keys)>> \o Tail(q)
      BY <1>1, <1>2, <2>2, <3>1, <3>2
    <3>4. /\ Fit(s, used) /\ s # <<>> /\ Head(s) = Drop(keys)
          /\ \A c : Has(q, c) => Has(s, c) \/ c = Head(q)
          /\ Has(s, Drop(keys))
      BY <3>3, DropFit
    <3> QED BY <3>1, <3>2, <3>4
  <2>5. Continues(j, s)
    BY <1>1, <1>2, <2>3, <2>4 DEF Continues
  <2> QED BY <1>1, <1>3, <1>5, <2>4, <2>5
<1> QED BY <1>4, <1>5

-----------------------------------------------------------------------------
(* Types, the order of commands, and the tags they know *)

LEMMA ContinuesJobs ==
  ASSUME JobIInv, NEW j \in Job, NEW s, Continues(j, s), used \subseteq used'
  PROVE  /\ job' \in [Job -> Seq(Command)]
         /\ JobsInOrder'
         /\ \A i \in Job : KnowsOnly(job'[i], used')
<1>1. job \in [Job -> Seq(Command)] /\ job' = [job EXCEPT ![j] = s] /\ Fit(s, used')
  BY DEF JobIInv, TypeOK, Continues
<1>2. \A i \in Job : job'[i] = IF i = j THEN s ELSE job[i]
  BY <1>1
<1>3. job' \in [Job -> Seq(Command)]
  BY <1>1 DEF Fit
<1>4. \A i \in Job : InOrder(job'[i])
  BY <1>1, <1>2 DEF JobIInv, JobsInOrder, Fit
<1>5. \A i \in Job : KnowsOnly(job[i], used')
  BY DEF JobIInv, TagsWereUsed, KnowsOnly
<1>6. \A i \in Job : KnowsOnly(job'[i], used')
  BY <1>1, <1>2, <1>5 DEF Fit
<1> QED BY <1>3, <1>4, <1>6 DEF JobsInOrder

\* The parts of JobIInv that are not about job.
DatabaseOK ==
  /\ name \in View
  /\ used \subseteq Tag
  /\ commits \in 0 .. MaxCommits
  /\ created \subseteq Task
  /\ TaskTag \in used
  /\ \A t \in Tag : name[t] # None => t \in used

CacheOK ==
  /\ cachedTag \in [Tag -> Name \cup {Blank, None}]
  /\ cachedTags \in View \cup {None}
  /\ cachedTask \in [Task -> Name \cup {Blank, None}]
  /\ userTasks \subseteq Task
  /\ \A t \in Tag : cachedTag[t] \in Name => t \in used

HistoryOK ==
  /\ overlapped \subseteq Task
  /\ lateTag \subseteq Tag /\ lateTags \in BOOLEAN
  /\ lateTask \subseteq Task /\ asked \subseteq Task

LEMMA Parts ==
  JobIInv <=> /\ DatabaseOK /\ CacheOK /\ HistoryOK
              /\ job \in [Job -> Seq(Command)] /\ JobsInOrder
              /\ \A i \in Job : KnowsOnly(job[i], used)
BY DEF JobIInv, TypeOK, TagsWereUsed, DatabaseOK, CacheOK, HistoryOK

\* A commit changes one name of a tag that is used by then.
LEMMA CommitOK ==
  ASSUME DatabaseOK, NEW t \in Tag, NEW n \in Name \cup {None}, Commit(t, n),
         used' \subseteq Tag, used \subseteq used', n # None => t \in used', created' = created
  PROVE  DatabaseOK'
<1>1. commits' \in 0 .. MaxCommits
  BY TagAssumption DEF DatabaseOK, Commit
<1>2. name' \in View /\ \A u \in Tag : name'[u] = IF u = t THEN n ELSE name[u]
  BY DEF DatabaseOK, Commit, View
<1> QED BY <1>1, <1>2 DEF DatabaseOK

LEMMA DatabaseStep ==
  ASSUME JobIInv, [Next]_vars
  PROVE  DatabaseOK' /\ used \subseteq used'
<1>0. DatabaseOK
  BY Parts
<1>1. CASE UNCHANGED dbVars
  BY <1>0, <1>1 DEF dbVars, DatabaseOK
<1>2. ASSUME NEW t \in Tag, NEW n \in Name,
             TagFromTask(t, n) \/ \E j \in Job : CreateTag(j, t, n)
      PROVE  DatabaseOK' /\ used \subseteq used'
  <2>1. Commit(t, n) /\ used' = used \cup {t} /\ created' = created
    BY <1>2 DEF TagFromTask, CreateTag
  <2> QED BY <1>0, <2>1, CommitOK DEF DatabaseOK
<1>3. ASSUME NEW j \in Job, Statement(j) PROVE DatabaseOK' /\ used \subseteq used'
  <2> DEFINE t == Head(job[j]).tag
  <2>0. created' = created
    BY <1>3 DEF Statement, RenameTag, RemoveTag
  <2>1. used' = used /\ job[j] # <<>> /\ Head(job[j]).op \in {"rename", "remove"}
    BY <1>3, StatementContinues
  <2>2. Head(job[j]) \in Command
    BY <2>1, JobsFit, TailFit
  <2>3. t \in Tag /\ (Head(job[j]).op = "rename" => Head(job[j]).value \in Name)
    BY <2>1, <2>2, CommandFacts
  <2>4. CASE RenameTag(j)
    <3>1. \/ name[t] # None /\ Commit(t, Head(job[j]).value)
          \/ UNCHANGED <<name, commits>>
      BY <2>4 DEF RenameTag
    <3>2. Head(job[j]).value \in Name
      BY <2>3, <2>4 DEF RenameTag, AtOp
    <3>3. name[t] # None => t \in used
      BY <1>0, <2>3 DEF DatabaseOK
    <3> QED BY <1>0, <2>0, <2>1, <2>3, <3>1, <3>2, <3>3, CommitOK DEF DatabaseOK
  <2>5. CASE RemoveTag(j)
    <3>1. Commit(t, None) \/ UNCHANGED <<name, commits>>
      BY <2>5 DEF RemoveTag
    <3> QED BY <1>0, <2>0, <2>1, <2>3, <3>1, CommitOK DEF DatabaseOK
  <2> QED BY <1>3, <2>4, <2>5 DEF Statement
<1>4. ASSUME NEW k \in Task, CreateUncached(k) \/ \E j \in Job : CreateTask(j, k)
      PROVE  DatabaseOK' /\ used \subseteq used'
  BY <1>0, <1>4 DEF CreateUncached, CreateTask, DatabaseOK
<1> QED
  BY <1>1, <1>2, <1>3, <1>4
  DEF Next, vars, Statement, UpdateTag, DeleteTag, FindOne, GetList, FindTask, WriteTag, WriteTags,
      StoreTask, TaskMembers, TaskDrop, CommandFails, Crash, ExpireTag, ExpireTags, ExpireTask

\* The first command of a job, with what TypeOK says of it.
LEMMA HeadFacts ==
  ASSUME JobIInv, NEW j \in Job, job[j] # <<>>
  PROVE  /\ Head(job[j]) \in Command
         /\ Head(job[j]).op = "setTag" => Head(job[j]).tag \in used
BY JobsFit, TailFit

LEMMA RedisCacheOK ==
  ASSUME JobIInv, NEW j \in Job, Redis(j)
  PROVE  CacheOK'
<1>0. CacheOK /\ used \subseteq Tag
  BY Parts DEF DatabaseOK
<1>1. used' = used /\ job[j] # <<>>
  BY RedisContinues DEF dbVars
<1>2. Head(job[j]) \in Command /\ (Head(job[j]).op = "setTag" => Head(job[j]).tag \in used)
  BY <1>1, HeadFacts
<1>3. CASE WriteTag(j)
  <2> DEFINE t == Head(job[j]).tag
             v == IF AtOp(j, "delTag") THEN None ELSE Head(job[j]).value
  <2>1. t \in Tag
    BY <1>2, <1>3, CommandFacts DEF WriteTag, AtOp
  <2>2. v \in Name \cup {Blank, None} /\ (v \in Name => t \in used)
    BY <1>2, <1>3, CommandFacts, TagAssumption DEF WriteTag, AtOp
  <2>3. cachedTag' = [cachedTag EXCEPT ![t] = v] /\ UNCHANGED <<cachedTags, cachedTask, userTasks>>
    BY <1>3 DEF WriteTag
  <2> HIDE DEF t, v
  <2> QED BY <1>0, <1>1, <2>1, <2>2, <2>3 DEF CacheOK
<1>4. CASE WriteTags(j)
  <2>1. cachedTags' \in View \cup {None}
    BY <1>2, <1>4, CommandFacts DEF WriteTags, AtOp
  <2> QED BY <1>0, <1>1, <1>4, <2>1 DEF WriteTags, CacheOK
<1>5. CASE StoreTask(j)
  <2> DEFINE k == Head(job[j]).task
             v == Head(job[j]).value
  <2>1. k \in Task /\ v \in Name \cup {Blank}
    BY <1>2, <1>5, CommandFacts DEF StoreTask, AtOp
  <2>2. cachedTask' = [cachedTask EXCEPT ![k] = v] /\ userTasks' = userTasks \cup {k}
    BY <1>5 DEF StoreTask, TrackedWith
  <2>3. UNCHANGED <<cachedTag, cachedTags>>
    BY <1>5 DEF StoreTask
  <2> HIDE DEF k, v
  <2> QED BY <1>0, <1>1, <2>1, <2>2, <2>3 DEF CacheOK
<1>6. CASE TaskDrop(j)
  BY <1>0, <1>1, <1>6 DEF TaskDrop, CacheOK
<1>7. CASE CommandFails(j)
  BY <1>0, <1>1, <1>7 DEF CommandFails, redisVars, CacheOK
<1> QED BY <1>3, <1>4, <1>5, <1>6, <1>7 DEF Redis

LEMMA RedisHistoryOK ==
  ASSUME JobIInv, NEW j \in Job, Redis(j)
  PROVE  HistoryOK'
<1>0. HistoryOK
  BY Parts
<1>1. Head(job[j]) \in Command
  BY RedisContinues, HeadFacts
<1>2. CASE WriteTag(j)
  <2>1. Head(job[j]).tag \in Tag
    BY <1>1, <1>2, CommandFacts DEF WriteTag, AtOp
  <2> QED BY <1>0, <1>2, <2>1 DEF WriteTag, With, HistoryOK
<1>3. CASE WriteTags(j)
  <2>1. lateTags' \in BOOLEAN
    BY <1>3, Zenon DEF WriteTags
  <2> QED BY <1>0, <1>3, <2>1 DEF WriteTags, HistoryOK
<1>4. CASE StoreTask(j)
  <2>1. Head(job[j]).task \in Task
    BY <1>1, <1>4, CommandFacts DEF StoreTask, AtOp
  <2> QED BY <1>0, <1>4, <2>1 DEF StoreTask, With, HistoryOK
<1>5. CASE TaskDrop(j)
  BY <1>0, <1>5 DEF TaskDrop, HistoryOK
<1>6. CASE CommandFails(j)
  <2>1. lateTags' \in BOOLEAN
    BY <1>6, Zenon DEF CommandFails, Uncorrected
  <2> QED BY <1>0, <1>6, <2>1 DEF CommandFails, Uncorrected, HistoryOK
<1> QED BY <1>2, <1>3, <1>4, <1>5, <1>6 DEF Redis

LEMMA JobStep ==
  ASSUME JobIInv, [Next]_vars
  PROVE  JobIInv'
<1> DEFINE JobsOK == /\ job \in [Job -> Seq(Command)] /\ JobsInOrder
                     /\ \A i \in Job : KnowsOnly(job[i], used)
<1>0. /\ DatabaseOK /\ CacheOK /\ HistoryOK /\ JobsOK
      /\ DatabaseOK' /\ used \subseteq used'
  BY Parts, DatabaseStep
<1>1. ASSUME UNCHANGED redisVars PROVE CacheOK'
  BY <1>0, <1>1 DEF redisVars, CacheOK
<1>2. ASSUME UNCHANGED history PROVE HistoryOK'
  BY <1>0, <1>2 DEF history, HistoryOK
<1>3. ASSUME NEW j \in Job, NEW s, Continues(j, s) PROVE JobsOK'
  BY <1>0, <1>3, ContinuesJobs
<1>4. ASSUME UNCHANGED job PROVE JobsOK'
  BY <1>0, <1>4 DEF JobsInOrder, KnowsOnly
<1>5. ASSUME NEW j \in Job, Handler(j) PROVE CacheOK' /\ HistoryOK' /\ JobsOK'
  BY <1>1, <1>2, <1>3, <1>5, HandlerLaunches DEF Launches
<1>6. ASSUME NEW j \in Job, Statement(j) PROVE CacheOK' /\ HistoryOK' /\ JobsOK'
  BY <1>1, <1>2, <1>3, <1>6, StatementContinues
<1>7. ASSUME NEW j \in Job, Redis(j) PROVE CacheOK' /\ HistoryOK' /\ JobsOK'
  BY <1>3, <1>7, RedisContinues, RedisCacheOK, RedisHistoryOK
<1>8. ASSUME NEW j \in Job, TaskMembers(j) PROVE CacheOK' /\ HistoryOK' /\ JobsOK'
  BY <1>1, <1>2, <1>3, <1>8, MembersContinues
<1>9. ASSUME NEW t \in Tag, NEW n \in Name, TagFromTask(t, n)
      PROVE  CacheOK' /\ HistoryOK' /\ JobsOK'
  <2>1. UNCHANGED redisVars /\ UNCHANGED job
    BY <1>9 DEF TagFromTask
  <2>2. lateTags' \in BOOLEAN
    BY <1>9, Zenon DEF TagFromTask
  <2>3. HistoryOK'
    BY <1>0, <1>9, <2>2 DEF TagFromTask, HistoryOK
  <2> QED BY <1>1, <1>4, <2>1, <2>3
<1>10. ASSUME Expiry PROVE CacheOK' /\ HistoryOK' /\ JobsOK'
  <2>1. UNCHANGED job /\ used' = used
    BY <1>10 DEF Expiry, ExpireTag, ExpireTags, ExpireTask, dbVars
  <2>2. CacheOK'
    BY <1>0, <1>10, <2>1, TagAssumption DEF Expiry, ExpireTag, ExpireTags, ExpireTask, CacheOK
  <2>3. HistoryOK'
    BY <1>0, <1>10 DEF Expiry, ExpireTag, ExpireTags, ExpireTask, HistoryOK
  <2> QED BY <1>4, <2>1, <2>2, <2>3
<1>11. ASSUME Crash PROVE CacheOK' /\ HistoryOK' /\ JobsOK'
  <2>1. lateTags' \in BOOLEAN
    BY <1>11, Zenon DEF Crash, Uncorrected
  <2>2. HistoryOK' /\ UNCHANGED redisVars
    BY <1>0, <1>11, <2>1 DEF Crash, Uncorrected, HistoryOK
  <2>3. JobsOK'
    BY <1>11 DEF Crash, JobsInOrder, InOrder, KnowsOnly
  <2> QED BY <1>1, <2>2, <2>3
<1>12. ASSUME Uncached \/ UNCHANGED vars PROVE CacheOK' /\ HistoryOK' /\ JobsOK'
  BY <1>1, <1>2, <1>4, <1>12 DEF Uncached, CreateUncached, vars
<1>13. CacheOK' /\ HistoryOK' /\ JobsOK'
  BY <1>5, <1>6, <1>7, <1>8, <1>9, <1>10, <1>11, <1>12, NextKinds
<1> QED BY <1>0, <1>13, Parts, PTL

LEMMA InitJobIInv == Init => JobIInv
<1> SUFFICES ASSUME Init PROVE JobIInv
  OBVIOUS
<1>1. DatabaseOK
  BY TagAssumption DEF Init, DatabaseOK, View
<1>2. CacheOK /\ HistoryOK
  BY TagAssumption DEF Init, CacheOK, HistoryOK
<1>3. /\ job \in [Job -> Seq(Command)] /\ JobsInOrder
      /\ \A i \in Job : KnowsOnly(job[i], used)
  BY DEF Init, JobsInOrder, InOrder, KnowsOnly
<1> QED BY <1>1, <1>2, <1>3, Parts

\* The state of the caches and of the jobs is well typed: a command always finds
\* the tag, the name or the keys it needs (tags/handlers/handler.go:130-327).
THEOREM TagTypeCorrect == Spec => []TypeOK
<1>1. JobIInv => TypeOK
  BY DEF JobIInv
<1> QED BY InitJobIInv, JobStep, <1>1, PTL DEF Spec

-----------------------------------------------------------------------------
(* Cached tasks and user_tasks are a tracked group of keys *)

Stored == {k \in Task : cachedTask[k] # None}

\* What SMEMBERS returned to the jobs that are about to delete it.
Found == [j \in Job |-> IF AtOp(j, "drop") THEN Head(job[j]).keys ELSE None]

LEMMA InitTracked == Init => Tasks!Init
BY DEF Init, AtOp, Tasks!Init

\* Found after a step of job j.
LEMMA FoundAfter ==
  ASSUME JobIInv, NEW j \in Job, NEW s, job' = [job EXCEPT ![j] = s]
  PROVE  Found' = [Found EXCEPT ![j] = IF s # <<>> /\ Head(s).op = "drop" THEN Head(s).keys ELSE None]
<1>1. job \in [Job -> Seq(Command)]
  BY DEF JobIInv, TypeOK
<1>2. \A i \in Job : job'[i] = IF i = j THEN s ELSE job[i]
  BY <1>1
<1>3. \A i \in Job : Found'[i] = IF i = j
                                THEN IF s # <<>> /\ Head(s).op = "drop" THEN Head(s).keys ELSE None
                                ELSE Found[i]
  BY <1>2 DEF Found, AtOp
<1> QED BY <1>3 DEF Found

\* A step that neither reads nor writes the group.
LEMMA Untouched ==
  ASSUME JobIInv, NEW j \in Job, NEW s, Continues(j, s), s # <<>> => Head(s).op # "drop",
         UNCHANGED <<cachedTask, userTasks, overlapped>>,
         job[j] # <<>> => Head(job[j]).op # "drop"
  PROVE  UNCHANGED Tasks!vars
<1>1. Found' = [Found EXCEPT ![j] = None]
  BY FoundAfter DEF Continues
<1>2. Found' = Found
  BY <1>1 DEF Found, AtOp
<1> QED BY <1>2 DEF Found, Tasks!vars

LEMMA RedisTracked ==
  ASSUME JobIInv, NEW j \in Job, Redis(j)
  PROVE  [Tasks!Next]_(Tasks!vars)
<1>1. /\ job[j] # <<>> /\ Continues(j, Tail(job[j]))
      /\ Tail(job[j]) # <<>> => Head(Tail(job[j])).op # "drop"
  BY RedisContinues
<1>2. Head(job[j]) \in Command
  BY <1>1, HeadFacts
<1>3. Found' = [Found EXCEPT ![j] = None]
  BY <1>1, FoundAfter DEF Continues
<1>4. CASE WriteTag(j) \/ WriteTags(j)
  <2>1. UNCHANGED <<cachedTask, userTasks, overlapped>> /\ Head(job[j]).op # "drop"
    BY <1>4 DEF WriteTag, WriteTags, AtOp
  <2> QED BY <1>1, <2>1, Untouched
<1>5. CASE StoreTask(j)
  <2>1. PICK k \in Task : k = Head(job[j]).task
    BY <1>2, <1>5, CommandFacts DEF StoreTask, AtOp
  <2>2. PICK v \in Name \cup {Blank} : v = Head(job[j]).value
    BY <1>2, <1>5, CommandFacts DEF StoreTask, AtOp
  <2>3. Found' = Found
    BY <1>3, <1>5 DEF StoreTask, AtOp, Found
  <2>4. ASSUME NEW i \in Job, AtOp(i, "drop") PROVE Head(job[i]).keys # None
    <3>1. job[i] # <<>> /\ Head(job[i]).op = "drop"
      BY <2>4 DEF AtOp
    <3>2. Head(job[i]) \in Command
      BY <3>1, HeadFacts
    <3> QED BY <3>1, <3>2, CommandFacts, TagAssumption
  <2>5. Overtaken(k) <=> Tasks!Overtakes(k)
    BY <2>4 DEF Overtaken, Tasks!Overtakes
  <2>6. overlapped' = IF Overtaken(k) THEN overlapped \cup {k} ELSE overlapped \ {k}
    BY <1>5, <2>1 DEF StoreTask, With
  <2>7. cachedTask' = [cachedTask EXCEPT ![k] = v] /\ userTasks' = userTasks \cup {k}
    BY <1>5, <2>1, <2>2 DEF StoreTask, TrackedWith
  <2>8. Stored' = Stored \cup {k}
    BY <2>7, TagAssumption DEF Stored, JobIInv, TypeOK
  <2>9. Tasks!Store(k)
    BY <2>3, <2>5, <2>6, <2>7, <2>8 DEF Found, Stored, Tasks!Store
  <2> QED BY <2>9 DEF Tasks!Next
<1>6. CASE TaskDrop(j)
  <2>1. Head(job[j]).op = "drop"
    BY <1>6 DEF TaskDrop, AtOp
  <2>2. PICK keys \in SUBSET Task : keys = Head(job[j]).keys
    BY <1>2, <2>1, CommandFacts
  <2>3. Found[j] = keys /\ keys # None
    BY <1>1, <2>1, <2>2, TagAssumption DEF Found, AtOp
  <2>4. Stored' = Stored \ keys /\ userTasks' = {} /\ overlapped' = overlapped
    BY <1>6, <2>2 DEF TaskDrop, Stored
  <2>5. Tasks!Drop(j)
    BY <1>3, <2>3, <2>4 DEF Found, Stored, Tasks!Drop
  <2> QED BY <2>5 DEF Tasks!Next
<1>7. CASE CommandFails(j)
  <2>1. Stored' = Stored /\ userTasks' = userTasks /\ overlapped' = overlapped
    BY <1>7 DEF CommandFails, redisVars, Stored
  <2>2. Tasks!Abandon({j})
    BY <1>3, <2>1 DEF Found, Stored, Tasks!Abandon
  <2> QED BY <2>2 DEF Tasks!Next
<1> QED BY <1>4, <1>5, <1>6, <1>7 DEF Redis

LEMMA MembersTracked ==
  ASSUME JobIInv, NEW j \in Job, TaskMembers(j)
  PROVE  [Tasks!Next]_(Tasks!vars)
<1>1. /\ UNCHANGED <<cachedTask, userTasks, overlapped>>
      /\ job[j] # <<>> /\ Head(job[j]).op = "members"
  BY MembersContinues, Ops DEF redisVars, history
<1>2. CASE userTasks = {}
  BY <1>1, <1>2, MembersContinues, Untouched
<1>3. CASE userTasks # {}
  <2>1. PICK s : Continues(j, s) /\ s # <<>> /\ Head(s) = Drop(userTasks)
    BY <1>3, MembersContinues
  <2>2. Found' = [Found EXCEPT ![j] = userTasks]
    <3>1. job' = [job EXCEPT ![j] = s] /\ Head(s).op = "drop" /\ Head(s).keys = userTasks
      BY <2>1, Ops DEF Continues
    <3> QED BY <2>1, <3>1, FoundAfter
  <2>3. Found[j] = None
    BY <1>1 DEF Found, AtOp
  <2>4. Stored' = Stored
    BY <1>1 DEF Stored
  <2>5. Tasks!Members(j)
    BY <1>1, <1>3, <2>2, <2>3, <2>4 DEF Found, Stored, Tasks!Members
  <2> QED BY <2>5 DEF Tasks!Next
<1> QED BY <1>2, <1>3

LEMMA StepTracked ==
  ASSUME JobIInv, [Next]_vars
  PROVE  [Tasks!Next]_(Tasks!vars)
<1>1. ASSUME NEW j \in Job, Handler(j) PROVE UNCHANGED Tasks!vars
  <2>1. PICK s : Launches(j, s)
    BY <1>1, HandlerLaunches
  <2>2. job[j] = <<>> /\ UNCHANGED <<cachedTask, userTasks, overlapped>>
    BY <1>1, HandlerLaunches DEF redisVars, history
  <2> QED BY <2>1, <2>2, Untouched DEF Launches
<1>2. ASSUME NEW j \in Job, Statement(j) PROVE UNCHANGED Tasks!vars
  <2>1. PICK s : Continues(j, s) /\ (s # <<>> => Head(s).op # "drop")
    BY <1>2, StatementContinues
  <2>2. /\ Head(job[j]).op \in {"rename", "remove"}
        /\ UNCHANGED <<cachedTask, userTasks, overlapped>>
    BY <1>2, StatementContinues DEF redisVars, history
  <2> QED BY <2>1, <2>2, Untouched
<1>3. ASSUME NEW t \in Tag, NEW n \in Name, TagFromTask(t, n) PROVE UNCHANGED Tasks!vars
  BY <1>3 DEF TagFromTask, redisVars, AtOp, Tasks!vars
<1>4. ASSUME Expiry PROVE [Tasks!Next]_(Tasks!vars)
  <2>1. ASSUME NEW k \in Task, ExpireTask(k) PROVE Tasks!Forget({k})
    <3>1. Stored' = Stored \ {k} /\ Found' = Found /\ UNCHANGED <<userTasks, overlapped>>
      BY <2>1 DEF ExpireTask, Stored, Found, AtOp, JobIInv, TypeOK
    <3> QED BY <3>1 DEF Stored, Found, Tasks!Forget
  <2>2. CASE ExpireTags \/ \E t \in Tag : ExpireTag(t)
    BY <2>2 DEF ExpireTags, ExpireTag, AtOp, Tasks!vars
  <2> QED BY <1>4, <2>1, <2>2 DEF Expiry, Tasks!Next
<1>5. ASSUME Crash PROVE Tasks!Abandon(Job)
  BY <1>5 DEF Crash, redisVars, AtOp, Tasks!Abandon
<1>6. ASSUME Uncached \/ UNCHANGED vars PROVE UNCHANGED Tasks!vars
  BY <1>6 DEF Uncached, CreateUncached, vars, redisVars, history, AtOp, Tasks!vars
<1>7. Crash => Tasks!Next
  BY <1>5 DEF Tasks!Next
<1> QED BY <1>1, <1>2, <1>3, <1>4, <1>6, <1>7, RedisTracked, MembersTracked, NextKinds

\* tasks/repository/redis/redis.go:240-260: SetTask and
\* InvalidateUserTaskCaches, command by command and interleaved in any way,
\* implement a tracked group of keys.
THEOREM TasksTracked == Spec => TasksAreTracked
<1>1. JobIInv /\ [Next]_vars => [Tasks!Next]_(Tasks!vars)
  BY StepTracked
<1> QED BY InitJobIInv, JobStep, InitTracked, <1>1, PTL DEF Spec, TasksAreTracked, Tasks!Spec

-----------------------------------------------------------------------------
(* Stale names *)

\* A command that some job has still to execute.
Queued(c) == \E j \in Job : Has(job[j], c)

LEMMA PendingFacts ==
  /\ \A t : Pending(Job, {DelTag(t)}) <=> Queued(DelTag(t))
  /\ Pending(Job, {DelTags}) <=> Queued(DelTags)
  /\ \A j \in Job : \A c : Has(job[j], c) => Pending({j}, {c})
  /\ \A k : Pending(Job, {Members} \cup {Drop(s) : s \in {x \in SUBSET Task : k \in x}})
             <=> Queued(Members) \/ \E s \in SUBSET Task : k \in s /\ Queued(Drop(s))
BY DEF Pending, Queued, Has

\* What was to be executed still is, except the command that was executed.
LEMMA QueueKept ==
  ASSUME JobIInv, NEW j \in Job, NEW s, Continues(j, s), NEW c, Queued(c)
  PROVE  Queued(c)' \/ (job[j] # <<>> /\ Has(job[j], c) /\ c = Head(job[j]))
<1>1. job \in [Job -> Seq(Command)] /\ job' = [job EXCEPT ![j] = s]
  BY DEF JobIInv, TypeOK, Continues
<1>2. PICK i \in Job : Has(job[i], c)
  BY DEF Queued
<1>3. \A x \in Job : job'[x] = IF x = j THEN s ELSE job[x]
  BY <1>1
<1>4. CASE i = j
  BY <1>2, <1>3, <1>4 DEF Continues, Queued
<1>5. CASE i # j
  BY <1>2, <1>3, <1>5 DEF Queued
<1> QED BY <1>4, <1>5

\* What a job was given is to be executed.
LEMMA QueueGains ==
  ASSUME JobIInv, NEW j \in Job, NEW s, job' = [job EXCEPT ![j] = s], NEW c, Has(s, c)
  PROVE  Queued(c)'
<1>1. job'[j] = s
  BY DEF JobIInv, TypeOK
<1> QED BY <1>1 DEF Queued

\* The names change only where a correction is sent after the change, or with a
\* tag of which Redis has no copy.
NameChange(t) ==
  /\ \A u \in Tag \ {t} : name'[u] = name[u]
  /\ \/ t \notin used /\ (lateTags' \/ cachedTags = None \/ Queued(DelTags)') /\ used' = used \cup {t}
     \/ Queued(DelTag(t))' /\ Queued(DelTags)' /\ Queued(Members)'

\* The steps that leave Redis alone.
Quiet ==
  /\ UNCHANGED <<redisVars, overlapped, lateTag, lateTask, asked>>
  /\ lateTags => lateTags'
  /\ \A c : Queued(c) /\ c.op \notin {"rename", "remove", "members"} => Queued(c)'
  /\ name' = name \/ \E t \in Tag : NameChange(t)

LEMMA CommitName ==
  ASSUME JobIInv, NEW t \in Tag, NEW n, Commit(t, n)
  PROVE  \A u \in Tag \ {t} : name'[u] = name[u]
BY DEF Commit, JobIInv, TypeOK, View

LEMMA HandlerQuiet ==
  ASSUME JobIInv, NEW j \in Job, Handler(j)
  PROVE  Quiet /\ (Queued(Members) => Queued(Members)')
<1>1. UNCHANGED <<redisVars, history>> /\ job[j] = <<>>
  BY HandlerLaunches
<1>2. PICK s : Continues(j, s)
  BY HandlerLaunches DEF Launches
<1>3. \A c : Queued(c) => Queued(c)'
  BY <1>1, <1>2, QueueKept
<1>4. name' = name \/ \E t \in Tag : NameChange(t)
  <2>1. ASSUME NEW t \in Tag, NEW n \in Name, CreateTag(j, t, n) PROVE NameChange(t)
    <3>1. /\ t \notin used /\ used' = used \cup {t} /\ Commit(t, n)
          /\ job' = [job EXCEPT ![j] = AfterCreate(t, n)]
      BY <2>1 DEF CreateTag, Start
    <3>2. Has(AfterCreate(t, n), DelTags)
      BY <3>1, AfterFit
    <3>3. Queued(DelTags)'
      BY <3>1, <3>2, QueueGains
    <3> QED BY <3>1, <3>3, CommitName DEF NameChange
  <2> QED BY <2>1 DEF Handler, UpdateTag, DeleteTag, FindOne, GetList, FindTask, CreateTask, dbVars
<1> QED BY <1>1, <1>3, <1>4 DEF Quiet, history

LEMMA FromTaskQuiet ==
  ASSUME JobIInv, NEW t \in Tag, NEW n \in Name, TagFromTask(t, n)
  PROVE  Quiet /\ (Queued(Members) => Queued(Members)')
<1>1. NameChange(t)
  BY CommitName DEF TagFromTask, NameChange
<1>2. \A c : Queued(c) => Queued(c)'
  BY DEF TagFromTask, Queued
<1> QED BY <1>1, <1>2 DEF Quiet, TagFromTask

LEMMA StatementQuiet ==
  ASSUME JobIInv, NEW j \in Job, Statement(j)
  PROVE  Quiet /\ (Queued(Members) => Queued(Members)')
<1>1. /\ UNCHANGED <<redisVars, history, used>>
      /\ job[j] # <<>> /\ Head(job[j]).op \in {"rename", "remove"}
  BY StatementContinues
<1>2. PICK s : Continues(j, s)
  BY StatementContinues
<1>3. \A c : Queued(c) /\ c.op \notin {"rename", "remove"} => Queued(c)'
  BY <1>1, <1>2, QueueKept
<1>4. PICK t \in Tag : t = Head(job[j]).tag
  BY <1>1, HeadFacts, CommandFacts
<1>5. name' = name \/ NameChange(t)
  <2>1. CASE RenameTag(j)
    <3>1. \/ name' = name
          \/ /\ name[t] # None /\ Commit(t, Head(job[j]).value)
             /\ job' = [job EXCEPT ![j] = AfterRename(t)]
      BY <1>4, <2>1 DEF RenameTag
    <3>2. name[t] # None => t \in used
      BY DEF JobIInv, TagsWereUsed
    <3>3. t \in used => /\ Has(AfterRename(t), DelTag(t)) /\ Has(AfterRename(t), DelTags)
                        /\ Has(AfterRename(t), Members)
      BY AfterFit
    <3> QED BY <3>1, <3>2, <3>3, QueueGains, CommitName DEF NameChange
  <2>2. CASE RemoveTag(j)
    <3>1. \/ name' = name
          \/ Commit(t, None) /\ job' = [job EXCEPT ![j] = AfterRemove(t)]
      BY <1>4, <2>2 DEF RemoveTag
    <3>2. /\ Has(AfterRemove(t), DelTag(t)) /\ Has(AfterRemove(t), DelTags)
          /\ Has(AfterRemove(t), Members)
      BY AfterRemoveFit
    <3> QED BY <3>1, <3>2, QueueGains, CommitName DEF NameChange
  <2> QED BY <2>1, <2>2 DEF Statement
<1>6. Members.op = "members"
  BY Ops
<1> QED BY <1>1, <1>3, <1>5, <1>6 DEF Quiet, history

LEMMA MembersQuiet ==
  ASSUME JobIInv, NEW j \in Job, TaskMembers(j)
  PROVE  Quiet
<1>1. UNCHANGED <<dbVars, redisVars, history>> /\ job[j] # <<>> /\ Head(job[j]) = Members
  BY MembersContinues
<1>2. PICK s : Continues(j, s)
  BY MembersContinues
<1>3. \A c : Queued(c) => Queued(c)' \/ c = Members
  BY <1>1, <1>2, QueueKept
<1> QED BY <1>1, <1>3, Ops DEF Quiet, dbVars, history

\* The three explanations in terms of Queued.
TagExplained(t) == StaleTag(t) => t \in lateTag \/ Queued(DelTag(t))

TagsExplained == StaleTags => lateTags \/ Queued(DelTags)

TaskExplained(k) ==
  StaleTask(k) =>
    \/ k \in lateTask \cup overlapped \cup asked
    \/ Queued(Members)
    \/ \E s \in SUBSET Task : k \in s /\ Queued(Drop(s))

LEMMA ExplainedInQueue ==
  /\ StaleTagIsExplained <=> \A t \in Tag : TagExplained(t)
  /\ StaleTagsAreExplained <=> TagsExplained
  /\ OldNameIsExplained <=> \A k \in Task : TaskExplained(k)
<1>1. StaleTagIsExplained <=> \A t \in Tag : TagExplained(t)
  BY PendingFacts DEF StaleTagIsExplained, TagExplained
<1>2. StaleTagsAreExplained <=> TagsExplained
  BY PendingFacts DEF StaleTagsAreExplained, TagsExplained
<1>3. OldNameIsExplained <=> \A k \in Task : TaskExplained(k)
  BY PendingFacts DEF OldNameIsExplained, TaskExplained
<1> QED BY <1>1, <1>2, <1>3

LEMMA QuietTag ==
  ASSUME JobIInv, Quiet, NEW t \in Tag, TagExplained(t)
  PROVE  TagExplained(t)'
<1>1. UNCHANGED <<cachedTag, lateTag>> /\ (Queued(DelTag(t)) => Queued(DelTag(t))')
  BY Ops DEF Quiet, redisVars
<1>2. CASE name'[t] = name[t]
  BY <1>1, <1>2 DEF TagExplained, StaleTag, HitTag
<1>3. CASE name'[t] # name[t]
  <2>1. t \notin used \/ Queued(DelTag(t))'
    BY <1>3 DEF Quiet, NameChange
  <2>2. t \notin used => ~HitTag(t)
    BY DEF JobIInv, TagsWereUsed, HitTag
  <2> QED BY <1>1, <2>1, <2>2 DEF TagExplained, StaleTag, HitTag
<1> QED BY <1>2, <1>3

LEMMA QuietTags ==
  ASSUME JobIInv, Quiet, TagsExplained
  PROVE  TagsExplained'
<1>1. cachedTags' = cachedTags /\ (Queued(DelTags) => Queued(DelTags)') /\ (lateTags => lateTags')
  BY Ops DEF Quiet, redisVars
<1>2. name' = name \/ lateTags' \/ cachedTags = None \/ Queued(DelTags)'
  BY DEF Quiet, NameChange
<1> QED BY <1>1, <1>2 DEF TagsExplained, StaleTags

LEMMA QuietTask ==
  ASSUME JobIInv, Quiet, Queued(Members) => Queued(Members)', NEW k \in Task, TaskExplained(k)
  PROVE  TaskExplained(k)'
<1>1. UNCHANGED <<cachedTask, lateTask, overlapped, asked>>
  BY DEF Quiet, redisVars
<1>2. \A s : Queued(Drop(s)) => Queued(Drop(s))'
  BY Ops DEF Quiet
<1>3. NameOf(TaskTag)' = NameOf(TaskTag) \/ Queued(Members)'
  BY TagAssumption DEF Quiet, NameChange, NameOf, JobIInv, TagsWereUsed
<1> QED BY <1>1, <1>2, <1>3 DEF TaskExplained, StaleTask

\* SMEMBERS finds the stale copy, or the copy was stored between the two
\* commands of another invalidation.
LEMMA MembersTask ==
  ASSUME JobIInv, NEW j \in Job, TaskMembers(j), Tasks!UntrackedWasOverlapped,
         NEW k \in Task, TaskExplained(k)
  PROVE  TaskExplained(k)'
<1>1. UNCHANGED <<name, cachedTask, userTasks, lateTask, overlapped, asked>>
  BY MembersContinues DEF dbVars, redisVars, history
<1>2. cachedTask[k] # None => k \in userTasks \/ k \in overlapped
  BY DEF Tasks!UntrackedWasOverlapped
<1>3. ASSUME userTasks # {} PROVE Queued(Drop(userTasks))'
  <2>1. PICK s : job' = [job EXCEPT ![j] = s] /\ Has(s, Drop(userTasks))
    BY <1>3, MembersContinues DEF Continues
  <2>2. PICK c : c = Drop(userTasks)
    OBVIOUS
  <2>3. Queued(c)'
    BY <2>1, <2>2, QueueGains
  <2> QED BY <1>1, <2>2, <2>3
<1>4. userTasks \in SUBSET Task
  BY DEF JobIInv, TypeOK
<1> QED BY <1>1, <1>2, <1>3, <1>4 DEF TaskExplained, StaleTask

\* A Redis command takes at most itself from the queue, and no name changes.
LEMMA RedisQueue ==
  ASSUME JobIInv, NEW j \in Job, Redis(j)
  PROVE  /\ name' = name
         /\ \A c : Queued(c) => Queued(c)' \/ (Has(job[j], c) /\ c = Head(job[j]))
         /\ job[j] # <<>> /\ Head(job[j]) \in Command
<1>1. name' = name /\ job[j] # <<>> /\ Continues(j, Tail(job[j]))
  BY RedisContinues DEF dbVars
<1> QED BY <1>1, QueueKept, HeadFacts

LEMMA RedisTag ==
  ASSUME JobIInv, NEW j \in Job, Redis(j), NEW t \in Tag, TagExplained(t)
  PROVE  TagExplained(t)'
<1>1. name' = name /\ job[j] # <<>> /\ Head(job[j]) \in Command
  BY RedisQueue
<1>2. \/ Queued(DelTag(t)) => Queued(DelTag(t))'
      \/ Has(job[j], DelTag(t)) /\ Head(job[j]) = DelTag(t)
  BY RedisQueue
<1>3. CASE WriteTag(j)
  <2>1. PICK u : u = Head(job[j]).tag
    OBVIOUS
  <2>2. PICK v : v = IF AtOp(j, "delTag") THEN None ELSE Head(job[j]).value
    OBVIOUS
  <2>3. /\ cachedTag' = [cachedTag EXCEPT ![u] = v]
        /\ lateTag' = With(lateTag, u, v \in Name /\ v # name[u])
    BY <1>3, <2>1, <2>2 DEF WriteTag
  <2>4. CASE t = u
    BY <1>1, <2>3, <2>4 DEF With, TagExplained, StaleTag, HitTag, JobIInv, TypeOK
  <2>5. CASE t # u
    <3>1. Queued(DelTag(t)) => Queued(DelTag(t))'
      BY <1>2, <2>1, <2>5, Ops
    <3>2. cachedTag'[t] = cachedTag[t] /\ (t \in lateTag => t \in lateTag')
      BY <2>3, <2>5 DEF With, JobIInv, TypeOK
    <3> QED BY <1>1, <3>1, <3>2 DEF TagExplained, StaleTag, HitTag
  <2> QED BY <2>4, <2>5
<1>4. CASE WriteTags(j) \/ StoreTask(j) \/ TaskDrop(j)
  <2>1. UNCHANGED <<cachedTag, lateTag>> /\ Head(job[j]).op # "delTag"
    BY <1>4 DEF WriteTags, StoreTask, TaskDrop, AtOp
  <2>2. Queued(DelTag(t)) => Queued(DelTag(t))'
    BY <1>2, <2>1, Ops
  <2> QED BY <1>1, <2>1, <2>2 DEF TagExplained, StaleTag, HitTag
<1>5. CASE CommandFails(j)
  <2>1. cachedTag' = cachedTag /\ lateTag \subseteq lateTag'
    BY <1>5 DEF CommandFails, Uncorrected, redisVars
  <2>2. ASSUME StaleTag(t), Has(job[j], DelTag(t)), Head(job[j]) = DelTag(t) PROVE t \in lateTag'
    <3>1. Pending({j}, {DelTag(t)})
      BY <2>2 DEF Has, Pending
    <3>2. AtOp(j, "delTag")
      BY <1>1, <2>2, Ops DEF AtOp
    <3>3. lateTag' = lateTag \cup
            {x \in Tag : StaleTag(x) /\ AtOp(j, "delTag") /\ Pending({j}, {DelTag(x)})}
      BY <1>5 DEF CommandFails, Uncorrected
    <3> QED BY <2>2, <3>1, <3>2, <3>3
  <2> QED BY <1>1, <1>2, <2>1, <2>2 DEF TagExplained, StaleTag, HitTag
<1> QED BY <1>3, <1>4, <1>5 DEF Redis

LEMMA RedisTags ==
  ASSUME JobIInv, NEW j \in Job, Redis(j), TagsExplained
  PROVE  TagsExplained'
<1>1. name' = name /\ job[j] # <<>> /\ Head(job[j]) \in Command
  BY RedisQueue
<1>2. \/ Queued(DelTags) => Queued(DelTags)'
      \/ Has(job[j], DelTags) /\ Head(job[j]) = DelTags
  BY RedisQueue
<1>3. CASE WriteTags(j)
  BY <1>1, <1>3 DEF WriteTags, TagsExplained, StaleTags
<1>4. CASE WriteTag(j) \/ StoreTask(j) \/ TaskDrop(j)
  <2>1. UNCHANGED <<cachedTags, lateTags>> /\ Head(job[j]).op # "delTags"
    BY <1>4 DEF WriteTag, StoreTask, TaskDrop, AtOp
  <2>2. Queued(DelTags) => Queued(DelTags)'
    BY <1>2, <2>1, Ops
  <2> QED BY <1>1, <2>1, <2>2 DEF TagsExplained, StaleTags
<1>5. CASE CommandFails(j)
  <2>1. cachedTags' = cachedTags /\ (lateTags => lateTags')
    BY <1>5 DEF CommandFails, Uncorrected, redisVars
  <2>2. ASSUME StaleTags, Has(job[j], DelTags), Head(job[j]) = DelTags PROVE lateTags'
    <3>1. Pending({j}, {DelTags}) /\ AtOp(j, "delTags")
      BY <1>1, <2>2, PendingFacts, Ops DEF AtOp
    <3> QED BY <1>5, <2>2, <3>1 DEF CommandFails, Uncorrected
  <2> QED BY <1>1, <1>2, <2>1, <2>2 DEF TagsExplained, StaleTags
<1> QED BY <1>3, <1>4, <1>5 DEF Redis

LEMMA RedisTask ==
  ASSUME JobIInv, NEW j \in Job, Redis(j), NEW k \in Task, TaskExplained(k)
  PROVE  TaskExplained(k)'
<1>1. NameOf(TaskTag)' = NameOf(TaskTag) /\ job[j] # <<>> /\ Head(job[j]) \in Command
  BY RedisQueue DEF NameOf
<1>2. \A c : Queued(c) => Queued(c)' \/ c = Head(job[j])
  BY RedisQueue
<1>3. ASSUME Head(job[j]).op \notin {"members", "drop"}
      PROVE  /\ Queued(Members) => Queued(Members)'
             /\ \A s : Queued(Drop(s)) => Queued(Drop(s))'
  BY <1>2, <1>3, Ops
<1>4. CASE WriteTag(j) \/ WriteTags(j)
  <2>1. UNCHANGED <<cachedTask, lateTask, overlapped, asked>> /\ Head(job[j]).op \notin {"members", "drop"}
    BY <1>4 DEF WriteTag, WriteTags, AtOp
  <2> QED BY <1>1, <1>3, <2>1 DEF TaskExplained, StaleTask
<1>5. CASE StoreTask(j)
  <2>1. PICK u : u = Head(job[j]).task
    OBVIOUS
  <2>2. PICK v : v = Head(job[j]).value
    OBVIOUS
  <2>3. /\ cachedTask' = [cachedTask EXCEPT ![u] = v]
        /\ lateTask' = With(lateTask, u, v # NameOf(TaskTag) /\ v # Blank)
        /\ asked' = With(asked, u, v # NameOf(TaskTag) /\ v = Blank)
        /\ overlapped' = With(overlapped, u, Overtaken(u))
        /\ Head(job[j]).op \notin {"members", "drop"}
    BY <1>5, <2>1, <2>2 DEF StoreTask, AtOp
  <2>4. CASE k = u
    BY <1>1, <2>3, <2>4 DEF With, TaskExplained, StaleTask, JobIInv, TypeOK
  <2>5. CASE k # u
    <3>1. /\ cachedTask'[k] = cachedTask[k]
          /\ k \in lateTask \cup overlapped \cup asked => k \in lateTask' \cup overlapped' \cup asked'
      BY <2>3, <2>5 DEF With, JobIInv, TypeOK
    <3> QED BY <1>1, <1>3, <2>3, <3>1 DEF TaskExplained, StaleTask
  <2> QED BY <2>4, <2>5
\* The keys that were found are deleted; those that were not have another
\* explanation.
<1>6. CASE TaskDrop(j)
  <2>1. PICK keys : keys = Head(job[j]).keys
    OBVIOUS
  <2>2. /\ cachedTask' = [x \in Task |-> IF x \in keys THEN None ELSE cachedTask[x]]
        /\ lateTask' = lateTask \ keys /\ asked' = asked \ keys /\ overlapped' = overlapped
        /\ Head(job[j]).op = "drop"
    BY <1>6, <2>1 DEF TaskDrop, AtOp
  <2>3. CASE k \in keys
    BY <2>2, <2>3 DEF TaskExplained, StaleTask
  <2>4. CASE k \notin keys
    <3>1. Queued(Members) => Queued(Members)'
      BY <1>2, <2>2, Ops
    <3>2. \A s : k \in s /\ Queued(Drop(s)) => Queued(Drop(s))'
      BY <1>2, <2>1, <2>4, Ops
    <3> QED BY <1>1, <2>2, <2>4, <3>1, <3>2 DEF TaskExplained, StaleTask
  <2> QED BY <2>3, <2>4
<1>7. CASE CommandFails(j)
  <2>1. UNCHANGED <<cachedTask, overlapped, asked>> /\ lateTask \subseteq lateTask'
    BY <1>7 DEF CommandFails, Uncorrected, redisVars
  <2>2. CASE Head(job[j]).op \notin {"members", "drop"}
    <3> QED BY <1>1, <1>3, <2>1, <2>2 DEF TaskExplained, StaleTask
  <2>3. CASE Head(job[j]).op \in {"members", "drop"}
    <3>1. Head(job[j]) \in {Members} \cup {Drop(s) : s \in SUBSET Task}
      BY <1>1, <2>3, CommandFacts
    <3>2. 1 \in DOMAIN job[j] /\ job[j][1] = Head(job[j])
      BY <1>1, HeadTail DEF JobIInv, TypeOK
    <3>3. Pending({j}, {Members} \cup {Drop(s) : s \in SUBSET Task})
      BY <3>1, <3>2 DEF Pending
    <3>4. StaleTask(k) => k \in lateTask'
      BY <1>1, <1>7, <2>3, <3>3 DEF CommandFails, Uncorrected, AtOp
    <3> QED BY <1>1, <2>1, <3>4 DEF TaskExplained, StaleTask
  <2> QED BY <2>2, <2>3
<1> QED BY <1>4, <1>5, <1>6, <1>7 DEF Redis

\* Time and crashes: a copy is gone, or what was to correct it is recorded as lost.
LEMMA OtherExplained ==
  ASSUME JobIInv, Expiry \/ Uncached \/ Crash \/ UNCHANGED vars
  PROVE  /\ \A t \in Tag : TagExplained(t) => TagExplained(t)'
         /\ TagsExplained => TagsExplained'
         /\ \A k \in Task : TaskExplained(k) => TaskExplained(k)'
<1>1. CASE Crash
  <2>1. UNCHANGED <<name, cachedTag, cachedTags, cachedTask, overlapped, asked>>
    BY <1>1 DEF Crash, dbVars, redisVars
  <2>2. NameOf(TaskTag)' = NameOf(TaskTag)
    BY <2>1 DEF NameOf
  <2>3. \A t \in Tag : t \in lateTag \/ (StaleTag(t) /\ Queued(DelTag(t))) => t \in lateTag'
    BY <1>1, PendingFacts DEF Crash, Uncorrected
  <2>4. lateTags \/ (StaleTags /\ Queued(DelTags)) => lateTags'
    BY <1>1, PendingFacts DEF Crash, Uncorrected
  <2>5. ASSUME NEW k \in Task, StaleTask(k),
               k \in lateTask \/ Queued(Members) \/ \E s \in SUBSET Task : k \in s /\ Queued(Drop(s))
        PROVE  k \in lateTask'
    <3>1. k \in lateTask \/ Pending(Job, {Members} \cup {Drop(s) : s \in SUBSET Task})
      BY <2>5 DEF Queued, Has, Pending
    <3> QED BY <1>1, <2>5, <3>1 DEF Crash, Uncorrected
  <2> QED BY <2>1, <2>2, <2>3, <2>4, <2>5
      DEF TagExplained, StaleTag, HitTag, TagsExplained, StaleTags, TaskExplained, StaleTask
<1>2. CASE Expiry \/ Uncached \/ UNCHANGED vars
  <2>1. UNCHANGED <<name, overlapped, job>>
    BY <1>2 DEF Expiry, ExpireTag, ExpireTags, ExpireTask, Uncached, CreateUncached, vars, dbVars, history
  <2>2. NameOf(TaskTag)' = NameOf(TaskTag) /\ \A c : Queued(c)' <=> Queued(c)
    BY <2>1 DEF NameOf, Queued
  <2>3. \A t \in Tag : \/ cachedTag'[t] = None
                       \/ cachedTag'[t] = cachedTag[t] /\ (t \in lateTag => t \in lateTag')
    BY <1>2
    DEF Expiry, ExpireTag, ExpireTags, ExpireTask, Uncached, CreateUncached, vars, redisVars, history,
        JobIInv, TypeOK
  <2>4. cachedTags' = None \/ (cachedTags' = cachedTags /\ (lateTags => lateTags'))
    BY <1>2
    DEF Expiry, ExpireTag, ExpireTags, ExpireTask, Uncached, CreateUncached, vars, redisVars, history
  <2>5. \A k \in Task : \/ cachedTask'[k] = None
                        \/ /\ cachedTask'[k] = cachedTask[k]
                           /\ k \in lateTask \cup asked => k \in lateTask' \cup asked'
    BY <1>2
    DEF Expiry, ExpireTag, ExpireTags, ExpireTask, Uncached, CreateUncached, vars, redisVars, history,
        JobIInv, TypeOK
  <2>6. \A t \in Tag : TagExplained(t) => TagExplained(t)'
    BY <2>1, <2>2, <2>3, TagAssumption DEF TagExplained, StaleTag, HitTag
  <2>7. TagsExplained => TagsExplained'
    BY <2>1, <2>2, <2>4 DEF TagsExplained, StaleTags
  <2>8. \A k \in Task : TaskExplained(k) => TaskExplained(k)'
    BY <2>1, <2>2, <2>5 DEF TaskExplained, StaleTask
  <2> QED BY <2>6, <2>7, <2>8
<1> QED BY <1>1, <1>2

-----------------------------------------------------------------------------

\* The theorems about TrackedCache, of user_tasks.
Promise == INSTANCE TrackedCacheProofs WITH
  Key <- Task,
  Invalidator <- Job,
  stored <- {k \in Task : cachedTask[k] # None},
  tracked <- userTasks,
  found <- [j \in Job |-> IF AtOp(j, "drop") THEN Head(job[j]).keys ELSE None]

LEMMA PromiseKept ==
  ASSUME Tasks!IInv, [Tasks!Next]_(Tasks!vars)
  PROVE  Tasks!IInv'
<1>1. Promise!IInv <=> Tasks!IInv
  BY DEF Promise!IInv, Promise!TypeOK, Promise!UntrackedWasOverlapped, Promise!FoundTheRest,
         Tasks!IInv, Tasks!TypeOK, Tasks!UntrackedWasOverlapped, Tasks!FoundTheRest
<1>2. Promise!Next <=> Tasks!Next
  BY DEF Promise!Next, Promise!Store, Promise!Overtakes, Promise!Forget, Promise!ExpireSet,
         Promise!Members, Promise!Drop, Promise!Abandon,
         Tasks!Next, Tasks!Store, Tasks!Overtakes, Tasks!Forget, Tasks!ExpireSet,
         Tasks!Members, Tasks!Drop, Tasks!Abandon
<1>3. Promise!vars = Tasks!vars /\ Promise!vars' = Tasks!vars'
  BY DEF Promise!vars, Tasks!vars
<1>4. Promise!IInv'
  BY <1>1, <1>2, <1>3, Promise!StepPreserves
<1> QED
  BY <1>4
  DEF Promise!IInv, Promise!TypeOK, Promise!UntrackedWasOverlapped, Promise!FoundTheRest,
      Tasks!IInv, Tasks!TypeOK, Tasks!UntrackedWasOverlapped, Tasks!FoundTheRest

TagIInv ==
  /\ JobIInv
  /\ Tasks!IInv
  /\ \A t \in Tag : TagExplained(t)
  /\ TagsExplained
  /\ \A k \in Task : TaskExplained(k)

LEMMA InitTagIInv == Init => TagIInv
<1> SUFFICES ASSUME Init PROVE TagIInv
  OBVIOUS
<1>1. Tasks!IInv
  BY DEF Init, AtOp, Tasks!IInv, Tasks!TypeOK, Tasks!UntrackedWasOverlapped, Tasks!FoundTheRest
<1>2. /\ \A t \in Tag : TagExplained(t)
      /\ TagsExplained
      /\ \A k \in Task : TaskExplained(k)
  BY TagAssumption DEF Init, TagExplained, StaleTag, HitTag, TagsExplained, StaleTags, TaskExplained, StaleTask
<1> QED BY <1>1, <1>2, InitJobIInv DEF TagIInv

\* A step keeps the explanations, whichever kind of step it is.
LEMMA StepExplained ==
  ASSUME TagIInv, [Next]_vars
  PROVE  /\ \A t \in Tag : TagExplained(t)'
         /\ TagsExplained'
         /\ \A k \in Task : TaskExplained(k)'
<1>0. /\ JobIInv /\ Tasks!UntrackedWasOverlapped /\ TagsExplained
      /\ \A t \in Tag : TagExplained(t)
      /\ \A k \in Task : TaskExplained(k)
  BY DEF TagIInv, Tasks!IInv
<1>1. ASSUME Quiet, Queued(Members) => Queued(Members)'
      PROVE  /\ \A t \in Tag : TagExplained(t)'
             /\ TagsExplained'
             /\ \A k \in Task : TaskExplained(k)'
  BY <1>0, <1>1, QuietTag, QuietTags, QuietTask
<1>2. ASSUME NEW j \in Job, TaskMembers(j)
      PROVE  /\ \A t \in Tag : TagExplained(t)'
             /\ TagsExplained'
             /\ \A k \in Task : TaskExplained(k)'
  BY <1>0, <1>2, MembersQuiet, QuietTag, QuietTags, MembersTask
<1>3. ASSUME NEW j \in Job, Redis(j)
      PROVE  /\ \A t \in Tag : TagExplained(t)'
             /\ TagsExplained'
             /\ \A k \in Task : TaskExplained(k)'
  BY <1>0, <1>3, RedisTag, RedisTags, RedisTask
<1>4. ASSUME Expiry \/ Uncached \/ Crash \/ UNCHANGED vars
      PROVE  /\ \A t \in Tag : TagExplained(t)'
             /\ TagsExplained'
             /\ \A k \in Task : TaskExplained(k)'
  BY <1>0, <1>4, OtherExplained
<1>5. ASSUME NEW j \in Job, Handler(j) \/ Statement(j)
      PROVE  Quiet /\ (Queued(Members) => Queued(Members)')
  BY <1>0, <1>5, HandlerQuiet, StatementQuiet
<1>6. ASSUME NEW t \in Tag, NEW n \in Name, TagFromTask(t, n)
      PROVE  Quiet /\ (Queued(Members) => Queued(Members)')
  BY <1>0, <1>6, FromTaskQuiet
<1> QED BY <1>1, <1>2, <1>3, <1>4, <1>5, <1>6, NextKinds

\* The order of commands, the promise of TrackedCache and the three
\* explanations hold in every reachable state, crashes and failures of Redis
\* included.
THEOREM TagInvariant == Spec => []TagIInv
<1>1. ASSUME TagIInv, [Next]_vars PROVE TagIInv'
  <2>1. JobIInv'
    BY <1>1, JobStep DEF TagIInv
  <2>2. Tasks!IInv'
    BY <1>1, StepTracked, PromiseKept DEF TagIInv
  <2> QED BY <1>1, <2>1, <2>2, StepExplained DEF TagIInv
<1> QED BY InitTagIInv, <1>1, PTL DEF Spec

\* tags/handlers/handler.go:130-327: a tag is found in Redis with an old name
\* only if the DEL of the goroutine that follows the change is on its way or was
\* lost, or a copy was written late.
THEOREM TagsCorrected == Spec => []StaleTagIsExplained
<1>1. TagIInv => StaleTagIsExplained
  BY ExplainedInQueue DEF TagIInv
<1> QED BY TagInvariant, <1>1, PTL

\* The same of the list of tags, where a tag that comes with a task
\* (tasks/repository/postgres/postgres.go) corrects nothing.
THEOREM TagListsCorrected == Spec => []StaleTagsAreExplained
<1>1. TagIInv => StaleTagsAreExplained
  BY ExplainedInQueue DEF TagIInv
<1> QED BY TagInvariant, <1>1, PTL

\* tags/handlers/handler.go:319: the card of a task shows the old name of its
\* tag only if InvalidateUserTaskCaches is on its way or was lost, or the copy
\* was written late or between the two commands of an invalidation, or is the
\* request that created the task with a tag_id alone.
THEOREM CardsCorrected == Spec => []OldNameIsExplained
<1>1. TagIInv => OldNameIsExplained
  BY ExplainedInQueue DEF TagIInv
<1> QED BY TagInvariant, <1>1, PTL
=============================================================================
