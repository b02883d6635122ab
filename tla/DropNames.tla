------------------------------ MODULE DropNames ------------------------------
(***************************************************************************)
(* The node table of the drop file system: node ids the kernel holds, the   *)
(* paths inside one drop they stand for, and requests that several workers  *)
(* serve at once.  A request copies the paths it needs under the lock, asks *)
(* the host without it, and then updates the table.  (np_drop_fs.c)         *)
(*                                                                         *)
(* The kernel keeps its directory locks for the length of a request: shared *)
(* for a lookup, exclusive for a change of a directory and for its victim.  *)
(* A path is a sequence of names; <<>> is the drop's own directory.         *)
(***************************************************************************)
EXTENDS Integers, Sequences, FiniteSets, Functions, SequencesExt

CONSTANTS
  Workers,     \* requests served at once
  Names,
  Dirs, Files, \* objects of the host
  Tree,        \* the host's files at first: from paths to objects
  PathMax,     \* names in a path (NP_DROP_PATH_MAX)
  MaxIds,      \* bound: node ids handed out
  MaxLookups,  \* bound: lookups the kernel holds
  MacReplaces  \* whether Mac programs replace files

Top == 1       \* the drop's own directory; the root of the mount is not modelled
Objects == Dirs \cup Files
Paths == UNION {[1 .. n -> Names] : n \in 1 .. PathMax + 1}
Ids == Top .. Top + MaxIds

VARIABLES
  host,    \* the files of the host: from paths to objects
  unborn,  \* objects not created yet
  nodes,   \* the node table
  next,    \* next_id
  known,   \* lookups of each id the kernel holds
  owed,    \* forgets the kernel has queued for ids it refused
  of,      \* the object the kernel took each id for
  req,     \* the request of each worker
  astray   \* history: ids made of an answer that a rename has outrun

vars == <<host, unborn, nodes, next, known, owed, of, req, astray>>

Idle == [op |-> "idle", phase |-> "free", from |-> <<>>, to |-> <<>>, expect |-> 0, got |-> {}, id |-> 0,
         shared |-> {}, excl |-> {}, outrun |-> FALSE]

Init ==
  /\ host = Tree /\ unborn = Objects \ Range(Tree)
  /\ nodes = <<>> /\ next = Top + 1
  /\ known = [i \in Ids |-> 0] /\ owed = [i \in Ids |-> 0] /\ of = [i \in Ids |-> {}]
  /\ req = [w \in Workers |-> Idle] /\ astray = {}

KindOf(o) == IF o \in Dirs THEN "directory" ELSE "file"

\* under
Under(p, q) == IsPrefix(q, p)

\* read_node and directory_node: the path of a directory that is not dead.
DirectoryPath(i) ==
  IF i = Top THEN {<<>>}
  ELSE {nodes[i].path : j \in {k \in DOMAIN nodes \cap {i} : ~nodes[k].dead /\ nodes[k].kind = "directory"}}

Fits(path) == Len(path) <= PathMax

\* child_path and join
ChildPaths(i, n) == {Append(p, n) : p \in {q \in DirectoryPath(i) : Fits(Append(q, n))}}

Live(p) == {i \in DOMAIN nodes : ~nodes[i].dead /\ nodes[i].path = p}

---------------------------------------------------------------------------
\* The kernel's side.

Active == {w \in Workers : req[w] # Idle}
Admitted(w, r) == \A v \in Active :
  /\ r.excl \cap (req[v].excl \cup req[v].shared) = {} /\ r.shared \cap req[v].excl = {}
  /\ ~(r.op = "lookup" /\ req[v].op = "lookup" /\ r.from = req[v].from /\ r.shared = req[v].shared)
Held == {i \in Ids : known[i] > 0} \cup {Top}
Victims(p) == {i \in Live(p) : known[i] > 0}

\* Bound: lookups the kernel holds.
Start(w, r) ==
  /\ req[w] = Idle /\ Admitted(w, r)
  /\ FoldFunction(+, 0, known) + FoldFunction(+, 0, owed) < MaxLookups
  /\ req' = [req EXCEPT ![w] = r]
  /\ UNCHANGED <<host, unborn, nodes, next, known, owed, of, astray>>

Lookup(w, d, n) == \E p \in ChildPaths(d, n) :
  Start(w, [Idle EXCEPT !.op = "lookup", !.phase = "sent", !.from = p, !.shared = {d}])

\* A dentry the kernel has is looked up again without its directory's lock.
Revalidate(w, d, n, i) == \E p \in ChildPaths(d, n) :
  /\ i # Top /\ Start(w, [Idle EXCEPT !.op = "revalidate", !.phase = "sent", !.from = p, !.expect = i])

Create(w, d, n) == \E p \in ChildPaths(d, n) :
  Start(w, [Idle EXCEPT !.op = "create", !.phase = "sent", !.from = p, !.excl = {d}])

Unlink(w, d, n) == \E p \in ChildPaths(d, n) :
  Start(w, [Idle EXCEPT !.op = "remove", !.phase = "sent", !.from = p, !.excl = {d} \cup Victims(p)])

\* do_rename refuses a directory that would move below itself.
Rename(w, d, n, e, m) == \E p \in ChildPaths(d, n), q \in ChildPaths(e, m) :
  /\ p # q /\ ~Under(q, p)
  /\ Start(w, [Idle EXCEPT !.op = "rename", !.phase = "sent", !.from = p, !.to = q,
                           !.excl = {d, e} \cup Victims(q)])

\* forget: the kernel gives up all it holds of an id no request uses, or one
\* lookup it never accepted.
Forgotten(i, count) ==
  IF count >= nodes[i].lookups THEN [j \in DOMAIN nodes \ {i} |-> nodes[j]]
  ELSE [nodes EXCEPT ![i].lookups = @ - count]
Forget(i) ==
  /\ known[i] > 0 /\ \A w \in Active : i \notin req[w].excl \cup req[w].shared \cup {req[w].expect}
  /\ nodes' = Forgotten(i, known[i]) /\ known' = [known EXCEPT ![i] = 0]
  /\ of' = [of EXCEPT ![i] = {}] /\ UNCHANGED <<host, unborn, next, owed, req, astray>>
ForgetRefused(i) ==
  /\ owed[i] > 0 /\ nodes' = Forgotten(i, 1) /\ owed' = [owed EXCEPT ![i] = @ - 1]
  /\ UNCHANGED <<host, unborn, next, known, of, req, astray>>

---------------------------------------------------------------------------
\* The host answers.

Exists(p) == p \in DOMAIN host
Parent(p) == Front(p) = <<>> \/ (Exists(Front(p)) /\ host[Front(p)] \in Dirs)
Below(p) == {q \in DOMAIN host : Under(q, p)}
Without(p) == [q \in DOMAIN host \ Below(p) |-> host[q]]
Shifted(p, from, to) == to \o SubSeq(p, Len(from) + 1, Len(p))
Without2(from, to) == [q \in (DOMAIN host \ Below(from)) \ Below(to) |-> host[q]]
Moved(from, to) ==
  LET kept == Without2(from, to)
      here == {Shifted(q, from, to) : q \in Below(from)}
  IN  [q \in DOMAIN kept \cup here |-> IF q \in here THEN host[Shifted(q, to, from)] ELSE kept[q]]
MayReplace(from, to) ==
  ~Exists(to) \/ (Below(to) = {to} /\ (host[from] \in Dirs) = (host[to] \in Dirs))

Fails(w) == req' = [req EXCEPT ![w] = Idle] /\ UNCHANGED <<host, unborn>>
Answers(w, o) == req' = [req EXCEPT ![w].phase = "answered", ![w].got = o]

HostAnswers(w) ==
  LET r == req[w] IN
  /\ r.phase = "sent"
  /\ \/ /\ r.op \in {"lookup", "revalidate"}
        /\ IF Exists(r.from) THEN Answers(w, {host[r.from]}) /\ UNCHANGED <<host, unborn>> ELSE Fails(w)
     \/ /\ r.op = "create"
        /\ \/ ~Exists(r.from) /\ Parent(r.from)
              /\ \E o \in unborn : /\ host' = [q \in DOMAIN host \cup {r.from} |-> IF q = r.from THEN o ELSE host[q]]
                                   /\ unborn' = unborn \ {o} /\ Answers(w, {o})
           \/ (Exists(r.from) \/ ~Parent(r.from)) /\ Fails(w)
     \/ /\ r.op = "remove"
        /\ IF Exists(r.from) /\ Below(r.from) = {r.from}
           THEN host' = Without(r.from) /\ Answers(w, {}) /\ UNCHANGED unborn ELSE Fails(w)
     \/ /\ r.op = "rename"
        /\ IF Exists(r.from) /\ Parent(r.to) /\ MayReplace(r.from, r.to)
           THEN host' = Moved(r.from, r.to) /\ Answers(w, {}) /\ UNCHANGED unborn ELSE Fails(w)
  /\ UNCHANGED <<nodes, next, known, owed, of, astray>>

\* A Mac program replaces what is at a path.
Replace(p) ==
  /\ MacReplaces /\ Exists(p) /\ Below(p) = {p}
  /\ \E o \in unborn : host' = [host EXCEPT ![p] = o] /\ unborn' = (unborn \ {o}) \cup {host[p]}
  /\ UNCHANGED <<nodes, next, known, owed, of, req, astray>>

---------------------------------------------------------------------------
\* The guest updates its table.

\* Mutant of Reused: a node of another kind is taken for the new object.
ReusedAnyKind(p, kind) == Live(p)

Reused(p, kind) == {i \in Live(p) : nodes[i].kind = kind}

\* Mutant of Counted: only a new node counts its lookup.
CountedOnce(n) == n

Counted(n) == [n EXCEPT !.lookups = @ + 1]

Replaced(p, old) == Live(p) \ old

\* remember
Remembered(w) ==
  LET r == req[w]
      kind == KindOf(CHOOSE o \in r.got : TRUE)
      old == Reused(r.from, kind)
      buried == [i \in DOMAIN nodes |-> IF i \in Replaced(r.from, old) THEN [nodes[i] EXCEPT !.dead = TRUE] ELSE nodes[i]]
  IN  /\ r.phase = "answered" /\ r.op \in {"lookup", "revalidate", "create"}
      /\ \/ \E i \in old :
              /\ nodes' = [nodes EXCEPT ![i] = Counted(@)]
              /\ req' = [req EXCEPT ![w].phase = "remembered", ![w].id = i] /\ UNCHANGED next
         \/ /\ old = {} /\ next <= Top + MaxIds /\ next' = next + 1
            /\ nodes' = [i \in DOMAIN nodes \cup {next} |->
                           IF i = next THEN [path |-> r.from, kind |-> kind, dead |-> FALSE, lookups |-> 1] ELSE buried[i]]
            /\ req' = [req EXCEPT ![w].phase = "remembered", ![w].id = next]
      /\ astray' = IF r.outrun THEN astray \cup {req'[w].id} ELSE astray
      /\ UNCHANGED <<host, unborn, known, owed, of>>

\* reply_entry: the kernel takes the id, or queues a forget when the dentry
\* it has stands for another one.
Reply(w) ==
  LET r == req[w]
      i == r.id
  IN  /\ r.phase = "remembered" /\ req' = [req EXCEPT ![w] = Idle]
      /\ IF r.op = "revalidate" /\ r.expect # i
         THEN owed' = [owed EXCEPT ![i] = @ + 1] /\ UNCHANGED <<known, of>>
         ELSE /\ known' = [known EXCEPT ![i] = @ + 1] /\ UNCHANGED owed
              /\ of' = [of EXCEPT ![i] = IF known[i] = 0 THEN r.got ELSE @]
      /\ UNCHANGED <<host, unborn, nodes, next, astray>>

\* Mutants: nothing dies, or only the node itself moves.
BuriedNone(p, n) == FALSE
FollowsOnly(p, n) == n.path = p

Buried(p, n) == Under(n.path, p)
Follows(p, n) == Under(n.path, p)

\* bury
AfterBury(p) == [i \in DOMAIN nodes |->
  IF ~nodes[i].dead /\ Buried(p, nodes[i]) THEN [nodes[i] EXCEPT !.dead = TRUE] ELSE nodes[i]]

\* moved: a path that grew too long is given up.
AfterMove(table, from, to) == [i \in DOMAIN table |->
  IF table[i].dead \/ ~Follows(from, table[i]) THEN table[i]
  ELSE LET path == Shifted(table[i].path, from, to) IN
       IF Fits(path) THEN [table[i] EXCEPT !.path = path] ELSE [table[i] EXCEPT !.dead = TRUE]]

\* do_remove and do_rename after the host's answer.  A rename moves the nodes of
\* the table, not the path of an answer another worker is about to remember.
Outrun(v, from) == req[v].phase = "answered" /\ req[v].op \in {"lookup", "create"} /\ Under(req[v].from, from)
Settled(w) ==
  LET r == req[w] IN
  /\ r.phase = "answered"
  /\ \/ r.op = "remove" /\ nodes' = AfterBury(r.from) /\ req' = [req EXCEPT ![w] = Idle]
     \/ /\ r.op = "rename" /\ nodes' = AfterMove(AfterBury(r.to), r.from, r.to)
        /\ req' = [v \in Workers |-> IF v = w THEN Idle
                                     ELSE IF Outrun(v, r.from) THEN [req[v] EXCEPT !.outrun = TRUE] ELSE req[v]]
  /\ UNCHANGED <<host, unborn, next, known, owed, of, astray>>

---------------------------------------------------------------------------
Kernel(w) ==
  \/ \E d \in Held, n \in Names : Lookup(w, d, n) \/ Create(w, d, n) \/ Unlink(w, d, n)
  \/ \E d \in Held, n \in Names, i \in Held : Revalidate(w, d, n, i)
  \/ \E d, e \in Held, n, m \in Names : Rename(w, d, n, e, m)
Next ==
  \/ \E w \in Workers : Kernel(w) \/ HostAnswers(w) \/ Remembered(w) \/ Reply(w) \/ Settled(w)
  \/ (\E i \in Ids : Forget(i) \/ ForgetRefused(i)) \/ (\E p \in DOMAIN host : Replace(p))
Spec == Init /\ [][Next]_vars

---------------------------------------------------------------------------
\* Properties.

TypeOK ==
  /\ DOMAIN nodes \subseteq 2 .. next - 1 /\ unborn \cap Range(host) = {}
  /\ \A i \in DOMAIN nodes : nodes[i].path \in Paths /\ Len(nodes[i].path) <= PathMax

\* No path has two nodes a lookup could reach: an id the kernel holds is the
\* one later lookups of its path give it again.
OneNodePerPath == \A i, j \in DOMAIN nodes :
  ~nodes[i].dead /\ ~nodes[j].dead /\ nodes[i].path = nodes[j].path => i = j

\* What the kernel holds, refused or is about to be told of an id is exactly
\* what the table counts: no node is freed under the kernel and none leaks.
LookupsCounted == \A i \in Ids :
  (IF i \in DOMAIN nodes THEN nodes[i].lookups ELSE 0)
    = known[i] + owed[i] + Cardinality({w \in Workers : req[w].phase = "remembered" /\ req[w].id = i})

\* "The same path may now be another kind of object": the kernel is never told
\* another kind for an id it holds.
IdKeepsKind == \A w \in Workers :
  req[w].phase = "remembered" /\ known[req[w].id] > 0 =>
    \A o \in req[w].got, k \in of[req[w].id] : KindOf(o) = KindOf(k)

\* "The kernel keeps a moved inode's ID; it and its descendants answer to the
\* new path": once no change is half done, every live node the kernel holds
\* names the object the kernel took it for, except for a node made of an answer
\* that the rename of a directory above it has outrun.
AnswersToItsPath ==
  (\A w \in Workers : req[w].phase = "answered" => req[w].op \in {"lookup", "revalidate", "create"})
    => \A i \in DOMAIN nodes \ astray : known[i] > 0 /\ ~nodes[i].dead =>
         nodes[i].path \in DOMAIN host /\ of[i] = {host[nodes[i].path]}

=============================================================================
