---------------------------- MODULE CatalogProofs ----------------------------
(***************************************************************************)
(* A publish against a catalog others write to, for every catalog, every set  *)
(* of requests and every way they interleave.                                *)
(*                                                                          *)
(* CommittedIsListed: the list of writes is related to what the server took  *)
(* while the publish is under way (ListInv): between two writes the          *)
(* committed paths are exactly the ones marked, and while a write is out the *)
(* last entry of the list is that write, not marked yet.                     *)
(*                                                                          *)
(* DeploymentKept: what the index says of a variant, what a publish is going *)
(* to write and what a pull request replaces are of the deployment the       *)
(* server has (Kept, in CatInv), which rests on what the export computes:    *)
(* every derived id that another deployment holds is renamed to one nobody   *)
(* has (PassNames, LineageIs), so that a file either is new or follows the   *)
(* version of the same deployment (Succeeds, BuildForms).                    *)
(*                                                                          *)
(* RefusedForCause: while nobody else writes, the files not yet written are  *)
(* later than what the branch has, those written are there, and the etags    *)
(* are the branch's (Ready, in AloneInv).                                    *)
(***************************************************************************)
EXTENDS Catalog, TLAPS, SequenceTheorems, FiniteSetTheorems, WellFoundedInduction

Fields == {"pc", "body", "mode", "export", "i", "model_etag", "etag", "added", "writes",
           "committed", "answer", "unread"}

\* A list of writes: every entry has a path and a status.
IsList(w) == /\ \E S : w \in Seq(S)
             /\ \A i \in DOMAIN w : DOMAIN w[i] = {"path", "status"}

Paths(w) == {w[i].path : i \in DOMAIN w}
MarkedPaths(w) == {w[i].path : i \in {j \in DOMAIN w : w[j].status = "ok"}}

\* The last write of the list is out: path was sent, its answer is not in.
Out(w, path) == /\ Len(w) \in DOMAIN w
                /\ w[Len(w)].path = path
                /\ w[Len(w)].status = ""

\* What the list says of the paths the server took.
Tells(r) ==
  /\ r.mode \in {"dry", "real"}
  /\ r.mode = "dry" => r.committed = {}
  /\ r.mode = "real" /\ r.pc # "done" => r.committed = MarkedPaths(r.writes)
  /\ r.mode = "real" /\ r.pc = "done" => /\ r.committed \subseteq Paths(r.writes)
                                         /\ MarkedPaths(r.writes) \subseteq r.committed

\* The write under way is the one the program counter names.
UnderWay(r) ==
  /\ r.pc = "post_model" => Out(r.writes, <<"model">>)
  /\ r.pc = "put_variant" => Out(r.writes, r.export.files[r.i].id)

ReqOK(r) == /\ DOMAIN r = Fields
            /\ IsList(r.writes)
            /\ Tells(r)
            /\ UnderWay(r)

\* The inductive invariant.
ListInv == /\ DOMAIN req = Requests
           /\ \A p \in Requests : ReqOK(req[p])

-----------------------------------------------------------------------------
(* Lists of writes. *)

LEMMA EmptyList == IsList(<<>>) /\ Paths(<<>>) = {} /\ MarkedPaths(<<>>) = {}
<1>1. <<>> \in Seq({}) /\ DOMAIN <<>> = {}
  OBVIOUS
<1> QED BY <1>1, Zenon DEF IsList, Paths, MarkedPaths

LEMMA PathsIn ==
  ASSUME NEW w, NEW q
  PROVE  /\ q \in Paths(w) <=> \E i \in DOMAIN w : w[i].path = q
         /\ q \in MarkedPaths(w) <=> \E i \in DOMAIN w : w[i].status = "ok" /\ w[i].path = q
BY Zenon DEF Paths, MarkedPaths

LEMMA WiderList ==
  ASSUME NEW S, NEW w \in Seq(S), NEW e
  PROVE  w \in Seq(S \union {e}) /\ Len(w) \in Nat /\ DOMAIN w = 1..Len(w)
<1>1. Len(w) \in Nat /\ w \in [1..Len(w) -> S] /\ DOMAIN w = 1..Len(w)
  BY LenProperties
<1>2. w \in [1..Len(w) -> S \union {e}]
  BY <1>1
<1> QED BY <1>1, <1>2, IsASeq

LEMMA StatusSet ==
  ASSUME NEW e, DOMAIN e = {"path", "status"}, NEW st
  PROVE  LET x == [e EXCEPT !.status = st] IN
         DOMAIN x = {"path", "status"} /\ x.path = e.path /\ x.status = st
OBVIOUS

LEMMA OneMore ==
  ASSUME NEW w, NEW v, NEW n,
         DOMAIN v = DOMAIN w \union {n}, n \notin DOMAIN w,
         \A i \in DOMAIN w : v[i] = w[i], v[n].status # "ok"
  PROVE  Paths(v) = Paths(w) \union {v[n].path} /\ MarkedPaths(v) = MarkedPaths(w)
<1>1. \A q : q \in Paths(v) <=> q \in Paths(w) \/ q = v[n].path
  <2> SUFFICES ASSUME NEW q PROVE q \in Paths(v) <=> q \in Paths(w) \/ q = v[n].path
    OBVIOUS
  <2>1. (\E i \in DOMAIN v : v[i].path = q) <=> (\E i \in DOMAIN w : w[i].path = q) \/ q = v[n].path
    BY SMT
  <2>2. q \in Paths(v) <=> (\E i \in DOMAIN v : v[i].path = q)
    BY Zenon DEF Paths, MarkedPaths
  <2>3. q \in Paths(w) <=> (\E i \in DOMAIN w : w[i].path = q)
    BY Zenon DEF Paths, MarkedPaths
  <2> QED BY <2>1, <2>2, <2>3, Zenon
<1>2. \A q : q \in MarkedPaths(v) <=> q \in MarkedPaths(w)
  <2> SUFFICES ASSUME NEW q PROVE q \in MarkedPaths(v) <=> q \in MarkedPaths(w)
    OBVIOUS
  <2>1. (\E i \in DOMAIN v : v[i].status = "ok" /\ v[i].path = q)
          <=> (\E i \in DOMAIN w : w[i].status = "ok" /\ w[i].path = q)
    BY SMT
  <2>2. q \in MarkedPaths(v) <=> (\E i \in DOMAIN v : v[i].status = "ok" /\ v[i].path = q)
    BY Zenon DEF Paths, MarkedPaths
  <2>3. q \in MarkedPaths(w) <=> (\E i \in DOMAIN w : w[i].status = "ok" /\ w[i].path = q)
    BY Zenon DEF Paths, MarkedPaths
  <2> QED BY <2>1, <2>2, <2>3, Zenon
<1>3. MarkedPaths(v) = MarkedPaths(w)
  BY <1>2, Zenon DEF MarkedPaths
<1> QED BY <1>1, <1>3, SMT

LEMMA OneOther ==
  ASSUME NEW w, NEW v, NEW n \in DOMAIN w,
         DOMAIN v = DOMAIN w, \A i \in DOMAIN w : i # n => v[i] = w[i],
         v[n].path = w[n].path, w[n].status # "ok"
  PROVE  /\ Paths(v) = Paths(w)
         /\ w[n].path \in Paths(w)
         /\ v[n].status = "ok" => MarkedPaths(v) = MarkedPaths(w) \union {w[n].path}
         /\ v[n].status # "ok" => MarkedPaths(v) = MarkedPaths(w)
<1>1. \A q : q \in Paths(v) <=> q \in Paths(w)
  <2> SUFFICES ASSUME NEW q PROVE q \in Paths(v) <=> q \in Paths(w)
    OBVIOUS
  <2>1. (\E i \in DOMAIN v : v[i].path = q) <=> (\E i \in DOMAIN w : w[i].path = q)
    BY SMT
  <2>2. q \in Paths(v) <=> (\E i \in DOMAIN v : v[i].path = q)
    BY Zenon DEF Paths, MarkedPaths
  <2>3. q \in Paths(w) <=> (\E i \in DOMAIN w : w[i].path = q)
    BY Zenon DEF Paths, MarkedPaths
  <2> QED BY <2>1, <2>2, <2>3, Zenon
<1>2. ASSUME v[n].status = "ok"
      PROVE  \A q : q \in MarkedPaths(v) <=> q \in MarkedPaths(w) \/ q = w[n].path
  <2> SUFFICES ASSUME NEW q PROVE q \in MarkedPaths(v) <=> q \in MarkedPaths(w) \/ q = w[n].path
    OBVIOUS
  <2>1. (\E i \in DOMAIN v : v[i].status = "ok" /\ v[i].path = q)
          <=> (\E i \in DOMAIN w : w[i].status = "ok" /\ w[i].path = q) \/ q = w[n].path
    BY <1>2, SMT
  <2>2. q \in MarkedPaths(v) <=> (\E i \in DOMAIN v : v[i].status = "ok" /\ v[i].path = q)
    BY Zenon DEF Paths, MarkedPaths
  <2>3. q \in MarkedPaths(w) <=> (\E i \in DOMAIN w : w[i].status = "ok" /\ w[i].path = q)
    BY Zenon DEF Paths, MarkedPaths
  <2> QED BY <2>1, <2>2, <2>3, Zenon
<1>3. ASSUME v[n].status # "ok"
      PROVE  \A q : q \in MarkedPaths(v) <=> q \in MarkedPaths(w)
  <2> SUFFICES ASSUME NEW q PROVE q \in MarkedPaths(v) <=> q \in MarkedPaths(w)
    OBVIOUS
  <2>1. (\E i \in DOMAIN v : v[i].status = "ok" /\ v[i].path = q)
          <=> (\E i \in DOMAIN w : w[i].status = "ok" /\ w[i].path = q)
    BY <1>3, SMT
  <2>2. q \in MarkedPaths(v) <=> (\E i \in DOMAIN v : v[i].status = "ok" /\ v[i].path = q)
    BY Zenon DEF Paths, MarkedPaths
  <2>3. q \in MarkedPaths(w) <=> (\E i \in DOMAIN w : w[i].status = "ok" /\ w[i].path = q)
    BY Zenon DEF Paths, MarkedPaths
  <2> QED BY <2>1, <2>2, <2>3, Zenon
<1>4. Paths(v) = Paths(w)
  BY <1>1, Zenon DEF Paths
<1>5. v[n].status # "ok" => MarkedPaths(v) = MarkedPaths(w)
  BY <1>3, Zenon DEF MarkedPaths
<1>6. w[n].path \in Paths(w)
  BY Zenon DEF Paths
<1> QED BY <1>2, <1>4, <1>5, <1>6, SMT

\* Listing a write: it is out, and nothing else changes.
LEMMA AppendList ==
  ASSUME NEW w, IsList(w), NEW path
  PROVE  LET v == Append(w, [path |-> path, status |-> ""]) IN
         /\ IsList(v)
         /\ Paths(v) = Paths(w) \union {path}
         /\ MarkedPaths(v) = MarkedPaths(w)
         /\ Out(v, path)
<1> DEFINE e == [path |-> path, status |-> ""]
           v == Append(w, e)
<1>1. PICK S : w \in Seq(S)
  BY DEF IsList
<1>2. w \in Seq(S \union {e}) /\ e \in S \union {e}
  BY <1>1, WiderList, Zenon
<1>3. /\ v \in Seq(S \union {e})
      /\ Len(w) \in Nat /\ Len(v) = Len(w) + 1
      /\ DOMAIN w = 1..Len(w) /\ DOMAIN v = 1..Len(v)
      /\ v[Len(v)] = e /\ \A i \in 1..Len(w) : v[i] = w[i]
  <2> HIDE DEF e
  <2> QED BY <1>2, AppendProperties, LenProperties
<1> HIDE DEF v
<1>4. DOMAIN e = {"path", "status"} /\ e.path = path /\ e.status = ""
  OBVIOUS
<1> HIDE DEF e
<1>5. DOMAIN v = DOMAIN w \union {Len(v)} /\ \A i \in DOMAIN w : v[i] = w[i]
  BY <1>3
<1>6. \A i \in DOMAIN v : DOMAIN v[i] = {"path", "status"}
  BY <1>3, <1>4, <1>5, Zenon DEF IsList
<1>7. IsList(v)
  BY <1>3, <1>6, Zenon DEF IsList
<1>8. Paths(v) = Paths(w) \union {path} /\ MarkedPaths(v) = MarkedPaths(w)
  <2>1. Len(v) \notin DOMAIN w
    BY <1>3
  <2>2. v[Len(v)].status # "ok" /\ v[Len(v)].path = path
    BY <1>3, <1>4
  <2> QED BY <2>1, <2>2, <1>5, OneMore
<1>10. Out(v, path)
  BY <1>3, <1>4, <1>5, Zenon DEF Out
<1> QED BY <1>7, <1>8, <1>10, Zenon DEF v, e

\* Answering the write that is out.
LEMMA AnswerList ==
  ASSUME NEW w, IsList(w), NEW path, Out(w, path), NEW st
  PROVE  LET v == [w EXCEPT ![Len(w)].status = st] IN
         /\ IsList(v)
         /\ Paths(v) = Paths(w)
         /\ path \in Paths(w)
         /\ st = "ok" => MarkedPaths(v) = MarkedPaths(w) \union {path}
         /\ st # "ok" => MarkedPaths(v) = MarkedPaths(w)
<1> DEFINE n == Len(w)
           x == [w[n] EXCEPT !.status = st]
           v == [w EXCEPT ![n].status = st]
<1>1. PICK S : w \in Seq(S)
  BY DEF IsList
<1>2. w \in Seq(S \union {x}) /\ Len(w) \in Nat /\ DOMAIN w = 1..Len(w)
  BY <1>1, WiderList, Zenon
<1>a. n \in DOMAIN w /\ w[n].path = path /\ w[n].status = ""
  BY DEF Out
<1>b. DOMAIN w[n] = {"path", "status"}
  BY <1>a DEF IsList
<1>3. DOMAIN x = {"path", "status"} /\ x.path = path /\ x.status = st
  BY <1>a, <1>b, StatusSet, Zenon
<1>4. v = [w EXCEPT ![n] = x]
  OBVIOUS
<1>5. v \in Seq(S \union {x}) /\ DOMAIN v = DOMAIN w
  BY <1>2, <1>4, <1>a, ExceptSeq, Zenon
<1>6. v[n] = x /\ \A i \in DOMAIN w : i # n => v[i] = w[i]
  BY <1>4, <1>a, Zenon
<1> HIDE DEF n, x, v
<1>7. IsList(v)
  BY <1>5, <1>6, <1>3, Zenon DEF IsList
<1>8. v[n].path = w[n].path /\ w[n].status # "ok" /\ v[n].status = st
  BY <1>6, <1>3, <1>a
<1>9. /\ Paths(v) = Paths(w)
      /\ path \in Paths(w)
      /\ st = "ok" => MarkedPaths(v) = MarkedPaths(w) \union {path}
      /\ st # "ok" => MarkedPaths(v) = MarkedPaths(w)
  <2>1. /\ Paths(v) = Paths(w) /\ w[n].path \in Paths(w)
        /\ v[n].status = "ok" => MarkedPaths(v) = MarkedPaths(w) \union {w[n].path}
        /\ v[n].status # "ok" => MarkedPaths(v) = MarkedPaths(w)
    BY <1>5, <1>6, <1>8, <1>a, OneOther, ZenonT(40)
  <2> QED BY <1>8, <1>a, <2>1, Zenon
<1> QED BY <1>7, <1>9, Zenon DEF v, n

-----------------------------------------------------------------------------
(* What the steps make of a request. *)

LEMMA EndedIs ==
  ASSUME NEW r, DOMAIN r = Fields, NEW a
  PROVE  LET d == Ended(r, a) IN
         /\ DOMAIN d = Fields /\ d.pc = "done"
         /\ d.mode = r.mode /\ d.writes = r.writes /\ d.committed = r.committed
BY SMT DEF Ended, Fields

LEMMA ListedIs ==
  ASSUME NEW r, DOMAIN r = Fields, NEW path
  PROVE  LET d == Listed(r, path) IN
         /\ DOMAIN d = Fields
         /\ d.writes = Append(r.writes, [path |-> path, status |-> ""])
         /\ d.pc = r.pc /\ d.mode = r.mode /\ d.committed = r.committed
         /\ d.export = r.export /\ d.i = r.i /\ d.body = r.body
<1> DEFINE x == Append(r.writes, [path |-> path, status |-> ""])
<1>1. Listed(r, path) = [r EXCEPT !.writes = x]
  BY Zenon DEF Listed
<1> HIDE DEF x
<1>2. LET d == [r EXCEPT !.writes = x] IN
         /\ DOMAIN d = Fields
         /\ d.writes = x
         /\ d.pc = r.pc /\ d.mode = r.mode /\ d.committed = r.committed
         /\ d.export = r.export /\ d.i = r.i /\ d.body = r.body
  BY SMT DEF Fields
<1> QED BY <1>1, <1>2, Zenon DEF x

LEMMA StatusIs ==
  ASSUME NEW r, DOMAIN r = Fields, NEW st
  PROVE  LET d == [r EXCEPT !.writes[Len(r.writes)].status = st] IN
         /\ DOMAIN d = Fields
         /\ d.writes = [r.writes EXCEPT ![Len(r.writes)].status = st]
         /\ d.pc = r.pc /\ d.mode = r.mode /\ d.committed = r.committed
         /\ d.export = r.export /\ d.i = r.i /\ d.body = r.body
<1> DEFINE x == [r.writes EXCEPT ![Len(r.writes)].status = st]
<1>1. [r EXCEPT !.writes[Len(r.writes)].status = st] = [r EXCEPT !.writes = x]
  BY Zenon
<1> HIDE DEF x
<1>2. LET d == [r EXCEPT !.writes = x] IN
         /\ DOMAIN d = Fields
         /\ d.writes = x
         /\ d.pc = r.pc /\ d.mode = r.mode /\ d.committed = r.committed
         /\ d.export = r.export /\ d.i = r.i /\ d.body = r.body
  BY SMT DEF Fields
<1> QED BY <1>1, <1>2, Zenon DEF x

\* A finished request whose list has its committed paths and no false mark.
LEMMA DoneOK ==
  ASSUME NEW d, DOMAIN d = Fields, IsList(d.writes), d.pc = "done",
         d.mode \in {"dry", "real"}, d.mode = "dry" => d.committed = {},
         d.mode = "real" => /\ d.committed \subseteq Paths(d.writes)
                            /\ MarkedPaths(d.writes) \subseteq d.committed
  PROVE  ReqOK(d)
BY SMT DEF ReqOK, Tells, UnderWay

\* Between two writes the marked paths are the committed ones.
LEMMA RestOK ==
  ASSUME NEW d, DOMAIN d = Fields, IsList(d.writes),
         d.pc \in {"idle", "get_model", "get_variant", "get_metadata", "put_metadata"},
         d.mode \in {"dry", "real"}, d.mode = "dry" => d.committed = {},
         d.mode = "real" => d.committed = MarkedPaths(d.writes)
  PROVE  ReqOK(d)
BY SMT DEF ReqOK, Tells, UnderWay

LEMMA MarkedInPaths ==
  ASSUME NEW w PROVE MarkedPaths(w) \subseteq Paths(w)
BY Zenon DEF MarkedPaths, Paths

\* What ReqOK says of a request that is not over.
LEMMA LiveOK ==
  ASSUME NEW r, ReqOK(r), r.pc # "done"
  PROVE  /\ DOMAIN r = Fields /\ IsList(r.writes) /\ r.mode \in {"dry", "real"}
         /\ r.mode = "dry" => r.committed = {}
         /\ r.mode = "real" => r.committed = MarkedPaths(r.writes)
BY SMT DEF ReqOK, Tells

\* Where a write stands in the steps: r lists path, not answered yet.
Writing(r, path) == /\ DOMAIN r = Fields /\ IsList(r.writes) /\ r.mode \in {"dry", "real"}
                    /\ r.mode = "dry" => r.committed = {}
                    /\ r.mode = "real" => r.committed = MarkedPaths(r.writes)
                    /\ Out(r.writes, path)

LEMMA ListedWriting ==
  ASSUME NEW r, ReqOK(r), r.pc # "done", NEW path
  PROVE  Writing(Listed(r, path), path)
<1> DEFINE d == Listed(r, path)
<1>1. /\ DOMAIN r = Fields /\ IsList(r.writes) /\ r.mode \in {"dry", "real"}
      /\ r.mode = "dry" => r.committed = {}
      /\ r.mode = "real" => r.committed = MarkedPaths(r.writes)
  BY LiveOK
<1>2. /\ DOMAIN d = Fields
      /\ d.writes = Append(r.writes, [path |-> path, status |-> ""])
      /\ d.mode = r.mode /\ d.committed = r.committed
  BY <1>1, ListedIs
<1>3. IsList(d.writes) /\ MarkedPaths(d.writes) = MarkedPaths(r.writes) /\ Out(d.writes, path)
  <2>1. LET v == Append(r.writes, [path |-> path, status |-> ""]) IN
        IsList(v) /\ MarkedPaths(v) = MarkedPaths(r.writes) /\ Out(v, path)
    BY <1>1, AppendList, Zenon
  <2> QED BY <1>2, <2>1, Zenon
<1> HIDE DEF d
<1>4. Writing(d, path)
  BY <1>1, <1>2, <1>3, Zenon DEF Writing
<1> QED BY <1>4 DEF d

\* A refused write is listed as failed.
LEMMA RefuseOK ==
  ASSUME NEW r, NEW path, Writing(r, path)
  PROVE  ReqOK(Refuse(r))
<1> DEFINE f == [r EXCEPT !.writes[Len(r.writes)].status = "failed"]
           a == IF r.mode = "dry" THEN "refused" ELSE "refused midway"
           d == Ended(f, a)
<1>1. /\ DOMAIN r = Fields /\ IsList(r.writes) /\ r.mode \in {"dry", "real"}
      /\ r.mode = "dry" => r.committed = {}
      /\ r.mode = "real" => r.committed = MarkedPaths(r.writes)
      /\ Out(r.writes, path)
  BY DEF Writing
<1>2. /\ DOMAIN f = Fields
      /\ f.writes = [r.writes EXCEPT ![Len(r.writes)].status = "failed"]
      /\ f.mode = r.mode /\ f.committed = r.committed
  BY <1>1, StatusIs, Zenon
<1>3. IsList(f.writes) /\ MarkedPaths(f.writes) = MarkedPaths(r.writes)
  <2>1. "failed" # "ok"
    OBVIOUS
  <2>2. LET v == [r.writes EXCEPT ![Len(r.writes)].status = "failed"] IN
        IsList(v) /\ ("failed" # "ok" => MarkedPaths(v) = MarkedPaths(r.writes))
    BY <1>1, AnswerList, Zenon
  <2> HIDE DEF f
  <2> QED BY <2>1, <2>2, <1>2, Zenon
<1> HIDE DEF f, a
<1>4. /\ DOMAIN d = Fields /\ d.pc = "done"
      /\ d.mode = f.mode /\ d.writes = f.writes /\ d.committed = f.committed
  BY <1>2, EndedIs, Zenon
<1> HIDE DEF d
<1>5. ReqOK(d)
  BY <1>1, <1>2, <1>3, <1>4, MarkedInPaths, DoneOK, SMT
<1> QED BY <1>5, Zenon DEF d, f, a, Refuse

\* A write that was taken: what follows it when its answer is heard, the end of
\* the request when it is not.
LEMMA SentOK ==
  ASSUME NEW r, NEW path, Writing(r, path), NEW heard, NEW next,
         DOMAIN next = Fields, IsList(next.writes), next.mode \in {"dry", "real"},
         next.pc \in {"done", "get_model", "get_variant", "get_metadata", "put_metadata"},
         r.mode = "real" => /\ next.mode = "real"
                            /\ MarkedPaths(next.writes) = MarkedPaths(r.writes) \union {path},
         r.mode = "dry" /\ next.mode = "real" => MarkedPaths(next.writes) = {}
  PROVE  ReqOK(Sent(r, {path}, heard, next))
<1> DEFINE com == IF r.mode = "real" THEN r.committed \union {path} ELSE r.committed
           c == IF r.mode = "real" THEN [r EXCEPT !.committed = @ \union {path}] ELSE r
<1>1. /\ DOMAIN r = Fields /\ IsList(r.writes) /\ r.mode \in {"dry", "real"}
      /\ r.mode = "dry" => r.committed = {}
      /\ r.mode = "real" => r.committed = MarkedPaths(r.writes)
      /\ Out(r.writes, path)
  BY DEF Writing
<1>2. /\ DOMAIN c = Fields /\ c.committed = com /\ c.writes = r.writes /\ c.mode = r.mode
  BY <1>1, SMT DEF Fields
<1>3. path \in Paths(r.writes)
  BY <1>1, AnswerList, Zenon
<1>4. Sent(r, {path}, heard, next) =
        IF heard THEN [next EXCEPT !.committed = c.committed] ELSE Ended(c, "unreachable")
  BY Zenon DEF Sent
<1>5. /\ r.mode = "real" => com = MarkedPaths(r.writes) \union {path}
      /\ r.mode = "dry" => com = {}
  BY <1>1, SMT
<1> HIDE DEF c, com
<1>6. CASE heard
  <2> DEFINE d == [next EXCEPT !.committed = c.committed]
  <2>1. /\ DOMAIN d = Fields /\ d.committed = com /\ d.writes = next.writes
        /\ d.mode = next.mode /\ d.pc = next.pc
    BY <1>2, SMT DEF Fields
  <2>2. Sent(r, {path}, heard, next) = d
    BY <1>4, <1>6, Zenon
  <2> HIDE DEF d
  <2>3. /\ d.mode = "dry" => d.committed = {}
        /\ d.mode = "real" => d.committed = MarkedPaths(d.writes)
    BY <1>1, <1>5, <2>1, SMT
  <2>4. CASE d.pc = "done"
    BY <2>1, <2>3, <2>4, MarkedInPaths, DoneOK, <2>2, SMT
  <2>5. CASE d.pc # "done"
    BY <2>1, <2>3, <2>5, RestOK, <2>2, SMT
  <2> QED BY <2>4, <2>5
<1>7. CASE ~heard
  <2> DEFINE d == Ended(c, "unreachable")
  <2>1. /\ DOMAIN d = Fields /\ d.pc = "done"
        /\ d.mode = c.mode /\ d.writes = c.writes /\ d.committed = c.committed
    BY <1>2, EndedIs, Zenon
  <2>2. Sent(r, {path}, heard, next) = d
    BY <1>4, <1>7, Zenon
  <2> HIDE DEF d
  <2> QED BY <1>1, <1>2, <1>3, <1>5, <2>1, <2>2, MarkedInPaths, DoneOK, SMT
<1> QED BY <1>6, <1>7

\* The next request state after a taken write: the write is marked.
LEMMA MarkedIs ==
  ASSUME NEW r, NEW path, Writing(r, path)
  PROVE  LET m == Marked(r) IN
         /\ DOMAIN m = Fields /\ IsList(m.writes) /\ m.mode = r.mode /\ m.mode \in {"dry", "real"}
         /\ m.body = r.body
         /\ MarkedPaths(m.writes) = MarkedPaths(r.writes) \union {path}
<1> DEFINE m == Marked(r)
<1>1. /\ DOMAIN r = Fields /\ IsList(r.writes) /\ r.mode \in {"dry", "real"}
      /\ Out(r.writes, path)
  BY DEF Writing
<1>2. /\ DOMAIN m = Fields
      /\ m.writes = [r.writes EXCEPT ![Len(r.writes)].status = "ok"]
      /\ m.mode = r.mode /\ m.body = r.body
  BY <1>1, StatusIs, SMT DEF Marked
<1>3. LET v == [r.writes EXCEPT ![Len(r.writes)].status = "ok"] IN
      IsList(v) /\ MarkedPaths(v) = MarkedPaths(r.writes) \union {path}
  BY <1>1, AnswerList, Zenon
<1> HIDE DEF m
<1>4. IsList(m.writes) /\ MarkedPaths(m.writes) = MarkedPaths(r.writes) \union {path}
  BY <1>2, <1>3, Zenon
<1>5. m.mode \in {"dry", "real"}
  BY <1>1, <1>2, Zenon
<1> QED BY <1>2, <1>4, <1>5, Zenon DEF m

LEMMA PassOverOK ==
  ASSUME NEW r, NEW path, Writing(r, path), NEW heard
  PROVE  ReqOK(Sent(r, {path}, heard, PassOver(Marked(r))))
<1> DEFINE m == Marked(r)
           next == PassOver(m)
<1>1. /\ DOMAIN m = Fields /\ IsList(m.writes) /\ m.mode = r.mode /\ m.mode \in {"dry", "real"}
      /\ m.body = r.body
      /\ MarkedPaths(m.writes) = MarkedPaths(r.writes) \union {path}
  BY MarkedIs, Zenon
<1> HIDE DEF m
<1>2. CASE m.mode = "dry" /\ m.body.kind = "publish"
  <2>1. next = [m EXCEPT !.mode = "real", !.pc = "get_model", !.i = 1, !.added = {},
                         !.writes = <<>>]
    BY <1>2, Zenon DEF PassOver
  <2>2. /\ DOMAIN next = Fields /\ next.writes = <<>> /\ next.mode = "real"
        /\ next.pc = "get_model"
    <3>1. ASSUME NEW e
          PROVE  LET d == [m EXCEPT !.mode = "real", !.pc = "get_model", !.i = 1, !.added = {},
                                    !.writes = e]
                 IN DOMAIN d = Fields /\ d.writes = e /\ d.mode = "real" /\ d.pc = "get_model"
      BY <1>1, SMT DEF Fields
    <3> QED BY <2>1, <3>1, Zenon
  <2> HIDE DEF next
  <2>3. IsList(next.writes) /\ MarkedPaths(next.writes) = {}
    BY <2>2, EmptyList, Zenon
  <2>4. r.mode # "real"
    BY <1>1, <1>2
  <2>5. ReqOK(Sent(r, {path}, heard, next))
    BY <2>2, <2>3, <2>4, SentOK
  <2> QED BY <2>5, Zenon DEF next, m
<1>3. CASE ~(m.mode = "dry" /\ m.body.kind = "publish")
  <2>1. next = Ended(m, "ok")
    BY <1>3, Zenon DEF PassOver
  <2>2. /\ DOMAIN next = Fields /\ next.pc = "done"
        /\ next.mode = m.mode /\ next.writes = m.writes
    BY <1>1, <2>1, EndedIs, SMT
  <2> HIDE DEF next
  <2>3. /\ IsList(next.writes) /\ next.mode \in {"dry", "real"}
        /\ MarkedPaths(next.writes) = MarkedPaths(r.writes) \union {path}
        /\ next.mode = r.mode
    BY <1>1, <2>2, Zenon
  <2>4. ReqOK(Sent(r, {path}, heard, next))
    BY <2>2, <2>3, SentOK
  <2> QED BY <2>4, Zenon DEF next, m
<1> QED BY <1>2, <1>3, Zenon

\* A program counter between two writes.
LEMMA NextPcIs ==
  ASSUME NEW e, NEW i, NEW m
  PROVE  NextPc(e, i, m) \in {"get_variant", "put_metadata", "get_metadata"}
BY SMT DEF NextPc

-----------------------------------------------------------------------------
(* The steps. *)

LEMMA IdleOK == ReqOK(Idle)
<1>1. /\ DOMAIN Idle = Fields /\ Idle.writes = <<>> /\ Idle.mode = "dry" /\ Idle.pc = "idle"
      /\ Idle.committed = {}
  BY SMT DEF Idle, Fields
<1>2. IsList(Idle.writes)
  BY <1>1, EmptyList, Zenon
<1> HIDE DEF Idle
<1> QED BY <1>1, <1>2, RestOK, SMT

LEMMA InitListInv == Init => ListInv
BY IdleOK, Zenon DEF Init, ListInv

\* One request's record changes, to one that is as it should be.
LEMMA OneMoves ==
  ASSUME ListInv, NEW p \in Requests, NEW d, ReqOK(d), req' = [req EXCEPT ![p] = d]
  PROVE  ListInv'
<1>1. DOMAIN req = Requests /\ \A q \in Requests : ReqOK(req[q])
  BY DEF ListInv
<1>2. DOMAIN req' = Requests
  BY <1>1, SMT
<1>3. ASSUME NEW q \in Requests PROVE ReqOK(req'[q])
  <2>1. req'[q] = IF q = p THEN d ELSE req[q]
    BY <1>1, <1>3, SMT
  <2> QED BY <1>1, <2>1, Zenon
<1> QED BY <1>2, <1>3, Zenon DEF ListInv

LEMMA StepAsk ==
  ASSUME ListInv, NEW p \in Requests, NEW b, NEW seen, NEW unread, Ask(p, b, seen, unread)
  PROVE  ListInv'
<1> DEFINE read   == b.use /\ seen
           export == build_catalog_entry(b, IF read THEN lookup(unread) ELSE NoModel)
           r      == [Idle EXCEPT !.body = b, !.export = export, !.unread = unread,
                                  !.pc = "get_model"]
           d      == IF ~from_run_ok(b) THEN Ended(r, "refused run")
                     ELSE IF export.errors # {} /\ b.kind # "preview" THEN Ended(r, "invalid")
                     ELSE IF WithReport(b) THEN Ended(r, "built")
                     ELSE r
<1>1. req' = [req EXCEPT ![p] = d]
  BY Zenon DEF Ask
<1> HIDE DEF export
<1>2. /\ DOMAIN r = Fields /\ r.writes = <<>> /\ r.mode = "dry" /\ r.pc = "get_model"
      /\ r.committed = {}
  <2>1. ASSUME NEW x
        PROVE  LET y == [Idle EXCEPT !.body = b, !.export = x, !.unread = unread,
                                     !.pc = "get_model"]
               IN /\ DOMAIN y = Fields /\ y.writes = <<>> /\ y.mode = "dry"
                  /\ y.pc = "get_model" /\ y.committed = {}
    BY SMT DEF Idle, Fields
  <2> QED BY <2>1, Zenon
<1>3. IsList(r.writes) /\ MarkedPaths(r.writes) = {}
  BY <1>2, EmptyList, Zenon
<1> HIDE DEF r
<1>4. ReqOK(r)
  BY <1>2, <1>3, RestOK, SMT
<1>5. ASSUME NEW a PROVE ReqOK(Ended(r, a))
  <2> DEFINE y == Ended(r, a)
  <2>1. /\ DOMAIN y = Fields /\ y.pc = "done"
        /\ y.mode = r.mode /\ y.writes = r.writes /\ y.committed = r.committed
    BY <1>2, EndedIs, Zenon
  <2> HIDE DEF y
  <2>2. IsList(y.writes)
    BY <2>1, <1>3, Zenon
  <2>3. ReqOK(y)
    BY <2>1, <2>2, <1>2, DoneOK, SMT
  <2> QED BY <2>3 DEF y
<1>6. ReqOK(d)
  BY <1>4, <1>5, Zenon
<1> HIDE DEF d
<1> QED BY <1>1, <1>6, OneMoves, Zenon

\* Ending a live request without another write keeps its list true.
LEMMA EndedOK ==
  ASSUME NEW r, ReqOK(r), r.pc # "done", NEW a
  PROVE  ReqOK(Ended(r, a))
<1> DEFINE d == Ended(r, a)
<1>1. /\ DOMAIN r = Fields /\ IsList(r.writes) /\ r.mode \in {"dry", "real"}
      /\ r.mode = "dry" => r.committed = {}
      /\ r.mode = "real" => r.committed = MarkedPaths(r.writes)
  BY LiveOK
<1>2. /\ DOMAIN d = Fields /\ d.pc = "done"
      /\ d.mode = r.mode /\ d.writes = r.writes /\ d.committed = r.committed
  BY <1>1, EndedIs, Zenon
<1> HIDE DEF d
<1>3. IsList(d.writes) /\ d.mode \in {"dry", "real"}
  BY <1>1, <1>2, Zenon
<1>4. ReqOK(d)
  BY <1>1, <1>2, <1>3, MarkedInPaths, DoneOK, SMT
<1> QED BY <1>4, Zenon DEF d

LEMMA StepGetModel ==
  ASSUME ListInv, NEW p \in Requests, GetModel(p)
  PROVE  ListInv'
<1> DEFINE r == req[p]
           s == [r EXCEPT !.model_etag = srv.meta, !.etag = srv.meta,
                          !.pc = NextPc(r.export, 1, r.mode)]
           l == Listed(r, <<"model">>)
           n == [l EXCEPT !.pc = "post_model"]
           d == IF srv.model THEN s
                ELSE IF r.export.files = <<>> THEN Ended(r, "unreachable") ELSE n
<1>1. req' = [req EXCEPT ![p] = d]
  BY Zenon DEF GetModel
<1>2. ReqOK(r) /\ r.pc = "get_model"
  BY Zenon DEF ListInv, GetModel, Pub
<1> HIDE DEF r
<1>3. r.pc # "done"
  BY <1>2
<1>4. /\ DOMAIN r = Fields /\ IsList(r.writes) /\ r.mode \in {"dry", "real"}
      /\ r.mode = "dry" => r.committed = {}
      /\ r.mode = "real" => r.committed = MarkedPaths(r.writes)
  BY <1>2, <1>3, LiveOK
<1>5. ReqOK(s)
  <2>1. ASSUME NEW x, NEW e
        PROVE  LET y == [r EXCEPT !.model_etag = e, !.etag = e, !.pc = x]
               IN /\ DOMAIN y = Fields /\ y.writes = r.writes /\ y.mode = r.mode
                  /\ y.pc = x /\ y.committed = r.committed
    BY <1>4, SMT DEF Fields
  <2>2. /\ DOMAIN s = Fields /\ s.writes = r.writes /\ s.mode = r.mode
        /\ s.pc = NextPc(r.export, 1, r.mode) /\ s.committed = r.committed
    BY <2>1, Zenon
  <2> HIDE DEF s
  <2>3. IsList(s.writes) /\ s.pc \in {"get_variant", "put_metadata", "get_metadata"}
    <3>1. NextPc(r.export, 1, r.mode) \in {"get_variant", "put_metadata", "get_metadata"}
      BY NextPcIs
    <3> QED BY <2>2, <1>4, <3>1, Zenon
  <2> QED BY <2>2, <2>3, <1>4, RestOK, SMT
<1>6. ReqOK(n)
  <2>1. Writing(l, <<"model">>)
    BY <1>2, <1>3, ListedWriting, Zenon
  <2> HIDE DEF l
  <2>2. /\ DOMAIN l = Fields /\ IsList(l.writes) /\ l.mode \in {"dry", "real"}
        /\ l.mode = "dry" => l.committed = {}
        /\ l.mode = "real" => l.committed = MarkedPaths(l.writes)
        /\ Out(l.writes, <<"model">>)
    BY <2>1, Zenon DEF Writing
  <2>3. /\ DOMAIN n = Fields /\ n.writes = l.writes /\ n.mode = l.mode
        /\ n.pc = "post_model" /\ n.committed = l.committed
    BY <2>2, SMT DEF Fields
  <2> HIDE DEF n
  <2>4. IsList(n.writes) /\ Out(n.writes, <<"model">>)
    BY <2>2, <2>3, Zenon
  <2>5. Tells(n)
    BY <2>2, <2>3, SMT DEF Tells
  <2>6. UnderWay(n)
    BY <2>3, <2>4 DEF UnderWay
  <2> QED BY <2>3, <2>4, <2>5, <2>6, Zenon DEF ReqOK
<1>7. ReqOK(Ended(r, "unreachable"))
  BY <1>2, <1>3, EndedOK, Zenon
<1>8. ReqOK(d)
  BY <1>5, <1>6, <1>7, Zenon
<1> HIDE DEF d
<1> QED BY <1>1, <1>8, OneMoves, Zenon

LEMMA StepPostModel ==
  ASSUME ListInv, NEW p \in Requests, NEW heard, PostModel(p, heard)
  PROVE  ListInv'
<1> DEFINE r == req[p]
<1>1. \/ req' = [req EXCEPT ![p] = Refuse(r)]
      \/ req' = [req EXCEPT ![p] = Sent(r, {<<"model">>}, heard, PassOver(Marked(r)))]
  BY Zenon DEF PostModel
<1>2. ReqOK(r) /\ r.pc = "post_model"
  BY Zenon DEF ListInv, PostModel, Pub
<1> HIDE DEF r
<1>3. r.pc # "done"
  BY <1>2
<1>4. Out(r.writes, <<"model">>)
  BY <1>2, Zenon DEF ReqOK, UnderWay
<1>5. Writing(r, <<"model">>)
  BY <1>2, <1>3, <1>4, LiveOK, Zenon DEF Writing
<1>6. ReqOK(Refuse(r)) /\ ReqOK(Sent(r, {<<"model">>}, heard, PassOver(Marked(r))))
  BY <1>5, RefuseOK, PassOverOK, Zenon
<1> QED BY <1>1, <1>6, OneMoves, Zenon

LEMMA StepGetVariant ==
  ASSUME ListInv, NEW p \in Requests, GetVariant(p)
  PROVE  ListInv'
<1> DEFINE r == req[p]
           f == r.export.files[r.i]
           l == Listed(r, f.id)
           et == IF Has(f.id) THEN srv.variants[f.id] ELSE None
           ad == IF Has(f.id) THEN l.added ELSE l.added \union {f.id}
           d == [l EXCEPT !.pc = "put_variant", !.etag = et, !.added = ad]
<1>1. req' = [req EXCEPT ![p] = d]
  BY Zenon DEF GetVariant
<1>2. ReqOK(r) /\ r.pc = "get_variant"
  BY Zenon DEF ListInv, GetVariant, Pub
<1> HIDE DEF r
<1>3. r.pc # "done"
  BY <1>2
<1>4. Writing(l, f.id)
  BY <1>2, <1>3, ListedWriting, Zenon
<1>5. l.export = r.export /\ l.i = r.i
  <2>1. DOMAIN r = Fields
    BY <1>2, Zenon DEF ReqOK
  <2> QED BY <2>1, ListedIs, Zenon
<1> HIDE DEF l, et, ad
<1>6. /\ DOMAIN l = Fields /\ IsList(l.writes) /\ l.mode \in {"dry", "real"}
      /\ l.mode = "dry" => l.committed = {}
      /\ l.mode = "real" => l.committed = MarkedPaths(l.writes)
      /\ Out(l.writes, f.id)
  BY <1>4, Zenon DEF Writing
<1>7. /\ DOMAIN d = Fields /\ d.writes = l.writes /\ d.mode = l.mode
      /\ d.pc = "put_variant" /\ d.committed = l.committed
      /\ d.export = l.export /\ d.i = l.i
  BY <1>6, SMT DEF Fields
<1> HIDE DEF d
<1>8. IsList(d.writes) /\ Out(d.writes, d.export.files[d.i].id)
  BY <1>5, <1>6, <1>7, Zenon
<1>9. Tells(d)
  BY <1>6, <1>7, SMT DEF Tells
<1>10. UnderWay(d)
  BY <1>7, <1>8 DEF UnderWay
<1>11. ReqOK(d)
  BY <1>7, <1>8, <1>9, <1>10, Zenon DEF ReqOK
<1> QED BY <1>1, <1>11, OneMoves, Zenon

LEMMA StepPutVariant ==
  ASSUME ListInv, NEW p \in Requests, NEW heard, PutVariant(p, heard)
  PROVE  ListInv'
<1> DEFINE r == req[p]
           f == r.export.files[r.i]
           m == Marked(r)
           next == [m EXCEPT !.i = r.i + 1, !.etag = r.model_etag,
                             !.pc = NextPc(r.export, r.i + 1, r.mode)]
<1>1. \/ req' = [req EXCEPT ![p] = Refuse(r)]
      \/ req' = [req EXCEPT ![p] = Sent(r, {f.id}, heard, next)]
  BY Zenon DEF PutVariant
<1>2. ReqOK(r) /\ r.pc = "put_variant"
  BY Zenon DEF ListInv, PutVariant, Pub
<1> HIDE DEF r
<1>3. r.pc # "done"
  BY <1>2
<1>4. Out(r.writes, f.id)
  BY <1>2, Zenon DEF ReqOK, UnderWay
<1>5. Writing(r, f.id)
  BY <1>2, <1>3, <1>4, LiveOK, Zenon DEF Writing
<1>6. ReqOK(Refuse(r))
  BY <1>5, RefuseOK, Zenon
<1>7. /\ DOMAIN m = Fields /\ IsList(m.writes) /\ m.mode = r.mode /\ m.mode \in {"dry", "real"}
      /\ MarkedPaths(m.writes) = MarkedPaths(r.writes) \union {f.id}
  BY <1>5, MarkedIs, Zenon
<1> HIDE DEF m, f
<1>8. /\ DOMAIN next = Fields /\ next.writes = m.writes /\ next.mode = m.mode
      /\ next.pc = NextPc(r.export, r.i + 1, r.mode)
  <2> DEFINE ni == r.i + 1
             et == r.model_etag
             pc == NextPc(r.export, ni, r.mode)
  <2>1. next = [m EXCEPT !.i = ni, !.etag = et, !.pc = pc]
    OBVIOUS
  <2> HIDE DEF ni, et, pc, next
  <2>2. DOMAIN next = Fields /\ next.writes = m.writes /\ next.mode = m.mode /\ next.pc = pc
    BY <1>7, <2>1, SMT DEF Fields
  <2> QED BY <2>2 DEF ni, pc
<1> HIDE DEF next
<1>9. /\ IsList(next.writes) /\ next.mode \in {"dry", "real"} /\ next.mode = r.mode
      /\ MarkedPaths(next.writes) = MarkedPaths(r.writes) \union {f.id}
      /\ next.pc \in {"get_variant", "put_metadata", "get_metadata"}
  BY <1>7, <1>8, NextPcIs, Zenon
<1>10. ReqOK(Sent(r, {f.id}, heard, next))
  <2>1. /\ r.mode = "real" => /\ next.mode = "real"
                              /\ MarkedPaths(next.writes) = MarkedPaths(r.writes) \union {f.id}
        /\ r.mode = "dry" /\ next.mode = "real" => MarkedPaths(next.writes) = {}
        /\ next.pc \in {"done", "get_model", "get_variant", "get_metadata", "put_metadata"}
    BY <1>9, SMT
  <2> QED BY <1>5, <1>8, <1>9, <2>1, SentOK, Zenon
<1> QED BY <1>1, <1>6, <1>10, OneMoves, Zenon

LEMMA StepGetMetadata ==
  ASSUME ListInv, NEW p \in Requests, GetMetadata(p)
  PROVE  ListInv'
<1> DEFINE r == req[p]
           d == [r EXCEPT !.etag = srv.meta, !.pc = "put_metadata"]
<1>1. req' = [req EXCEPT ![p] = d]
  BY Zenon DEF GetMetadata
<1>2. ReqOK(r) /\ r.pc = "get_metadata"
  BY Zenon DEF ListInv, GetMetadata, Pub
<1> HIDE DEF r
<1>3. r.pc # "done"
  BY <1>2
<1>4. /\ DOMAIN r = Fields /\ IsList(r.writes) /\ r.mode \in {"dry", "real"}
      /\ r.mode = "dry" => r.committed = {}
      /\ r.mode = "real" => r.committed = MarkedPaths(r.writes)
  BY <1>2, <1>3, LiveOK
<1>5. /\ DOMAIN d = Fields /\ d.writes = r.writes /\ d.mode = r.mode
      /\ d.pc = "put_metadata" /\ d.committed = r.committed
  BY <1>4, SMT DEF Fields
<1> HIDE DEF d
<1>6. IsList(d.writes)
  BY <1>4, <1>5, Zenon
<1>7. ReqOK(d)
  BY <1>4, <1>5, <1>6, RestOK, SMT
<1> QED BY <1>1, <1>7, OneMoves, Zenon

LEMMA StepPutMetadata ==
  ASSUME ListInv, NEW p \in Requests, NEW heard, PutMetadata(p, heard)
  PROVE  ListInv'
<1> DEFINE r == Listed(req[p], <<"metadata">>)
<1>1. \/ req' = [req EXCEPT ![p] = Refuse(r)]
      \/ req' = [req EXCEPT ![p] = Sent(r, {<<"metadata">>}, heard, PassOver(Marked(r)))]
  BY Zenon DEF PutMetadata
<1>2. ReqOK(req[p]) /\ req[p].pc = "put_metadata"
  BY Zenon DEF ListInv, PutMetadata, Pub
<1>3. req[p].pc # "done"
  BY <1>2
<1>4. Writing(r, <<"metadata">>)
  BY <1>2, <1>3, ListedWriting, Zenon
<1> HIDE DEF r
<1>5. ReqOK(Refuse(r)) /\ ReqOK(Sent(r, {<<"metadata">>}, heard, PassOver(Marked(r))))
  BY <1>4, RefuseOK, PassOverOK, Zenon
<1> QED BY <1>1, <1>5, OneMoves, Zenon

LEMMA StepLose ==
  ASSUME ListInv, NEW p \in Requests, Lose(p)
  PROVE  ListInv'
<1> DEFINE r == req[p]
           c == [r EXCEPT !.writes = <<>>]
           l == Listed(r, <<"metadata">>)
           e == IF r.mode = "dry" THEN c
                ELSE IF r.pc \in {"get_metadata", "put_metadata"} THEN l ELSE r
<1>1. req' = [req EXCEPT ![p] = Ended(e, "unreachable")]
  BY Zenon DEF Lose
<1>2. ReqOK(r) /\ r.pc # "done"
  BY DEF ListInv, Lose
<1> HIDE DEF r
<1>4. /\ DOMAIN r = Fields /\ IsList(r.writes) /\ r.mode \in {"dry", "real"}
      /\ r.mode = "dry" => r.committed = {}
      /\ r.mode = "real" => r.committed = MarkedPaths(r.writes)
  BY <1>2, LiveOK
<1>5. CASE r.mode = "dry"
  <2> DEFINE d == Ended(c, "unreachable")
  <2>1. DOMAIN c = Fields /\ c.writes = <<>> /\ c.mode = r.mode /\ c.committed = r.committed
    <3>1. ASSUME NEW x
          PROVE  LET y == [r EXCEPT !.writes = x]
                 IN DOMAIN y = Fields /\ y.writes = x /\ y.mode = r.mode
                    /\ y.committed = r.committed
      BY <1>4, SMT DEF Fields
    <3> QED BY <3>1, Zenon
  <2> HIDE DEF c
  <2>2. /\ DOMAIN d = Fields /\ d.pc = "done"
        /\ d.mode = c.mode /\ d.writes = c.writes /\ d.committed = c.committed
    BY <2>1, EndedIs, Zenon
  <2>3. IsList(d.writes)
    BY <2>1, <2>2, EmptyList, Zenon
  <2>4. e = c
    BY <1>5, Zenon
  <2> HIDE DEF d, e
  <2>5. ReqOK(d)
    BY <1>4, <1>5, <2>1, <2>2, <2>3, DoneOK, SMT
  <2> QED BY <1>1, <2>4, <2>5, OneMoves, Zenon DEF d
<1>6. CASE r.mode # "dry" /\ r.pc \in {"get_metadata", "put_metadata"}
  <2> DEFINE d == Ended(l, "unreachable")
  <2>1. Writing(l, <<"metadata">>)
    BY <1>2, ListedWriting, Zenon
  <2>2. e = l
    BY <1>6, Zenon
  <2> HIDE DEF l, e
  <2>3. /\ DOMAIN l = Fields /\ IsList(l.writes) /\ l.mode \in {"dry", "real"}
        /\ l.mode = "dry" => l.committed = {}
        /\ l.mode = "real" => l.committed = MarkedPaths(l.writes)
    BY <2>1, Zenon DEF Writing
  <2>4. /\ DOMAIN d = Fields /\ d.pc = "done"
        /\ d.mode = l.mode /\ d.writes = l.writes /\ d.committed = l.committed
    BY <2>3, EndedIs, Zenon
  <2> HIDE DEF d
  <2>5. IsList(d.writes) /\ d.mode \in {"dry", "real"}
    BY <2>3, <2>4, Zenon
  <2>6. ReqOK(d)
    BY <2>3, <2>4, <2>5, MarkedInPaths, DoneOK, SMT
  <2> QED BY <1>1, <2>2, <2>6, OneMoves, Zenon DEF d
<1>7. CASE r.mode # "dry" /\ r.pc \notin {"get_metadata", "put_metadata"}
  <2>1. e = r
    BY <1>7, Zenon
  <2> HIDE DEF e
  <2>2. ReqOK(Ended(r, "unreachable"))
    BY <1>2, EndedOK, Zenon
  <2> QED BY <1>1, <2>1, <2>2, OneMoves, Zenon
<1> QED BY <1>5, <1>6, <1>7, Zenon

\* Every step keeps every list true.
LEMMA NextListInv ==
  ASSUME ListInv, [Next]_vars
  PROVE  ListInv'
<1>0. ASSUME UNCHANGED req PROVE ListInv'
  BY <1>0, Zenon DEF ListInv
<1>1. CASE UNCHANGED vars
  BY <1>0, <1>1, Zenon DEF vars
<1>2. ASSUME NEW p \in Requests, NEW b \in Bodies, NEW seen \in BOOLEAN,
             NEW unread \in UnreadSets, Ask(p, b, seen, unread)
      PROVE  ListInv'
  BY <1>2, StepAsk, Zenon
<1>3. ASSUME NEW p \in Requests,
             GetModel(p) \/ GetVariant(p) \/ GetMetadata(p) \/ Lose(p)
      PROVE  ListInv'
  BY <1>3, StepGetModel, StepGetVariant, StepGetMetadata, StepLose, Zenon
<1>4. ASSUME NEW p \in Requests, NEW heard \in BOOLEAN,
             PostModel(p, heard) \/ PutVariant(p, heard) \/ PutMetadata(p, heard)
      PROVE  ListInv'
  BY <1>4, StepPostModel, StepPutVariant, StepPutMetadata, Zenon
<1>5. ASSUME NEW pr \in pulls, Merge(pr) PROVE ListInv'
  BY <1>5, <1>0, Zenon DEF Merge
<1>6. ASSUME PublishIndex \/ EditRecipe \/ clear_env_category PROVE ListInv'
  BY <1>6, <1>0, Zenon DEF PublishIndex, EditRecipe, clear_env_category
<1>7. ASSUME NEW c \in {"recipe", "site"}, set_env_category(c) PROVE ListInv'
  BY <1>7, <1>0, Zenon DEF set_env_category
<1> QED BY <1>1, <1>2, <1>3, <1>4, <1>5, <1>6, <1>7, Zenon DEF Next

LEMMA ListInvHolds == Spec => []ListInv
<1>1. Init => ListInv
  BY InitListInv
<1>2. ListInv /\ [Next]_vars => ListInv'
  BY NextListInv
<1> QED BY <1>1, <1>2, PTL DEF Spec

\* The event a publish records lists every file the server took from it, and what
\* it marks as written was written (publish.py): for every catalog, whoever else
\* writes meanwhile, whichever write is refused and whichever answer is lost.
THEOREM PublishesTellTheirWrites == Spec => []CommittedIsListed
<1>1. ListInv => CommittedIsListed
  <2> SUFFICES ASSUME ListInv, NEW p \in Requests, req[p].pc = "done", req[p].mode = "real"
      PROVE  /\ req[p].committed \subseteq Paths(req[p].writes)
             /\ MarkedPaths(req[p].writes) \subseteq req[p].committed
    BY Zenon DEF CommittedIsListed, Paths, MarkedPaths
  <2> QED BY Zenon DEF ListInv, ReqOK, Tells
<1> QED BY <1>1, ListInvHolds, PTL

-----------------------------------------------------------------------------
(* Positions and sequences. *)

\* Of a set of naturals with a member, the least.
LEMMA LeastNat ==
  ASSUME NEW S, S \subseteq Nat, S # {}
  PROVE  \E x \in S : \A y \in S : x <= y
<1> DEFINE R == OpToRel(<, Nat)
<1>1. IsWellFoundedOn(R, Nat)
  BY NatLessThanWellFounded
<1> HIDE DEF R
<1>2. PICK x \in S : \A y \in S : ~(<<y, x>> \in R)
  BY <1>1, WFMin
<1>3. \A y \in S : ~(y < x)
  BY <1>2 DEF R, OpToRel
<1> QED BY <1>2, <1>3

\* Induction up to n: what holds of 0, and of k if of k - 1, holds of them all.
LEMMA UpTo ==
  ASSUME NEW n \in Nat, NEW Good, 0 \in Good,
         \A k \in 1..n : k - 1 \in Good => k \in Good
  PROVE  \A k \in 0..n : k \in Good
<1> DEFINE Bad == {k \in 0..n : k \notin Good}
<1> SUFFICES ASSUME Bad # {} PROVE FALSE
  OBVIOUS
<1>2. Bad \subseteq Nat
  OBVIOUS
<1> HIDE DEF Bad
<1>3. PICK x \in Bad : \A y \in Bad : x <= y
  BY <1>2, LeastNat
<1>5. x \in 1..n /\ x \notin Good
  BY <1>3 DEF Bad
<1>6. x - 1 \in 0..n /\ x - 1 < x
  BY <1>5
<1>7. x - 1 \in Good
  BY <1>3, <1>6 DEF Bad
<1> QED BY <1>5, <1>7

\* Of some positions of a list, the last.
LEMMA LastOf ==
  ASSUME NEW n \in Nat, NEW S, S \subseteq 1..n, S # {}
  PROVE  Max(S) \in S
<1> DEFINE T == {k \in 0..n : n - k \in S}
<1>1. T \subseteq Nat
  OBVIOUS
<1>2. PICK y : y \in S
  OBVIOUS
<1>3. n - y \in T
  BY <1>2
<1> HIDE DEF T
<1>4. PICK k \in T : \A j \in T : k <= j
  BY <1>1, <1>3, LeastNat
<1>5. k \in 0..n /\ n - k \in S
  BY <1>4 DEF T
<1>6. ASSUME NEW z \in S PROVE n - k >= z
  <2>1. z \in 1..n /\ n - z \in T
    BY DEF T
  <2> QED BY <1>4, <1>5, <2>1
<1>7. \E x \in S : \A z \in S : x >= z
  BY <1>5, <1>6
<1> QED BY <1>7 DEF Max

\* The members of a set of positions in order: all of them, each once.
LEMMA Ordered ==
  ASSUME NEW n \in Nat, NEW S, S \subseteq 1..n
  PROVE  /\ Cardinality(S) \in Nat
         /\ InOrder(S) \in [1..Cardinality(S) -> S]
         /\ \A i \in S : \E k \in 1..Cardinality(S) : InOrder(S)[k] = i
         /\ \A j, k \in 1..Cardinality(S) : InOrder(S)[j] = InOrder(S)[k] => j = k
<1> DEFINE at(i) == Cardinality({j \in S : j <= i})
           place == [i \in S |-> at(i)]
           c == Cardinality(S)
<1>1. IsFiniteSet(S) /\ c \in Nat
  <2>1. IsFiniteSet(1..n)
    BY FS_Interval
  <2>2. IsFiniteSet(S)
    BY <2>1, FS_Subset
  <2> QED BY <2>2, FS_CardinalityType
<1>2. ASSUME NEW i \in S PROVE at(i) \in 1..c
  <2>1. PICK B : B = {j \in S : j <= i}
    OBVIOUS
  <2>2. B \subseteq S /\ i \in B
    BY <2>1
  <2>3. IsFiniteSet(B) /\ Cardinality(B) <= c
    BY <1>1, <2>2, FS_Subset
  <2>4. Cardinality(B) \in Nat /\ Cardinality(B) # 0
    BY <2>2, <2>3, FS_CardinalityType, FS_EmptySet
  <2> QED BY <1>1, <2>1, <2>3, <2>4
<1>3. ASSUME NEW i \in S, NEW j \in S, i < j PROVE at(i) # at(j)
  <2>1. PICK A, B : A = {k \in S : k <= i} /\ B = {k \in S : k <= j}
    OBVIOUS
  <2>2. i \in 1..n /\ j \in 1..n /\ \A k \in S : k \in 1..n
    OBVIOUS
  <2> HIDE DEF at, place, c
  <2>6. i \in Int /\ j \in Int /\ \A k \in S : k \in Int
    BY <2>2
  <2>7. B \subseteq S /\ j \in B /\ j \notin A
    BY <1>3, <2>1, <2>6
  <2>8. \A k \in S : k <= i => k <= j
    BY <1>3, <2>6
  <2>3. A \subseteq B /\ B \subseteq S /\ j \in B /\ j \notin A
    BY <2>1, <2>7, <2>8
  <2>4. IsFiniteSet(B)
    BY <1>1, <2>3, FS_Subset DEF c
  <2>5. Cardinality(A) # Cardinality(B)
    <3>1. A # B
      BY <2>3
    <3> QED BY <2>3, <2>4, <3>1, FS_Subset
  <2> QED BY <2>1, <2>5 DEF at
<1>4. \A i, j \in S : at(i) = at(j) => i = j
  <2> SUFFICES ASSUME NEW i \in S, NEW j \in S, at(i) = at(j), i # j PROVE FALSE
    OBVIOUS
  <2>1. i \in 1..n /\ j \in 1..n
    OBVIOUS
  <2>2. i < j \/ j < i
    BY <2>1
  <2> HIDE DEF at
  <2> QED BY <1>3, <2>2
<1>5. InOrder(S) = [k \in 1..c |-> CHOOSE i \in S : at(i) = k]
  BY DEF InOrder
<1> HIDE DEF at
<1>6. place \in Injection(S, 1..c)
  BY <1>2, <1>4 DEF Injection, IsInjective
<1>7. IsFiniteSet(1..c) /\ Cardinality(1..c) = c
  BY <1>1, FS_Interval, SMTT(30)
<1> HIDE DEF c
<1>8. place \in Surjection(S, 1..c)
  <2>1. Cardinality(1..c) = Cardinality(S)
    BY <1>7 DEF c
  <2> HIDE DEF place
  <2> QED BY <1>1, <1>6, <1>7, <2>1, FS_Injection
<1>9. \A k \in 1..c : \E i \in S : at(i) = k
  BY <1>8 DEF Surjection
<1>10. \A k \in 1..c : InOrder(S)[k] \in S /\ at(InOrder(S)[k]) = k
  BY <1>5, <1>9
<1>11. InOrder(S) \in [1..c -> S]
  BY <1>5, <1>10
<1>12. ASSUME NEW i \in S PROVE \E k \in 1..c : InOrder(S)[k] = i
  <2>1. at(i) \in 1..c
    BY <1>2
  <2> QED BY <1>4, <1>10, <2>1
<1>13. \A j, k \in 1..c : InOrder(S)[j] = InOrder(S)[k] => j = k
  BY <1>10
<1> QED BY <1>1, <1>11, <1>12, <1>13 DEF c

IsSeq(x) == \E S : x \in Seq(S)

\* Sequences joined.
LEMMA JoinSeq ==
  ASSUME NEW x, NEW y, IsSeq(x), IsSeq(y)
  PROVE  /\ IsSeq(x \o y) /\ Len(x) \in Nat /\ Len(y) \in Nat
         /\ Len(x \o y) = Len(x) + Len(y)
<1>1. PICK S : x \in Seq(S)
  BY DEF IsSeq
<1>2. PICK T : y \in Seq(T)
  BY DEF IsSeq
<1>3. PICK U : U = S \union T
  OBVIOUS
<1>4. x \in Seq(U) /\ y \in Seq(U)
  <2>1. /\ Len(x) \in Nat /\ x \in [1..Len(x) -> S]
        /\ Len(y) \in Nat /\ y \in [1..Len(y) -> T]
    BY <1>1, <1>2, LenProperties
  <2>2. x \in [1..Len(x) -> U] /\ y \in [1..Len(y) -> U]
    BY <1>3, <2>1
  <2> QED BY <2>1, <2>2, IsASeq
<1>5. x \o y \in Seq(U) /\ Len(x \o y) = Len(x) + Len(y) /\ Len(x) \in Nat /\ Len(y) \in Nat
  BY <1>4, ConcatProperties, LenProperties
<1> QED BY <1>5 DEF IsSeq

LEMMA OneSeq == ASSUME NEW x PROVE IsSeq(<<x>>) /\ IsSeq(<<>>)
<1>1. <<x>> \in Seq({x}) /\ <<>> \in Seq({x})
  OBVIOUS
<1> QED BY <1>1 DEF IsSeq

\* The n-th name tried is the new one with n - 1 parts more.
LEMMA NthIs ==
  ASSUME NEW new, IsSeq(new), NEW m \in Nat \ {0}
  PROVE  IsSeq(Nth(new, m)) /\ Len(new) \in Nat /\ Len(Nth(new, m)) = Len(new) + (m - 1)
<1> DEFINE t == [k \in 1..(m - 1) |-> Digit(k + 1)]
<1>1. PICK n : n = m - 1 /\ n \in Nat
  OBVIOUS
<1>2. t = [k \in 1..n |-> Digit(k + 1)]
  BY <1>1
<1>3. PICK D : D = {Digit(k + 1) : k \in 1..n}
  OBVIOUS
<1>4. t \in [1..n -> D]
  BY <1>2, <1>3
<1> HIDE DEF t
<1>5. t \in Seq(D) /\ Len(t) = n
  <2>1. t \in Seq(D)
    BY <1>1, <1>4, IsASeq
  <2>2. DOMAIN t = 1..Len(t) /\ Len(t) \in Nat /\ DOMAIN t = 1..n
    BY <1>4, <2>1, LenProperties
  <2> QED BY <1>1, <2>1, <2>2
<1>6. IsSeq(t)
  BY <1>5 DEF IsSeq
<1>7. Nth(new, m) = new \o t
  BY DEF Nth, t
<1> QED BY <1>1, <1>5, <1>6, <1>7, JoinSeq

\* There is always a name nobody has: of one more name than there are taken,
\* one is free.
LEMMA FreeName ==
  ASSUME NEW taken, IsFiniteSet(taken), NEW new, IsSeq(new)
  PROVE  /\ Nth(new, FirstFree(taken, new)) \notin taken
         /\ IsSeq(Nth(new, FirstFree(taken, new)))
<1> DEFINE c == Cardinality(taken)
           f == [m \in 1..(c + 1) |-> Nth(new, m)]
           Free == {m \in 1..(c + 1) : Nth(new, m) \notin taken}
<1>1. c \in Nat
  BY FS_CardinalityType
<1>2. \A j, k \in 1..(c + 1) : Nth(new, j) = Nth(new, k) => j = k
  <2> SUFFICES ASSUME NEW j \in 1..(c + 1), NEW k \in 1..(c + 1), Nth(new, j) = Nth(new, k)
               PROVE  j = k
    OBVIOUS
  <2>1. j \in Nat \ {0} /\ k \in Nat \ {0}
    BY <1>1
  <2>2. Len(new) \in Nat /\ Len(Nth(new, j)) = Len(new) + (j - 1) /\ Len(Nth(new, k)) = Len(new) + (k - 1)
    BY <2>1, NthIs
  <2> QED BY <2>1, <2>2
<1>3. Free # {}
  <2> SUFFICES ASSUME Free = {} PROVE FALSE
    OBVIOUS
  <2> HIDE DEF c
  <2>1. \A m \in 1..(c + 1) : Nth(new, m) \in taken
    OBVIOUS
  <2>2. f \in Injection(1..(c + 1), taken)
    BY <1>2, <2>1 DEF Injection, IsInjective
  <2>3. IsFiniteSet(1..(c + 1)) /\ Cardinality(1..(c + 1)) = c + 1
    BY <1>1, FS_Interval, SMTT(30)
  <2> HIDE DEF f, Free
  <2>4. Cardinality(1..(c + 1)) <= Cardinality(taken)
    BY <2>2, <2>3, FS_Injection
  <2> QED BY <1>1, <2>3, <2>4 DEF c
<1>4. PICK m \in Free : \A k \in Free : m <= k
  <2>1. Free \subseteq Nat
    BY <1>1
  <2> HIDE DEF Free
  <2> QED BY <1>3, <2>1, LeastNat
<1>5. m \in 1..(c + 1) /\ Nth(new, m) \notin taken /\ \A k \in 1..(m - 1) : Nth(new, k) \in taken
  <2>1. m \in 1..(c + 1) /\ Nth(new, m) \notin taken
    OBVIOUS
  <2>2. ASSUME NEW k \in 1..(m - 1) PROVE Nth(new, k) \in taken
    <3>1. k \in 1..(c + 1) /\ ~(m <= k)
      BY <1>1, <2>1
    <3> QED BY <1>4, <3>1
  <2> QED BY <2>1, <2>2
<1>6. FirstFree(taken, new) \in 1..(c + 1) /\ Nth(new, FirstFree(taken, new)) \notin taken
  <2>1. FirstFree(taken, new) =
          CHOOSE j \in 1..(c + 1) : Nth(new, j) \notin taken /\ \A k \in 1..(j - 1) : Nth(new, k) \in taken
    BY Zenon DEF FirstFree
  <2> HIDE DEF c
  <2> QED BY <1>5, <2>1, Zenon
<1>7. FirstFree(taken, new) \in Nat \ {0}
  BY <1>1, <1>6
<1> QED BY <1>6, <1>7, NthIs

\* The pass, unfolded: a state after each position.
LEMMA PassSteps ==
  ASSUME NEW start, NEW news, NEW n \in Nat
  PROVE  \E w : /\ w[0] = start
                /\ \A k \in 1..n : w[k] = IF k \in DOMAIN news THEN Renamed(w[k - 1], k, news[k]) ELSE w[k - 1]
                /\ RenamePass(start, news, n) = w[n]
<1> DEFINE step(a, k) == IF k \in DOMAIN news THEN Renamed(a, k, news[k]) ELSE a
           Is(g, m) == g = [k \in 0..m |-> IF k = 0 THEN start ELSE step(g[k - 1], k)]
           Good == {m \in 0..n : \E g : Is(g, m)}
<1> HIDE DEF step
<1>1. 0 \in Good
  <2> DEFINE g == [k \in 0..0 |-> start]
  <2>1. g = [k \in 0..0 |-> IF k = 0 THEN start ELSE step(g[k - 1], k)]
    OBVIOUS
  <2>2. Is(g, 0) /\ 0 \in 0..n
    BY <2>1
  <2> HIDE DEF g, Is
  <2> QED BY <2>2
<1>2. ASSUME NEW m \in 1..n, m - 1 \in Good PROVE m \in Good
  <2>1. PICK g : Is(g, m - 1)
    BY <1>2
  <2> DEFINE h == [k \in 0..m |-> IF k = m THEN step(g[m - 1], m) ELSE g[k]]
  <2>2. ASSUME NEW k \in 0..m PROVE h[k] = IF k = 0 THEN start ELSE step(h[k - 1], k)
    <3>1. CASE k = m
      <4>1. h[k - 1] = g[m - 1] /\ k # 0
        BY <3>1
      <4> QED BY <3>1, <4>1
    <3>2. CASE k # m /\ k # 0
      <4>1. k \in 0..(m - 1) /\ k - 1 \in 0..m /\ k - 1 # m
        BY <3>2
      <4>2. g[k] = step(g[k - 1], k)
        BY <2>1, <3>2, <4>1
      <4>3. h[k] = g[k] /\ h[k - 1] = g[k - 1]
        BY <3>2, <4>1
      <4> QED BY <3>2, <4>2, <4>3
    <3>3. CASE k = 0
      <4>1. 0 \in 0..(m - 1) /\ k # m
        BY <3>3
      <4>2. g[0] = start
        BY <2>1, <4>1
      <4> QED BY <3>3, <4>1, <4>2
    <3> QED BY <3>1, <3>2, <3>3
  <2>3. Is(h, m)
    <3> HIDE DEF h
    <3>1. h = [k \in 0..m |-> h[k]]
      BY DEF h
    <3> QED BY <2>2, <3>1
  <2> HIDE DEF Is
  <2> QED BY <2>3
<1>3. n \in Good
  <2>1. n \in 0..n
    OBVIOUS
  <2> HIDE DEF Good
  <2> QED BY <1>1, <1>2, <2>1, UpTo
<1> DEFINE w == CHOOSE g : Is(g, n)
<1>4. Is(w, n)
  <2>1. \E g : Is(g, n)
    BY <1>3
  <2> HIDE DEF Is
  <2> QED BY <2>1
<1>5. RenamePass(start, news, n) = w[n]
  BY Zenon DEF RenamePass, step
<1> HIDE DEF w
<1>6. w[0] = start /\ \A k \in 1..n : w[k] = step(w[k - 1], k)
  BY <1>4
<1> QED BY <1>5, <1>6 DEF step

-----------------------------------------------------------------------------
(* The export. *)

\* The values of a function on a finite set are finitely many.
LEMMA ImageFinite ==
  ASSUME NEW S, IsFiniteSet(S), NEW f
  PROVE  IsFiniteSet({f[x] : x \in S})
<1> DEFINE T == {f[x] : x \in S}
           g == [x \in S |-> f[x]]
<1>1. g \in Surjection(S, T)
  BY DEF Surjection
<1> HIDE DEF g, T
<1>2. IsFiniteSet(T)
  BY <1>1, FS_Surjection
<1> QED BY <1>2 DEF T

\* What the pass has made of the ids after k positions.
Past(a, ids, held, news, k) ==
  /\ DOMAIN a.ids = DOMAIN ids /\ IsFiniteSet(a.taken) /\ held \subseteq a.taken
  /\ \A i \in DOMAIN ids :
       /\ ids[i] \in a.taken /\ a.ids[i] \in a.taken /\ IsSeq(a.ids[i])
       /\ i \notin DOMAIN news \/ k < i => a.ids[i] = ids[i]
       /\ i \in DOMAIN news /\ i <= k => a.ids[i] \notin held
  /\ IsInjective(ids) => IsInjective(a.ids)

\* One renaming of the pass.
LEMMA RenamedKeeps ==
  ASSUME NEW n \in Nat, NEW ids, DOMAIN ids = 1..n, NEW held, NEW news,
         NEW k \in 1..n, k \in DOMAIN news, IsSeq(news[k]),
         NEW a, Past(a, ids, held, news, k - 1)
  PROVE  Past(Renamed(a, k, news[k]), ids, held, news, k)
<1> DEFINE name == Nth(news[k], FirstFree(a.taken, news[k]))
           b == Renamed(a, k, news[k])
<1>1. DOMAIN a.ids = DOMAIN ids /\ IsFiniteSet(a.taken) /\ held \subseteq a.taken
  BY DEF Past
<1>2. name \notin a.taken /\ IsSeq(name)
  BY <1>1, FreeName
<1>3. b = [ids |-> [a.ids EXCEPT ![k] = name], taken |-> a.taken \union {name}]
  BY DEF Renamed
<1> HIDE DEF name, b
<1>4. b.ids = [a.ids EXCEPT ![k] = name] /\ b.taken = a.taken \union {name}
  BY <1>3
<1>5. DOMAIN b.ids = DOMAIN ids /\ held \subseteq b.taken
  BY <1>1, <1>4
<1>6. IsFiniteSet(b.taken)
  <2>1. PICK T : T = a.taken /\ IsFiniteSet(T)
    BY <1>1
  <2>2. IsFiniteSet(T \union {name})
    BY <2>1, FS_AddElement
  <2> QED BY <1>4, <2>1, <2>2, Zenon
<1>7. \A i \in DOMAIN ids : b.ids[i] = IF i = k THEN name ELSE a.ids[i]
  BY <1>1, <1>4
<1>8. ASSUME NEW i \in DOMAIN ids
      PROVE  /\ ids[i] \in b.taken /\ b.ids[i] \in b.taken /\ IsSeq(b.ids[i])
             /\ i \notin DOMAIN news \/ k < i => b.ids[i] = ids[i]
             /\ i \in DOMAIN news /\ i <= k => b.ids[i] \notin held
  <2>1. /\ ids[i] \in a.taken /\ a.ids[i] \in a.taken /\ IsSeq(a.ids[i])
        /\ i \notin DOMAIN news \/ k - 1 < i => a.ids[i] = ids[i]
        /\ i \in DOMAIN news /\ i <= k - 1 => a.ids[i] \notin held
    BY DEF Past
  <2>2. i \in 1..n
    OBVIOUS
  <2>3. CASE i = k
    BY <1>1, <1>2, <1>4, <1>7, <2>1, <2>3
  <2>4. CASE i # k
    <3>1. (k < i => k - 1 < i) /\ (i <= k => i <= k - 1)
      BY <2>2, <2>4
    <3> QED BY <1>4, <1>7, <2>1, <2>4, <3>1
  <2> QED BY <2>3, <2>4
<1>9. IsInjective(ids) => IsInjective(b.ids)
  <2> SUFFICES ASSUME IsInjective(a.ids), NEW i \in DOMAIN ids, NEW j \in DOMAIN ids, b.ids[i] = b.ids[j]
               PROVE  i = j
    BY <1>5 DEF IsInjective, Past
  <2>1. a.ids[i] \in a.taken /\ a.ids[j] \in a.taken
    BY DEF Past
  <2> QED BY <1>1, <1>2, <1>7, <2>1 DEF IsInjective
<1>10. Past(b, ids, held, news, k)
  BY <1>5, <1>6, <1>8, <1>9 DEF Past
<1> QED BY <1>10 DEF b

\* The ids after the pass: the clashing ones are nobody's, the others stay, and
\* ids that were different are.
LEMMA PassNames ==
  ASSUME NEW n \in Nat, NEW ids, DOMAIN ids = 1..n, \A i \in 1..n : IsSeq(ids[i]),
         NEW held, IsFiniteSet(held),
         NEW news, DOMAIN news \subseteq 1..n, \A i \in DOMAIN news : IsSeq(news[i])
  PROVE  LET out == RenamePass([ids |-> ids, taken |-> held \union Range(ids)], news, n).ids
         IN  /\ DOMAIN out = 1..n
             /\ \A i \in 1..n : IsSeq(out[i])
             /\ \A i \in 1..n : i \notin DOMAIN news => out[i] = ids[i]
             /\ \A i \in DOMAIN news : out[i] \notin held
             /\ IsInjective(ids) => IsInjective(out)
<1> DEFINE start == [ids |-> ids, taken |-> held \union Range(ids)]
<1>1. PICK w : /\ w[0] = start
               /\ \A k \in 1..n : w[k] = IF k \in DOMAIN news THEN Renamed(w[k - 1], k, news[k]) ELSE w[k - 1]
               /\ RenamePass(start, news, n) = w[n]
  <2> HIDE DEF start
  <2> QED BY PassSteps
<1> DEFINE Good == {k \in 0..n : Past(w[k], ids, held, news, k)}
<1>2. Past(start, ids, held, news, 0)
  <2>1. PICK R : R = {ids[i] : i \in 1..n}
    OBVIOUS
  <2>2. Range(ids) = R
    BY <2>1 DEF Range
  <2>3. IsFiniteSet(1..n)
    BY FS_Interval
  <2>4. IsFiniteSet(R)
    BY <2>1, <2>3, ImageFinite
  <2>5. IsFiniteSet(held \union Range(ids))
    BY <2>2, <2>4, FS_Union
  <2>6. start.ids = ids /\ start.taken = held \union Range(ids)
    OBVIOUS
  <2> HIDE DEF start
  <2>7. \A i \in DOMAIN ids : ids[i] \in start.taken
    BY <2>1, <2>2, <2>6
  <2> QED BY <2>5, <2>6, <2>7 DEF Past
<1>3. 0 \in Good
  BY <1>1, <1>2
<1>4. ASSUME NEW k \in 1..n, k - 1 \in Good PROVE k \in Good
  <2>1. PICK a, b : a = w[k - 1] /\ b = w[k]
    OBVIOUS
  <2>2. Past(a, ids, held, news, k - 1) /\ k \in 0..n
    BY <1>4, <2>1
  <2>3. CASE k \in DOMAIN news
    <3>1. b = Renamed(a, k, news[k])
      BY <1>1, <2>1, <2>3
    <3>2. Past(b, ids, held, news, k)
      BY <2>2, <2>3, <3>1, RenamedKeeps
    <3> QED BY <2>1, <2>2, <3>2
  <2>4. CASE k \notin DOMAIN news
    <3>1. b = a
      BY <1>1, <2>1, <2>4
    <3>2. \A i \in DOMAIN ids : /\ k < i => k - 1 < i
                                /\ i \in DOMAIN news /\ i <= k => i <= k - 1
      BY <2>4
    <3>3. Past(b, ids, held, news, k)
      BY <2>2, <3>1, <3>2 DEF Past
    <3> QED BY <2>1, <2>2, <3>3
  <2> QED BY <2>3, <2>4
<1>5. n \in Good
  <2>1. n \in 0..n
    OBVIOUS
  <2> HIDE DEF Good
  <2> QED BY <1>3, <1>4, <2>1, UpTo
<1>6. PICK a : a = w[n]
  OBVIOUS
<1>7. Past(a, ids, held, news, n)
  BY <1>5, <1>6
<1>8. RenamePass(start, news, n).ids = a.ids
  BY <1>1, <1>6
<1> HIDE DEF start
<1>9. /\ DOMAIN a.ids = 1..n
      /\ \A i \in 1..n : IsSeq(a.ids[i])
      /\ \A i \in 1..n : i \notin DOMAIN news => a.ids[i] = ids[i]
      /\ \A i \in DOMAIN news : a.ids[i] \notin held
      /\ IsInjective(ids) => IsInjective(a.ids)
  BY <1>7 DEF Past
<1> QED BY <1>8, <1>9 DEF start

\* What an export may find of the catalog.
ReadOK(e) ==
  /\ IsFiniteSet(DOMAIN e.variants)
  /\ \A v \in DOMAIN e.variants : /\ IsSeq(v) /\ e.variants[v].version \in Nat
                                  /\ e.variants[v].document \in Docs \union {None}

\* A twin is a published variant that was read.
LEMMA TwinIs ==
  ASSUME NEW doc, NEW e, NEW exclude, published_twin(doc, e, exclude) # <<>>
  PROVE  LET t == published_twin(doc, e, exclude) IN
         t \in DOMAIN e.variants /\ t \notin exclude /\ e.variants[t].document # None
<1> DEFINE Read == {v \in DOMAIN e.variants \ exclude : e.variants[v].document # None}
           Far(v) == Cardinality(differs(doc, e.variants[v].document))
           Near == {v \in Read : Far(v) <= TwinMax}
           F == {Far(v) : v \in Near}
           t == published_twin(doc, e, exclude)
<1>1. t = IF Near = {} THEN <<>> ELSE CHOOSE v \in Near : \A w \in Near : Far(v) <= Far(w)
  BY Zenon DEF published_twin
<1>2. ASSUME NEW v PROVE Far(v) \in Nat
  <2>1. PICK D, d : D = {"image", "flag", "env"} /\ d = differs(doc, e.variants[v].document)
    OBVIOUS
  <2>2. d \subseteq D
    BY <2>1 DEF differs
  <2>3. IsFiniteSet({}) /\ IsFiniteSet({} \union {"image"}) /\ IsFiniteSet(({} \union {"image"}) \union {"flag"})
    BY FS_EmptySet, FS_AddElement, Zenon
  <2>4. IsFiniteSet((({} \union {"image"}) \union {"flag"}) \union {"env"})
    BY <2>3, FS_AddElement, Zenon
  <2>5. (({} \union {"image"}) \union {"flag"}) \union {"env"} = D
    BY <2>1
  <2>6. IsFiniteSet(d)
    BY <2>2, <2>4, <2>5, FS_Subset
  <2> QED BY <2>1, <2>6, FS_CardinalityType
<1>3. Near # {}
  BY <1>1
<1> HIDE DEF Far, t
<1>4. F \subseteq Nat /\ F # {}
  BY <1>2, <1>3
<1> HIDE DEF F, Near
<1>5. PICK x \in F : \A y \in F : x <= y
  BY <1>4, LeastNat
<1>6. \E v \in Near : \A w \in Near : Far(v) <= Far(w)
  BY <1>5 DEF F
<1>7. t \in Near
  BY <1>1, <1>3, <1>6, Zenon
<1> QED BY <1>7 DEF Near, t

\* _own_lineage: no derived id is one the catalog publishes for another deployment.
LEMMA LineageIs ==
  ASSUME NEW sources \in Seq(Sources), NEW ids, DOMAIN ids = DOMAIN sources,
         \A i \in DOMAIN sources : IsSeq(ids[i]), NEW docs, NEW e, ReadOK(e)
  PROVE  LET out == own_lineage(ids, docs, sources, e) IN
         /\ DOMAIN out = DOMAIN sources /\ \A i \in DOMAIN sources : IsSeq(out[i])
         /\ IsInjective(ids) => IsInjective(out)
         /\ \A i \in DOMAIN sources :
              /\ sources[i].id = <<>>
              /\ out[i] \in DOMAIN e.variants /\ e.variants[out[i]].document # None
              => e.variants[out[i]].document.image = docs[i].image
<1> DEFINE Clash == {i \in DOMAIN ids :
                       /\ sources[i].id = <<>>
                       /\ ids[i] \in DOMAIN e.variants
                       /\ e.variants[ids[i]].document # None
                       /\ e.variants[ids[i]].document.image # docs[i].image}
           Base == {i \in DOMAIN sources : sources[i].role = "baseline"}
           twin == published_twin(docs[Min(Base)], e, {ids[i] : i \in Clash})
           lineage == IF Base = {} THEN <<>> ELSE twin
           Stem(i) == IF lineage # <<>> THEN lineage ELSE <<"shape", ToString(docs[i].image)>>
           Suffix(i) == IF sources[i].role = "" THEN <<>> ELSE <<sources[i].role>>
           news == [i \in Clash |-> Stem(i) \o Suffix(i)]
           held == DOMAIN e.variants
           n == Len(sources)
           out == RenamePass([ids |-> ids, taken |-> held \union Range(ids)], news, n).ids
<1>1. own_lineage(ids, docs, sources, e) = out
  BY Zenon DEF own_lineage
<1>2. n \in Nat /\ DOMAIN sources = 1..n
  BY LenProperties
<1>3. ASSUME NEW i \in Clash PROVE IsSeq(Stem(i) \o Suffix(i))
  <2>1. IsSeq(Suffix(i))
    BY OneSeq, Zenon
  <2>2. lineage # <<>> => IsSeq(lineage)
    <3>1. lineage # <<>> => twin # <<>> /\ lineage = twin
      BY Zenon
    <3>2. twin # <<>> => twin \in DOMAIN e.variants
      BY TwinIs, Zenon
    <3> HIDE DEF twin, lineage
    <3> QED BY <3>1, <3>2, Zenon DEF ReadOK
  <2>3. ASSUME NEW x PROVE IsSeq(<<"shape", x>>)
    <3>1. <<"shape", x>> \in Seq({"shape", x})
      OBVIOUS
    <3> QED BY <3>1, Zenon DEF IsSeq
  <2> HIDE DEF lineage, Suffix
  <2>4. IsSeq(Stem(i))
    BY <2>2, <2>3, Zenon
  <2> HIDE DEF Stem
  <2> QED BY <2>1, <2>4, JoinSeq
<1> HIDE DEF Stem, Suffix, lineage
<1>4. DOMAIN news = Clash /\ \A i \in DOMAIN news : IsSeq(news[i])
  BY <1>3
<1>5. Clash \subseteq 1..n
  BY <1>2
<1>6. IsFiniteSet(held) /\ \A i \in 1..n : IsSeq(ids[i])
  BY <1>2 DEF ReadOK
<1> HIDE DEF Clash, news, n, held
<1>7. /\ DOMAIN out = 1..n
      /\ \A i \in 1..n : IsSeq(out[i])
      /\ \A i \in 1..n : i \notin DOMAIN news => out[i] = ids[i]
      /\ \A i \in DOMAIN news : out[i] \notin held
      /\ IsInjective(ids) => IsInjective(out)
  BY <1>2, <1>4, <1>5, <1>6, PassNames
<1> HIDE DEF out
<1>8. ASSUME NEW i \in DOMAIN sources, sources[i].id = <<>>,
             out[i] \in DOMAIN e.variants, e.variants[out[i]].document # None
      PROVE  e.variants[out[i]].document.image = docs[i].image
  <2>1. i \notin Clash
    BY <1>4, <1>7, <1>8 DEF held
  <2>2. out[i] = ids[i]
    BY <1>2, <1>4, <1>7, <2>1
  <2> QED BY <1>8, <2>1, <2>2 DEF Clash
<1> QED BY <1>1, <1>2, <1>7, <1>8

LEMMA SourceIs ==
  ASSUME NEW sources \in Seq(Sources), NEW i \in DOMAIN sources
  PROVE  LET s == sources[i] IN
         /\ s.role \in Roles /\ s.image \in Images /\ s.flag \in Flags
         /\ s.recipe \in BOOLEAN /\ s.measured \in BOOLEAN /\ s.id \in Seq(STRING)
<1>1. sources[i] \in Sources
  OBVIOUS
<1> QED BY <1>1 DEF Sources

\* An exported document, before its version is set.
LEMMA DocIs ==
  ASSUME NEW sources \in Seq(Sources), NEW i \in DOMAIN sources
  PROVE  LET d == variant_of(sources[i], sources) IN d \in Docs /\ d.version = 0
<1> DEFINE s == sources[i]
           words == describe(s, sources)
<1>1. s.role \in Roles /\ s.image \in Images /\ s.flag \in Flags
  BY SourceIs
<1>2. words \in Roles \union {"gain"}
  BY <1>1 DEF describe
<1>3. EnvKept \in BOOLEAN /\ TRUE \in BOOLEAN /\ 0 \in Nat
  BY DEF EnvKept
<1> HIDE DEF words, s
<1>4. ASSUME NEW env \in BOOLEAN
      PROVE  [image |-> s.image, flag |-> s.flag, env |-> env, words |-> words, version |-> 0] \in Docs
  BY <1>1, <1>2 DEF Docs
<1>5. \/ variant_of(s, sources) =
           [image |-> s.image, flag |-> s.flag, env |-> TRUE, words |-> words, version |-> 0]
      \/ variant_of(s, sources) =
           [image |-> s.image, flag |-> s.flag, env |-> EnvKept, words |-> words, version |-> 0]
  BY Zenon DEF variant_of, variant_from_recipe, words
<1>6. variant_of(s, sources) \in Docs
  BY <1>3, <1>4, <1>5, Zenon
<1>7. variant_of(s, sources).version = 0
  <2> HIDE DEF EnvKept
  <2>1. ASSUME NEW env, NEW a, NEW f, NEW w
        PROVE [image |-> a, flag |-> f, env |-> env, words |-> w, version |-> 0].version = 0
    OBVIOUS
  <2> QED BY <1>5, <2>1, Zenon
<1> QED BY <1>6, <1>7 DEF s

LEMMA NumberedIs ==
  ASSUME NEW sources \in Seq(Sources)
  PROVE  LET ids == NumberedIds(sources) IN
         DOMAIN ids = DOMAIN sources /\ \A i \in DOMAIN sources : IsSeq(ids[i])
<1>1. ASSUME NEW i \in DOMAIN sources PROVE IsSeq(NumberedIds(sources)[i])
  <2> DEFINE id == variant_id(sources[i])
             n == Cardinality({j \in 1..i : variant_id(sources[j]) = id})
  <2>1. NumberedIds(sources)[i] = IF n > 1 THEN Append(id, Digit(n)) ELSE id
    BY DEF NumberedIds
  <2>2. PICK S : id \in Seq(S)
    <3>1. sources[i].id \in Seq(STRING)
      BY SourceIs
    <3>2. <<"shape">> \in Seq({"shape", sources[i].role}) /\ <<"shape", sources[i].role>> \in Seq({"shape", sources[i].role})
      OBVIOUS
    <3>3. id \in Seq(STRING) \/ id \in Seq({"shape", sources[i].role})
      BY <3>1, <3>2, Zenon DEF variant_id
    <3> QED BY <3>3
  <2> HIDE DEF id, n
  <2>3. IsSeq(id)
    BY <2>2 DEF IsSeq
  <2>4. IsSeq(Append(id, Digit(n)))
    <3>1. PICK x, T : x = Digit(n) /\ T = S \union {x}
      OBVIOUS
    <3>2. id \in Seq(T) /\ x \in T
      BY <2>2, <3>1, WiderList
    <3>3. Append(id, x) \in Seq(T)
      BY <3>2
    <3> QED BY <3>1, <3>3 DEF IsSeq
  <2> QED BY <2>1, <2>3, <2>4
<1>2. DOMAIN NumberedIds(sources) = DOMAIN sources
  BY Zenon DEF NumberedIds
<1> QED BY <1>1, <1>2

\* One file of an export, and how it stands to what is published.
LEMMA ExportedForms ==
  ASSUME NEW s, NEW id, NEW doc \in Docs, doc.version = 0, NEW e, ReadOK(e)
  PROVE  LET x == exported_variant(s, id, doc, e) IN
         /\ x.document \in Docs
         /\ x.chosen = (s.id # <<>>)
         /\ x.status = "unchanged" => x.id \in DOMAIN e.variants
         /\ x.status # "unchanged" =>
              /\ x.id = id /\ x.document.image = doc.image
              /\ id \notin DOMAIN e.variants => x.document.version = 0
              /\ id \in DOMAIN e.variants => x.document.version = e.variants[id].version + 1
<1> DEFINE Out1(i, d, st) == [id |-> i, document |-> d, status |-> st, role |-> s.role,
                             chosen |-> s.id # <<>>]
           twin == IF s.recipe THEN published_twin(doc, e, {}) ELSE <<>>
           version == e.variants[id].version
           x == exported_variant(s, id, doc, e)
<1>1. \/ /\ twin # <<>> /\ differs(doc, e.variants[twin].document) = {}
         /\ x = Out1(twin, e.variants[twin].document, "unchanged")
      \/ id \notin DOMAIN e.variants /\ x = Out1(id, doc, "new")
      \/ /\ id \in DOMAIN e.variants
         /\ \/ x = Out1(id, [doc EXCEPT !.version = version], "unchanged")
            \/ x = Out1(id, [doc EXCEPT !.version = bump_minor(version)], "updated")
  BY Zenon DEF exported_variant
<1>2. ASSUME NEW i, NEW d, NEW st, x = Out1(i, d, st)
      PROVE  x.id = i /\ x.document = d /\ x.status = st /\ x.chosen = (s.id # <<>>)
  <2> HIDE DEF x
  <2> QED BY <1>2
<1>3. ASSUME NEW v \in Nat
      PROVE  LET d == [doc EXCEPT !.version = v] IN
             d \in Docs /\ d.image = doc.image /\ d.version = v
  BY DEF Docs
<1>4. id \in DOMAIN e.variants => version \in Nat
  BY DEF ReadOK
<1>5. twin # <<>> => twin \in DOMAIN e.variants /\ e.variants[twin].document \in Docs
  <2>1. twin # <<>> => twin = published_twin(doc, e, {})
    BY Zenon
  <2>2. twin # <<>> => twin \in DOMAIN e.variants /\ e.variants[twin].document # None
    BY <2>1, TwinIs, Zenon
  <2> HIDE DEF twin
  <2> QED BY <2>2, Zenon DEF ReadOK
<1> HIDE DEF Out1, twin, version, x
<1>6. CASE twin # <<>> /\ x = Out1(twin, e.variants[twin].document, "unchanged")
  <2>1. x.document \in Docs /\ x.chosen = (s.id # <<>>) /\ x.status = "unchanged" /\ x.id \in DOMAIN e.variants
    BY <1>2, <1>5, <1>6, Zenon
  <2> QED BY <2>1, Zenon DEF x
<1>7. CASE id \notin DOMAIN e.variants /\ x = Out1(id, doc, "new")
  <2>1. x.document = doc /\ x.chosen = (s.id # <<>>) /\ x.status = "new" /\ x.id = id
    BY <1>2, <1>7, Zenon
  <2> QED BY <1>7, <2>1 DEF x
<1>8. CASE id \in DOMAIN e.variants /\ x = Out1(id, [doc EXCEPT !.version = version], "unchanged")
  <2>1. x.document = [doc EXCEPT !.version = version] /\ x.chosen = (s.id # <<>>) /\ x.status = "unchanged" /\ x.id = id
    BY <1>2, <1>8, Zenon
  <2>2. x.document \in Docs
    BY <1>3, <1>4, <1>8, <2>1, Zenon
  <2> QED BY <1>8, <2>1, <2>2, Zenon DEF x
<1>9. CASE id \in DOMAIN e.variants /\ x = Out1(id, [doc EXCEPT !.version = bump_minor(version)], "updated")
  <2>1. x.document = [doc EXCEPT !.version = bump_minor(version)] /\ x.chosen = (s.id # <<>>) /\ x.status = "updated" /\ x.id = id
    BY <1>2, <1>9, Zenon
  <2>2. bump_minor(version) \in Nat /\ bump_minor(version) = version + 1
    BY <1>4, <1>9 DEF bump_minor
  <2>3. x.document \in Docs /\ x.document.image = doc.image /\ x.document.version = version + 1
    BY <1>3, <2>1, <2>2, Zenon
  <2> QED BY <1>9, <2>1, <2>3, Zenon DEF x, version
<1> QED BY <1>1, <1>6, <1>7, <1>8, <1>9, Zenon

ExportOK(x) ==
  /\ Len(x.files) \in Nat /\ DOMAIN x.files = 1..Len(x.files)
  /\ DOMAIN x.meta = {"default", "tuning"}
  /\ \A k \in DOMAIN x.files : x.files[k].document \in Docs /\ IsSeq(x.files[k].id)

\* How a file stands to what the export read: a new id, or the next version of
\* the same deployment, unless the id was chosen or the file not read.
Succeeds(f, x, e) ==
  /\ f.id \notin DOMAIN e.variants => f.document.version = 0
  /\ f.id \in DOMAIN e.variants =>
       /\ f.document.version = e.variants[f.id].version + 1
       /\ \/ \E i \in DOMAIN x.variants : x.variants[i].id = f.id /\ x.variants[i].chosen
          \/ ~e.model
          \/ e.variants[f.id].document = None
          \/ e.variants[f.id].document.image = f.document.image

DefaultKnown(x, known) ==
  LET d == x.meta.default IN
  d = <<>> \/ d \in known \/ \E k \in DOMAIN x.files : x.files[k].id = d

IdsDiffer(files) == \A j, k \in DOMAIN files : files[j].id = files[k].id => j = k

\* An export without errors has no default, a published one, or one of its own.
LEMMA MetadataIs ==
  ASSUME NEW b, NEW exported, NEW e, NEW report
  PROVE  LET m == metadata_of(b, exported, e, report) IN
         /\ DOMAIN m.meta = {"default", "tuning"}
         /\ m.errors = {} => \/ m.meta.default = <<>>
                             \/ m.meta.default \in DOMAIN e.variants
                             \/ \E i \in DOMAIN exported : exported[i].id = m.meta.default
<1> DEFINE meta    == e.meta
           tuning  == meta.tuning \union tuning_of(exported, report)
           covered == {t.optimized.id : t \in tuning}
           ids     == {exported[i].id : i \in DOMAIN exported} \union DOMAIN e.variants
           Tuned   == {i \in DOMAIN exported : exported[i].role = "optimized"}
           asked   == IF b.default # <<>> THEN b.default
                      ELSE IF meta.default # <<>> THEN meta.default
                      ELSE IF Tuned # {} THEN exported[Min(Tuned)].id ELSE <<>>
           taken   == meta.default # <<>> /\ asked # meta.default /\ asked \notin covered
           default == IF taken THEN meta.default ELSE asked
           Errors  == {x \in {"default", "default_unknown", "hf"} :
                         CASE x = "default"         -> taken
                           [] x = "default_unknown" -> default # <<>> /\ default \notin ids
                           [] x = "hf"              -> ~e.model /\ ~b.hf}
           m == metadata_of(b, exported, e, report)
<1>1. m = [meta |-> [default |-> default, tuning |-> tuning], errors |-> Errors]
  BY Zenon DEF metadata_of
<1> HIDE DEF default, tuning, taken
<1>2. Errors = {} => default = <<>> \/ default \in ids
  <2> SUFFICES ASSUME default # <<>>, default \notin ids PROVE "default_unknown" \in Errors
    OBVIOUS
  <2> HIDE DEF ids
  <2> QED OBVIOUS
<1> HIDE DEF Errors, m
<1>3. m.meta = [default |-> default, tuning |-> tuning] /\ m.errors = Errors
  BY <1>1
<1>4. m.meta.default = default /\ DOMAIN m.meta = {"default", "tuning"}
  BY <1>3
<1> QED BY <1>2, <1>3, <1>4 DEF m

\* What an export is: every file follows what was read, the ids differ when the
\* numbered ones do, and the default is known.
LEMMA BuildForms ==
  ASSUME NEW b, BodyOK(b), NEW e, ReadOK(e)
  PROVE  LET x == build_catalog_entry(b, e) IN
         /\ ExportOK(x)
         /\ \A k \in DOMAIN x.files : Succeeds(x.files[k], x, e)
         /\ IsInjective(NumberedIds(b.sources)) => IdsDiffer(x.files)
         /\ x.errors = {} => DefaultKnown(x, DOMAIN e.variants)
<1> DEFINE sources  == b.sources
           docs     == [i \in DOMAIN sources |-> variant_of(sources[i], sources)]
           numbered == NumberedIds(sources)
           lineage  == own_lineage(numbered, docs, sources, e)
           ids      == IF e.model THEN lineage ELSE numbered
           exported == [i \in DOMAIN sources |-> exported_variant(sources[i], ids[i], docs[i], e)]
           meta     == metadata_of(b, exported, e, WithReport(b))
           S        == {i \in DOMAIN exported : exported[i].status # "unchanged"}
           order    == InOrder(S)
           files    == [n \in DOMAIN order |-> exported[order[n]]]
           x        == build_catalog_entry(b, e)
<1>1. x = [variants |-> exported, files |-> files, meta |-> meta.meta,
           errors |-> meta.errors \union report_errors(b)]
  BY Zenon DEF build_catalog_entry
<1>2. sources \in Seq(Sources)
  BY DEF BodyOK
<1> HIDE DEF sources
<1>3. Len(sources) \in Nat /\ DOMAIN sources = 1..Len(sources)
  BY <1>2, LenProperties
<1>4. \A i \in DOMAIN sources : docs[i] \in Docs /\ docs[i].version = 0
  BY <1>2, DocIs
<1> HIDE DEF docs
<1>5. DOMAIN numbered = DOMAIN sources /\ \A i \in DOMAIN sources : IsSeq(numbered[i])
  BY <1>2, NumberedIs
<1> HIDE DEF numbered
<1>6. /\ DOMAIN lineage = DOMAIN sources /\ \A i \in DOMAIN sources : IsSeq(lineage[i])
      /\ IsInjective(numbered) => IsInjective(lineage)
      /\ \A i \in DOMAIN sources :
           /\ sources[i].id = <<>>
           /\ lineage[i] \in DOMAIN e.variants /\ e.variants[lineage[i]].document # None
           => e.variants[lineage[i]].document.image = docs[i].image
  BY <1>2, <1>5, LineageIs
<1> HIDE DEF lineage
<1>7. /\ DOMAIN ids = DOMAIN sources /\ \A i \in DOMAIN sources : IsSeq(ids[i])
      /\ IsInjective(numbered) => IsInjective(ids)
      /\ \A i \in DOMAIN sources :
           /\ e.model /\ sources[i].id = <<>>
           /\ ids[i] \in DOMAIN e.variants /\ e.variants[ids[i]].document # None
           => e.variants[ids[i]].document.image = docs[i].image
  BY <1>5, <1>6
<1> HIDE DEF ids
<1>8. ASSUME NEW i \in DOMAIN sources
      PROVE  LET v == exported[i] IN
         /\ v.document \in Docs
         /\ v.chosen = (sources[i].id # <<>>)
         /\ v.status = "unchanged" => v.id \in DOMAIN e.variants
         /\ v.status # "unchanged" =>
              /\ v.id = ids[i] /\ v.document.image = docs[i].image
              /\ ids[i] \notin DOMAIN e.variants => v.document.version = 0
              /\ ids[i] \in DOMAIN e.variants => v.document.version = e.variants[ids[i]].version + 1
  <2>1. PICK s, id, doc : s = sources[i] /\ id = ids[i] /\ doc = docs[i]
    OBVIOUS
  <2>2. exported[i] = exported_variant(s, id, doc, e)
    BY <2>1
  <2>3. doc \in Docs /\ doc.version = 0
    BY <1>4, <2>1
  <2> HIDE DEF exported
  <2> QED BY <2>1, <2>2, <2>3, ExportedForms
<1>9. DOMAIN exported = 1..Len(sources)
  BY <1>3
<1> HIDE DEF exported
<1>10. S \subseteq 1..Len(sources)
  BY <1>9
<1>11. \A i \in S : i \in DOMAIN sources /\ exported[i].status # "unchanged"
  BY <1>3, <1>9
<1>12. \A i \in DOMAIN exported : i \notin S => exported[i].status = "unchanged"
  OBVIOUS
<1> HIDE DEF S
<1>13. /\ Cardinality(S) \in Nat /\ order \in [1..Cardinality(S) -> S]
       /\ \A i \in S : \E k \in 1..Cardinality(S) : order[k] = i
       /\ \A j, k \in 1..Cardinality(S) : order[j] = order[k] => j = k
  BY <1>3, <1>10, Ordered
<1> HIDE DEF order
<1>14. PICK c : c = Cardinality(S)
  OBVIOUS
<1>15. /\ c \in Nat /\ DOMAIN files = 1..c
       /\ \A k \in 1..c : order[k] \in S /\ files[k] = exported[order[k]]
  BY <1>13, <1>14
<1>16. Len(files) = c
  <2>1. PICK T : T = {exported[i] : i \in S}
    OBVIOUS
  <2>2. files \in [1..c -> T]
    BY <1>13, <1>14, <1>15, <2>1
  <2> HIDE DEF files
  <2>3. files \in Seq(T)
    BY <1>15, <2>2, IsASeq
  <2>4. DOMAIN files = 1..Len(files) /\ Len(files) \in Nat
    BY <2>3, LenProperties
  <2> QED BY <1>15, <2>4
<1> HIDE DEF files, x
<1>17. /\ x.files = files /\ x.variants = exported /\ x.meta = meta.meta
       /\ x.errors = meta.errors \union report_errors(b)
  <2> HIDE DEF meta
  <2> QED BY <1>1
<1>18. /\ DOMAIN x.meta = {"default", "tuning"}
       /\ x.errors = {} => \/ x.meta.default = <<>> \/ x.meta.default \in DOMAIN e.variants
                           \/ \E i \in DOMAIN exported : exported[i].id = x.meta.default
  <2>1. /\ DOMAIN meta.meta = {"default", "tuning"}
        /\ meta.errors = {} => \/ meta.meta.default = <<>>
                               \/ meta.meta.default \in DOMAIN e.variants
                               \/ \E i \in DOMAIN exported : exported[i].id = meta.meta.default
    <3>1. PICK r : r = WithReport(b)
      OBVIOUS
    <3>2. meta = metadata_of(b, exported, e, r)
      BY <3>1
    <3> HIDE DEF meta
    <3> QED BY <3>2, MetadataIs
  <2> HIDE DEF meta
  <2>2. x.errors = {} => meta.errors = {}
    BY <1>17
  <2> QED BY <1>17, <2>1, <2>2
<1> HIDE DEF meta
<1>19. ASSUME NEW k \in DOMAIN x.files
       PROVE  \E i \in S : x.files[k] = exported[i] /\ i = order[k] /\ k \in 1..c
  BY <1>15, <1>17
<1>20. ExportOK(x)
  <2>1. \A k \in DOMAIN x.files : x.files[k].document \in Docs /\ IsSeq(x.files[k].id)
    <3> SUFFICES ASSUME NEW k \in DOMAIN x.files
                 PROVE  x.files[k].document \in Docs /\ IsSeq(x.files[k].id)
      OBVIOUS
    <3>1. PICK i \in S : x.files[k] = exported[i]
      BY <1>19
    <3>2. exported[i].document \in Docs /\ exported[i].id = ids[i] /\ i \in DOMAIN sources
      BY <1>8, <1>11
    <3> QED BY <1>7, <3>1, <3>2
  <2> QED BY <1>15, <1>16, <1>17, <1>18, <2>1 DEF ExportOK
<1>21. ASSUME NEW k \in DOMAIN x.files PROVE Succeeds(x.files[k], x, e)
  <2>1. PICK i \in S : x.files[k] = exported[i]
    BY <1>19
  <2>2. PICK f : f = x.files[k]
    OBVIOUS
  <2>3. /\ f.chosen = (sources[i].id # <<>>) /\ f.id = ids[i] /\ f.document.image = docs[i].image
        /\ ids[i] \notin DOMAIN e.variants => f.document.version = 0
        /\ ids[i] \in DOMAIN e.variants => f.document.version = e.variants[ids[i]].version + 1
    BY <1>8, <1>11, <2>1, <2>2
  <2>4. i \in DOMAIN sources /\ i \in DOMAIN x.variants /\ x.variants[i] = f
    BY <1>3, <1>9, <1>11, <1>17, <2>1, <2>2
  <2>5. \/ f.chosen \/ ~e.model \/ ids[i] \notin DOMAIN e.variants \/ e.variants[ids[i]].document = None
        \/ e.variants[ids[i]].document.image = f.document.image
    BY <1>7, <2>3, <2>4
  <2>6. Succeeds(f, x, e)
    BY <2>3, <2>4, <2>5 DEF Succeeds
  <2> QED BY <2>2, <2>6
<1>22. IsInjective(numbered) => IdsDiffer(x.files)
  <2> SUFFICES ASSUME IsInjective(ids), NEW j \in DOMAIN x.files, NEW k \in DOMAIN x.files,
                      x.files[j].id = x.files[k].id
               PROVE  j = k
    BY <1>7 DEF IdsDiffer
  <2>1. PICK i \in S : x.files[j] = exported[i] /\ i = order[j] /\ j \in 1..c
    BY <1>19
  <2>2. PICK h \in S : x.files[k] = exported[h] /\ h = order[k] /\ k \in 1..c
    BY <1>19
  <2>3. exported[i].id = ids[i] /\ exported[h].id = ids[h] /\ i \in DOMAIN ids /\ h \in DOMAIN ids
    BY <1>7, <1>8, <1>11
  <2>4. i = h
    BY <2>1, <2>2, <2>3 DEF IsInjective
  <2>5. j \in 1..Cardinality(S) /\ k \in 1..Cardinality(S) /\ order[j] = order[k]
    BY <1>14, <2>1, <2>2, <2>4
  <2> QED BY <1>13, <2>5, Zenon
<1>23. ASSUME x.errors = {} PROVE DefaultKnown(x, DOMAIN e.variants)
  <2>1. CASE \E i \in DOMAIN exported : exported[i].id = x.meta.default
    <3>1. PICK i \in DOMAIN exported : exported[i].id = x.meta.default
      BY <2>1
    <3>2. CASE i \in S
      <4>1. PICK k \in 1..c : order[k] = i
        BY <1>13, <1>14, <3>2
      <4>2. k \in DOMAIN x.files /\ x.files[k].id = x.meta.default
        BY <1>15, <1>17, <3>1, <4>1
      <4> QED BY <4>2 DEF DefaultKnown
    <3>3. CASE i \notin S
      <4>1. exported[i].id \in DOMAIN e.variants
        <5>1. i \in DOMAIN sources /\ exported[i].status = "unchanged"
          BY <1>3, <1>9, <1>12, <3>3
        <5> QED BY <1>8, <5>1
      <4> QED BY <3>1, <4>1 DEF DefaultKnown
    <3> QED BY <3>2, <3>3
  <2> QED BY <1>18, <1>23, <2>1 DEF DefaultKnown
<1> QED BY <1>20, <1>21, <1>22, <1>23 DEF x, numbered, sources

\* A branch of the catalog.
SrvOK(x) ==
  /\ DOMAIN x = {"model", "variants", "meta"}
  /\ IsFiniteSet(DOMAIN x.variants) /\ \A v \in DOMAIN x.variants : IsSeq(v)
  /\ x.variants \in [DOMAIN x.variants -> Docs]
  /\ ~x.model => DOMAIN x.variants = {}

\* v may change hands: someone chose its id, or exported without having read it.
Excused(v) ==
  \E p \in Requests :
    /\ req[p].pc # "idle"
    /\ \/ v \in req[p].unread
       \/ \E i \in DOMAIN req[p].export.variants :
            req[p].export.variants[i].id = v /\ req[p].export.variants[i].chosen

\* The branch x has v, for this deployment.
Holds(x, v, image) == v \in DOMAIN x.variants /\ x.variants[v].image = image

Files(x) == {x.files[k] : k \in DOMAIN x.files}

\* What the index says, what a publish will write and what a pull request
\* replaces is of the deployment the server has, unless excused.
Kept ==
  /\ \A v \in DOMAIN index.variants : Excused(v) \/ Holds(srv, v, index.variants[v].image)
  /\ \A p \in Requests : req[p].pc # "idle" =>
       \A f \in Files(req[p].export) :
         Excused(f.id) \/ f.document.version = 0 \/ Holds(srv, f.id, f.document.image)
  /\ \A pr \in pulls : \A f \in Files(pr.export) :
       \/ Excused(f.id)
       \/ f.id \notin DOMAIN pr.base.variants \/ Holds(pr.base, f.id, f.document.image)

\* Where a request stands in its files.
InFiles(r, s) ==
  /\ r.i \in Nat \ {0}
  /\ r.pc # "idle" => ExportOK(r.export)
  /\ r.pc = "get_model" => r.i = 1
  /\ r.pc \in {"get_variant", "put_variant"} => s.model /\ r.i \in DOMAIN r.export.files

\* The inductive invariant of DeploymentKept.
CatInv ==
  /\ ListInv /\ SrvOK(srv) /\ SrvOK(index)
  /\ \A p \in Requests : InFiles(req[p], srv)
  /\ \A pr \in pulls : SrvOK(pr.base) /\ ExportOK(pr.export)
  /\ Kept

\* What a step may do to the branch.
Steady ==
  \A v \in DOMAIN srv.variants : Excused(v) \/ Holds(srv', v, srv.variants[v].image)

-----------------------------------------------------------------------------
(* Branches. *)

LEMMA NoModelOK == ReadOK(NoModel) /\ NoModel.variants = <<>> /\ NoModel.model = FALSE
                   /\ DOMAIN NoModel = {"model", "variants", "meta"} /\ DOMAIN NoModel.variants = {}
<1>1. NoModel.variants = <<>> /\ NoModel.model = FALSE /\ DOMAIN NoModel = {"model", "variants", "meta"}
  BY DEF NoModel
<1>2. DOMAIN NoModel.variants = {}
  BY <1>1
<1>3. IsFiniteSet(DOMAIN NoModel.variants)
  BY <1>2, FS_EmptySet
<1> QED BY <1>1, <1>2, <1>3 DEF ReadOK

LEMMA DocNotNone == None \notin Docs
BY NoneAssumption

\* What lookup reads is the index, but for the files it could not read.
LEMMA LookupIs ==
  ASSUME SrvOK(index), NEW unread
  PROVE  LET e == lookup(unread) IN
         /\ ReadOK(e) /\ e.model = index.model /\ DOMAIN e.variants = DOMAIN index.variants
         /\ \A v \in DOMAIN index.variants :
              /\ e.variants[v].version = index.variants[v].version
              /\ index.variants[v] \in Docs /\ index.variants[v].version \in Nat
              /\ e.variants[v].document # None => e.variants[v].document = index.variants[v]
              /\ e.variants[v].document = None => v \in unread
<1> DEFINE e == lookup(unread)
           vs == [v \in DOMAIN index.variants |->
                   [version  |-> index.variants[v].version,
                    document |-> IF v \in unread THEN None ELSE index.variants[v]]]
<1>1. e = [model |-> index.model, meta |-> index.meta, variants |-> vs]
  BY DEF lookup
<1> HIDE DEF vs
<1>2. e.model = index.model /\ e.variants = vs
  BY <1>1
<1> HIDE DEF e
<1>3. DOMAIN e.variants = DOMAIN index.variants
  BY <1>2 DEF vs
<1>4. ASSUME NEW v \in DOMAIN index.variants
      PROVE  /\ e.variants[v].version = index.variants[v].version
             /\ e.variants[v].document = IF v \in unread THEN None ELSE index.variants[v]
  BY <1>2 DEF vs
<1>5. ASSUME NEW v \in DOMAIN index.variants
      PROVE  index.variants[v] \in Docs /\ index.variants[v].version \in Nat
  <2>1. index.variants[v] \in Docs
    BY DEF SrvOK
  <2> QED BY <2>1 DEF Docs
<1>6. \A v \in DOMAIN index.variants :
        /\ e.variants[v].version = index.variants[v].version
        /\ e.variants[v].document # None => e.variants[v].document = index.variants[v]
        /\ e.variants[v].document = None => v \in unread
        /\ e.variants[v].document \in Docs \union {None}
  BY <1>4, <1>5, DocNotNone
<1>7. ReadOK(e)
  BY <1>3, <1>5, <1>6 DEF ReadOK, SrvOK
<1> QED BY <1>2, <1>3, <1>5, <1>6, <1>7 DEF e

\* The branch t is s with one file written.
Wrote(s, t, id, doc) ==
  /\ SrvOK(t) /\ t.model = s.model /\ t.meta = s.meta
  /\ DOMAIN t.variants = DOMAIN s.variants \union {id}
  /\ \A v \in DOMAIN t.variants : t.variants[v] = IF v = id THEN doc ELSE s.variants[v]

LEMMA WithVariantIs ==
  ASSUME NEW s, SrvOK(s), s.model, NEW id, IsSeq(id), NEW doc \in Docs,
         NEW t, t = WithVariant(s, id, doc)
  PROVE  Wrote(s, t, id, doc)
<1> DEFINE vs == [v \in DOMAIN s.variants \union {id} |-> IF v = id THEN doc ELSE s.variants[v]]
<1>1. t = [s EXCEPT !.variants = vs]
  BY DEF WithVariant
<1>2. /\ DOMAIN vs = DOMAIN s.variants \union {id}
      /\ \A v \in DOMAIN vs : vs[v] = IF v = id THEN doc ELSE s.variants[v]
      /\ vs \in [DOMAIN vs -> Docs]
  BY DEF SrvOK
<1> HIDE DEF vs
<1>3. /\ DOMAIN t = {"model", "variants", "meta"} /\ t.variants = vs /\ t.model = s.model
      /\ t.meta = s.meta
  BY <1>1 DEF SrvOK
<1>4. IsFiniteSet(DOMAIN s.variants \union {id})
  BY FS_AddElement DEF SrvOK
<1>5. SrvOK(t)
  BY <1>2, <1>3, <1>4 DEF SrvOK
<1> QED BY <1>2, <1>3, <1>5 DEF Wrote

\* The branch t is s with the files of x in it.
Joined(s, t, x) ==
  /\ SrvOK(t) /\ t.model
  /\ DOMAIN s.variants \subseteq DOMAIN t.variants
  /\ \A v \in DOMAIN s.variants :
       \/ t.variants[v] = s.variants[v]
       \/ \E k \in DOMAIN x.files : x.files[k].id = v /\ t.variants[v] = x.files[k].document

LEMMA WithFilesIs ==
  ASSUME NEW s, SrvOK(s), NEW x, ExportOK(x), NEW m,
         NEW t, t = [WithFiles(s, x.files) EXCEPT !.model = TRUE, !.meta = m]
  PROVE  Joined(s, t, x)
<1> DEFINE files == x.files
           Named(v) == {i \in DOMAIN files : files[i].id = v}
           ids == {files[i].id : i \in DOMAIN files}
           vs == [v \in DOMAIN s.variants \union ids |->
                    IF Named(v) # {} THEN files[Max(Named(v))].document ELSE s.variants[v]]
<1>1. WithFiles(s, files) = [s EXCEPT !.variants = vs]
  BY DEF WithFiles
<1>2. Len(files) \in Nat /\ DOMAIN files = 1..Len(files)
  BY DEF ExportOK
<1>3. ASSUME NEW v, Named(v) # {} PROVE Max(Named(v)) \in Named(v)
  <2>1. Named(v) \subseteq 1..Len(files)
    BY <1>2
  <2> HIDE DEF Named, files
  <2> QED BY <1>2, <1>3, <2>1, LastOf
<1>4. ASSUME NEW v \in DOMAIN s.variants \union ids
      PROVE  \/ v \in DOMAIN s.variants /\ vs[v] = s.variants[v]
             \/ \E k \in DOMAIN files : files[k].id = v /\ vs[v] = files[k].document
  <2>1. CASE Named(v) = {}
    <3>1. v \in DOMAIN s.variants
      BY <2>1
    <3> QED BY <2>1, <3>1
  <2>2. CASE Named(v) # {}
    <3>1. PICK k : k = Max(Named(v)) /\ k \in Named(v)
      BY <1>3, <2>2
    <3> QED BY <2>2, <3>1
  <2> QED BY <2>1, <2>2
<1>5. DOMAIN vs = DOMAIN s.variants \union ids
  OBVIOUS
<1>6. vs = [v \in DOMAIN vs |-> vs[v]]
  OBVIOUS
<1> HIDE DEF vs, Named
<1>7. \A v \in DOMAIN vs : vs[v] \in Docs /\ IsSeq(v)
  <2> SUFFICES ASSUME NEW v \in DOMAIN vs PROVE vs[v] \in Docs /\ IsSeq(v)
    OBVIOUS
  <2>1. \A k \in DOMAIN files : files[k].document \in Docs /\ IsSeq(files[k].id)
    BY DEF ExportOK
  <2>2. \A w \in DOMAIN s.variants : s.variants[w] \in Docs /\ IsSeq(w)
    BY DEF SrvOK
  <2>3. IsSeq(v)
    BY <1>5, <2>1, <2>2
  <2> QED BY <1>4, <1>5, <2>1, <2>2, <2>3
<1>8. vs \in [DOMAIN vs -> Docs]
  BY <1>6, <1>7
<1>9. IsFiniteSet(DOMAIN vs)
  <2> DEFINE f == [i \in DOMAIN files |-> files[i].id]
             T == {f[i] : i \in DOMAIN files}
  <2>1. IsFiniteSet(DOMAIN files)
    <3>1. PICK n \in Nat : DOMAIN files = 1..n
      BY <1>2
    <3>2. IsFiniteSet(1..n)
      BY FS_Interval
    <3> QED BY <3>1, <3>2
  <2>2. IsFiniteSet(T)
    <3> HIDE DEF f
    <3> QED BY <2>1, ImageFinite
  <2>3. T = ids
    OBVIOUS
  <2> HIDE DEF T, ids, f
  <2>4. PICK D : D = DOMAIN s.variants /\ IsFiniteSet(D)
    BY DEF SrvOK
  <2>5. IsFiniteSet(D \union T)
    BY <2>2, <2>4, FS_Union
  <2> QED BY <1>5, <2>3, <2>4, <2>5
<1> HIDE DEF ids
<1>10. /\ DOMAIN t = {"model", "variants", "meta"} /\ t.variants = vs /\ t.model = TRUE
  BY <1>1 DEF SrvOK
<1>11. SrvOK(t)
  BY <1>7, <1>8, <1>9, <1>10 DEF SrvOK
<1> QED BY <1>4, <1>5, <1>10, <1>11 DEF Joined

-----------------------------------------------------------------------------
(* What a step makes of a request, but for the list of its writes. *)

Like(r, d) ==
  /\ DOMAIN d = Fields /\ d.pc = r.pc /\ d.body = r.body /\ d.mode = r.mode /\ d.export = r.export
  /\ d.i = r.i /\ d.model_etag = r.model_etag /\ d.etag = r.etag /\ d.added = r.added
  /\ d.answer = r.answer /\ d.unread = r.unread

\* The request is over, with this answer.
Over(r, d, a) ==
  /\ DOMAIN d = Fields /\ d.pc = "done" /\ d.answer = a /\ d.i = 1
  /\ d.export = r.export /\ d.unread = r.unread

\* The dry run is over, the real run begins.
Restart(r, d) ==
  /\ DOMAIN d = Fields /\ d.pc = "get_model" /\ d.mode = "real" /\ d.i = 1 /\ d.answer = r.answer
  /\ d.export = r.export /\ d.unread = r.unread

\* The next file, or the metadata.
Onward(r, d) ==
  /\ DOMAIN d = Fields /\ d.pc = NextPc(r.export, r.i + 1, r.mode) /\ d.mode = r.mode
  /\ d.i = r.i + 1 /\ d.model_etag = r.model_etag /\ d.etag = r.model_etag /\ d.added = r.added
  /\ d.answer = r.answer /\ d.export = r.export /\ d.unread = r.unread

Refusals == {"refused", "refused midway"}

\* The list and the record of what was committed may change.
LEMMA LikeForms ==
  ASSUME NEW r, DOMAIN r = Fields, NEW x
  PROVE  /\ Like(r, r) /\ Like(r, [r EXCEPT !.writes = x]) /\ Like(r, [r EXCEPT !.committed = x])
BY SMT DEF Like, Fields

LEMMA ListedLike ==
  ASSUME NEW r, DOMAIN r = Fields, NEW path
  PROVE  Like(r, Listed(r, path))
<1> DEFINE x == Append(r.writes, [path |-> path, status |-> ""])
<1>1. Listed(r, path) = [r EXCEPT !.writes = x]
  BY Zenon DEF Listed
<1> HIDE DEF x
<1>2. Like(r, [r EXCEPT !.writes = x])
  BY LikeForms
<1> QED BY <1>1, <1>2, Zenon

LEMMA StatusLike ==
  ASSUME NEW r, DOMAIN r = Fields, NEW st
  PROVE  Like(r, [r EXCEPT !.writes[Len(r.writes)].status = st])
<1> DEFINE x == [r.writes EXCEPT ![Len(r.writes)].status = st]
<1>1. [r EXCEPT !.writes[Len(r.writes)].status = st] = [r EXCEPT !.writes = x]
  BY Zenon
<1> HIDE DEF x
<1>2. Like(r, [r EXCEPT !.writes = x])
  BY LikeForms
<1> QED BY <1>1, <1>2, Zenon

LEMMA LikeDomain == ASSUME NEW r, NEW s, Like(r, s) PROVE DOMAIN s = Fields
BY DEF Like

LEMMA LikeTwice ==
  ASSUME NEW r, NEW s, NEW d, Like(r, s), Like(s, d)
  PROVE  Like(r, d)
BY DEF Like

LEMMA EndedOver ==
  ASSUME NEW r, NEW s, Like(r, s), NEW a
  PROVE  Over(r, Ended(s, a), a)
<1>1. DOMAIN s = Fields /\ s.export = r.export /\ s.unread = r.unread
  BY DEF Like
<1>2. LET d == Ended(s, a) IN
      /\ DOMAIN d = Fields /\ d.pc = "done" /\ d.answer = a /\ d.i = 1
      /\ d.export = s.export /\ d.unread = s.unread
  BY <1>1, SMT DEF Ended, Fields
<1> QED BY <1>1, <1>2 DEF Over

\* A refused write ends the request.
LEMMA RefuseOver ==
  ASSUME NEW r, NEW s, Like(r, s)
  PROVE  \E a \in Refusals : Over(r, Refuse(s), a)
<1> DEFINE t == [s EXCEPT !.writes[Len(s.writes)].status = "failed"]
           a == IF s.mode = "dry" THEN "refused" ELSE "refused midway"
<1>1. DOMAIN s = Fields
  BY LikeDomain
<1>2. Like(s, t)
  BY <1>1, StatusLike
<1>3. a \in Refusals
  BY DEF Refusals
<1>4. Refuse(s) = Ended(t, a)
  BY Zenon DEF Refuse
<1> HIDE DEF t, a
<1>5. Like(r, t)
  BY <1>2, LikeTwice
<1>6. Over(r, Ended(t, a), a)
  BY <1>5, EndedOver
<1> QED BY <1>3, <1>4, <1>6

\* A write that was sent: unanswered, or as the step goes on.
LEMMA SentForms ==
  ASSUME NEW r, NEW s, Like(r, s), NEW paths, NEW heard, NEW next, DOMAIN next = Fields
  PROVE  LET d == Sent(s, paths, heard, next) IN Over(r, d, "unreachable") \/ Like(next, d)
<1> DEFINE c == IF s.mode = "real" THEN [s EXCEPT !.committed = @ \union paths] ELSE s
           d == Sent(s, paths, heard, next)
           x == c.committed
<1>1. DOMAIN s = Fields
  BY LikeDomain
<1>2. Like(s, c)
  <2> DEFINE y == s.committed \union paths
  <2>1. [s EXCEPT !.committed = @ \union paths] = [s EXCEPT !.committed = y]
    BY Zenon
  <2> HIDE DEF y
  <2>2. Like(s, s) /\ Like(s, [s EXCEPT !.committed = y])
    BY <1>1, LikeForms
  <2> QED BY <2>1, <2>2, Zenon
<1>3. d = IF heard THEN [next EXCEPT !.committed = x] ELSE Ended(c, "unreachable")
  BY Zenon DEF Sent
<1> HIDE DEF c, x
<1>4. Over(r, Ended(c, "unreachable"), "unreachable")
  <2>1. Like(r, c)
    BY <1>2, LikeTwice
  <2> QED BY <2>1, EndedOver
<1>5. Like(next, [next EXCEPT !.committed = x])
  BY LikeForms
<1> HIDE DEF d
<1>6. Over(r, d, "unreachable") \/ Like(next, d)
  BY <1>3, <1>4, <1>5, Zenon
<1> QED BY <1>6 DEF d

\* After the last write: over, or on to the real run.
LEMMA PassOverForms ==
  ASSUME NEW r, NEW s, Like(r, s)
  PROVE  LET d == PassOver(s) IN
         /\ DOMAIN d = Fields
         /\ \/ Over(r, d, "ok")
            \/ r.mode = "dry" /\ Restart(r, d)
<1> DEFINE d == PassOver(s)
<1>1. DOMAIN s = Fields /\ s.mode = r.mode /\ s.export = r.export /\ s.unread = r.unread /\ s.answer = r.answer
  BY DEF Like
<1>2. CASE s.mode = "dry" /\ s.body.kind = "publish"
  <2>1. d = [s EXCEPT !.mode = "real", !.pc = "get_model", !.i = 1, !.added = {}, !.writes = <<>>]
    BY <1>2, Zenon DEF PassOver
  <2>2. PICK e, w : e = {} /\ w = <<>>
    OBVIOUS
  <2>3. /\ DOMAIN d = Fields /\ d.pc = "get_model" /\ d.mode = "real" /\ d.i = 1
        /\ d.answer = s.answer /\ d.export = s.export /\ d.unread = s.unread
    <3>1. d = [s EXCEPT !.mode = "real", !.pc = "get_model", !.i = 1, !.added = e, !.writes = w]
      BY <2>1, <2>2, Zenon
    <3> HIDE DEF d
    <3> QED BY <1>1, <3>1, SMT DEF Fields
  <2> HIDE DEF d
  <2>4. Restart(r, d) /\ DOMAIN d = Fields /\ r.mode = "dry"
    BY <1>1, <1>2, <2>3 DEF Restart
  <2> QED BY <2>4 DEF d
<1>3. CASE ~(s.mode = "dry" /\ s.body.kind = "publish")
  <2>1. d = Ended(s, "ok")
    BY <1>3, Zenon DEF PassOver
  <2>2. Over(r, d, "ok")
    BY <2>1, EndedOver
  <2> HIDE DEF d
  <2>3. DOMAIN d = Fields
    BY <2>2 DEF Over
  <2> QED BY <2>2, <2>3 DEF d
<1> QED BY <1>2, <1>3

LEMMA OverLike == ASSUME NEW r, NEW s, NEW d, NEW a, Over(r, s, a), Like(s, d) PROVE Over(r, d, a)
BY DEF Over, Like

LEMMA RestartLike == ASSUME NEW r, NEW s, NEW d, Restart(r, s), Like(s, d) PROVE Restart(r, d)
BY DEF Restart, Like

LEMMA OnwardLike == ASSUME NEW r, NEW s, NEW d, Onward(r, s), Like(s, d) PROVE Onward(r, d)
BY DEF Onward, Like

-----------------------------------------------------------------------------
(* The steps of a publish, as what they make of the request. *)

\* The request is over, and nothing was refused.
Unrefused(r, d) == \E a \in {"ok", "unreachable"} : Over(r, d, a)
Refused(r, d) == \E a \in Refusals : Over(r, d, a)

\* The request goes on to another program counter.
Goes(r, d, pc) ==
  /\ DOMAIN d = Fields /\ d.pc = pc /\ d.mode = r.mode /\ d.i = r.i /\ d.answer = r.answer
  /\ d.export = r.export /\ d.unread = r.unread

\* The last write was taken.
LastTaken(r, d) == Unrefused(r, d) \/ (r.mode = "dry" /\ Restart(r, d))

\* One request moves, the others stay.
LEMMA MovedOne ==
  ASSUME ListInv, NEW p \in Requests, NEW d, req' = [req EXCEPT ![p] = d]
  PROVE  /\ DOMAIN req[p] = Fields /\ req'[p] = d
         /\ \A q \in Requests : q # p => req'[q] = req[q]
BY DEF ListInv, ReqOK

LEMMA GetModelForms ==
  ASSUME ListInv, NEW p \in Requests, GetModel(p)
  PROVE  \E d : /\ req' = [req EXCEPT ![p] = d]
                /\ \/ Unrefused(req[p], d)
                   \/ ~srv.model /\ Goes(req[p], d, "post_model")
                   \/ /\ srv.model /\ d.model_etag = srv.meta /\ d.etag = srv.meta
                      /\ Goes(req[p], d, NextPc(req[p].export, 1, req[p].mode))
<1>1. PICK r : r = req[p] /\ DOMAIN r = Fields
  BY DEF ListInv, ReqOK
<1> DEFINE pc == NextPc(r.export, 1, r.mode)
           t == [r EXCEPT !.model_etag = srv.meta, !.etag = srv.meta, !.pc = pc]
           u == Listed(r, <<"model">>)
           d == IF srv.model THEN t
                ELSE IF r.export.files = <<>> THEN Ended(r, "unreachable")
                ELSE [u EXCEPT !.pc = "post_model"]
<1>2. req' = [req EXCEPT ![p] = d]
  BY <1>1, Zenon DEF GetModel
<1> HIDE DEF pc
<1>3. Goes(r, t, pc) /\ t.model_etag = srv.meta /\ t.etag = srv.meta
  BY <1>1, SMT DEF Goes, Fields
<1>4. Over(r, Ended(r, "unreachable"), "unreachable")
  BY <1>1, LikeForms, EndedOver
<1>5. Goes(r, [u EXCEPT !.pc = "post_model"], "post_model")
  <2>1. Like(r, u)
    BY <1>1, ListedLike
  <2> HIDE DEF u
  <2> QED BY <2>1, SMT DEF Like, Goes, Fields
<1> HIDE DEF t, u
<1>6. \/ Unrefused(r, d)
      \/ ~srv.model /\ Goes(r, d, "post_model")
      \/ srv.model /\ d.model_etag = srv.meta /\ d.etag = srv.meta /\ Goes(r, d, pc)
  BY <1>3, <1>4, <1>5, Zenon DEF Unrefused
<1> QED BY <1>1, <1>2, <1>6 DEF pc

LEMMA PostModelForms ==
  ASSUME ListInv, NEW p \in Requests, NEW heard, PostModel(p, heard)
  PROVE  \E d : /\ req' = [req EXCEPT ![p] = d]
                /\ \/ srv.model /\ Refused(req[p], d) /\ srv' = srv /\ alone' = alone
                   \/ /\ ~srv.model /\ LastTaken(req[p], d)
                      /\ srv' = IF req[p].mode = "dry" THEN srv
                                ELSE WithFiles([NoModel EXCEPT !.model = TRUE,
                                                               !.meta = req[p].export.meta],
                                               req[p].export.files)
                      /\ OthersSee(p, req[p].mode = "real")
<1>1. PICK r : r = req[p] /\ DOMAIN r = Fields
  BY DEF ListInv, ReqOK
<1>2. CASE srv.model
  <2>1. req' = [req EXCEPT ![p] = Refuse(r)] /\ srv' = srv /\ alone' = alone
    BY <1>1, <1>2, Zenon DEF PostModel
  <2>2. Refused(r, Refuse(r))
    BY <1>1, LikeForms, RefuseOver DEF Refused
  <2> QED BY <1>1, <1>2, <2>1, <2>2
<1>3. CASE ~srv.model
  <2> DEFINE next == PassOver(Marked(r))
             d == Sent(r, {<<"model">>}, heard, next)
  <2>1. /\ req' = [req EXCEPT ![p] = d]
        /\ srv' = IF r.mode = "dry" THEN srv
                  ELSE WithFiles([NoModel EXCEPT !.model = TRUE, !.meta = r.export.meta], r.export.files)
        /\ OthersSee(p, r.mode = "real")
    BY <1>1, <1>3, Zenon DEF PostModel
  <2>2. Like(r, Marked(r))
    BY <1>1, StatusLike DEF Marked
  <2>3. DOMAIN next = Fields /\ (Over(r, next, "ok") \/ (r.mode = "dry" /\ Restart(r, next)))
    BY <2>2, PassOverForms
  <2> HIDE DEF next
  <2>4. Over(r, d, "unreachable") \/ Like(next, d)
    BY <1>1, <2>3, LikeForms, SentForms
  <2> HIDE DEF d
  <2>5. LastTaken(r, d)
    BY <2>3, <2>4, OverLike, RestartLike DEF LastTaken, Unrefused
  <2> QED BY <1>1, <1>3, <2>1, <2>5
<1> QED BY <1>2, <1>3

LEMMA GetVariantForms ==
  ASSUME ListInv, NEW p \in Requests, GetVariant(p)
  PROVE  \E d : /\ req' = [req EXCEPT ![p] = d]
                /\ Goes(req[p], d, "put_variant") /\ d.model_etag = req[p].model_etag
                /\ LET id == req[p].export.files[req[p].i].id IN
                   /\ d.etag = IF Has(id) THEN srv.variants[id] ELSE None
                   /\ d.added = IF Has(id) THEN req[p].added ELSE req[p].added \union {id}
<1>1. PICK r : r = req[p] /\ DOMAIN r = Fields
  BY DEF ListInv, ReqOK
<1> DEFINE f == r.export.files[r.i]
           u == Listed(r, f.id)
           etag == IF Has(f.id) THEN srv.variants[f.id] ELSE None
           added == IF Has(f.id) THEN u.added ELSE u.added \union {f.id}
           d == [u EXCEPT !.pc = "put_variant", !.etag = etag, !.added = added]
<1>2. req' = [req EXCEPT ![p] = d]
  BY <1>1, Zenon DEF GetVariant
<1>3. Like(r, u)
  BY <1>1, ListedLike
<1>4. u.added = r.added
  BY <1>3 DEF Like
<1>5. added = IF Has(f.id) THEN r.added ELSE r.added \union {f.id}
  BY <1>4, Zenon
<1> HIDE DEF u, etag, added
<1>6. Goes(r, d, "put_variant") /\ d.model_etag = r.model_etag /\ d.etag = etag /\ d.added = added
  BY <1>3, SMT DEF Like, Goes, Fields
<1> HIDE DEF d
<1> QED BY <1>1, <1>2, <1>5, <1>6, Zenon DEF etag

LEMMA PutVariantForms ==
  ASSUME ListInv, NEW p \in Requests, NEW heard, PutVariant(p, heard)
  PROVE  LET f == req[p].export.files[req[p].i] IN
         \E d : /\ req' = [req EXCEPT ![p] = d]
                /\ \/ /\ ~TakesVariant(req[p].etag, f.id, f.document) /\ Refused(req[p], d)
                      /\ srv' = srv /\ alone' = alone
                   \/ /\ TakesVariant(req[p].etag, f.id, f.document)
                      /\ Unrefused(req[p], d) \/ Onward(req[p], d)
                      /\ srv' = IF req[p].mode = "dry" THEN srv
                                ELSE WithVariant(srv, f.id, f.document)
                      /\ OthersSee(p, req[p].mode = "real")
<1>1. PICK r : r = req[p] /\ DOMAIN r = Fields
  BY DEF ListInv, ReqOK
<1> DEFINE f == r.export.files[r.i]
<1>2. CASE ~TakesVariant(r.etag, f.id, f.document)
  <2>1. req' = [req EXCEPT ![p] = Refuse(r)] /\ srv' = srv /\ alone' = alone
    BY <1>1, <1>2, Zenon DEF PutVariant
  <2>2. Refused(r, Refuse(r))
    BY <1>1, LikeForms, RefuseOver DEF Refused
  <2> QED BY <1>1, <1>2, <2>1, <2>2, Zenon
<1>3. CASE TakesVariant(r.etag, f.id, f.document)
  <2> DEFINE m == Marked(r)
             pc == NextPc(r.export, r.i + 1, r.mode)
             j == r.i + 1
             next == [m EXCEPT !.i = j, !.etag = r.model_etag, !.pc = pc]
             d == Sent(r, {f.id}, heard, next)
  <2>1. /\ req' = [req EXCEPT ![p] = d]
        /\ srv' = IF r.mode = "dry" THEN srv ELSE WithVariant(srv, f.id, f.document)
        /\ OthersSee(p, r.mode = "real")
    BY <1>1, <1>3, Zenon DEF PutVariant
  <2>2. Like(r, m)
    BY <1>1, StatusLike DEF Marked
  <2> HIDE DEF m, pc
  <2>3. DOMAIN next = Fields /\ Onward(r, next)
    <3>1. DOMAIN next = Fields /\ next.pc = pc /\ next.i = j /\ next.etag = r.model_etag
          /\ next.mode = m.mode /\ next.model_etag = m.model_etag /\ next.added = m.added
          /\ next.answer = m.answer /\ next.export = m.export /\ next.unread = m.unread
      <4> HIDE DEF j
      <4> QED BY <2>2, SMT DEF Like, Fields
    <3> HIDE DEF next
    <3> QED BY <2>2, <3>1 DEF Like, Onward, pc
  <2> HIDE DEF next
  <2>4. Over(r, d, "unreachable") \/ Like(next, d)
    BY <1>1, <2>3, LikeForms, SentForms
  <2> HIDE DEF d
  <2>5. Unrefused(r, d) \/ Onward(r, d)
    BY <2>3, <2>4, OnwardLike DEF Unrefused
  <2> QED BY <1>1, <1>3, <2>1, <2>5, Zenon
<1> QED BY <1>2, <1>3

LEMMA GetMetadataForms ==
  ASSUME ListInv, NEW p \in Requests, GetMetadata(p)
  PROVE  \E d : /\ req' = [req EXCEPT ![p] = d]
                /\ Goes(req[p], d, "put_metadata") /\ d.model_etag = req[p].model_etag
                /\ d.etag = srv.meta /\ d.added = req[p].added
<1>1. PICK r : r = req[p] /\ DOMAIN r = Fields
  BY DEF ListInv, ReqOK
<1> DEFINE d == [r EXCEPT !.etag = srv.meta, !.pc = "put_metadata"]
<1>2. req' = [req EXCEPT ![p] = d]
  BY <1>1, Zenon DEF GetMetadata
<1>3. Goes(r, d, "put_metadata") /\ d.model_etag = r.model_etag /\ d.etag = srv.meta /\ d.added = r.added
  BY <1>1, SMT DEF Goes, Fields
<1> HIDE DEF d
<1> QED BY <1>1, <1>2, <1>3

\* The metadata a publish sends.
SentMeta(r) == IF r.mode = "dry" THEN without_new_default(r.export.meta, r.added) ELSE r.export.meta

LEMMA PutMetadataForms ==
  ASSUME ListInv, NEW p \in Requests, NEW heard, PutMetadata(p, heard)
  PROVE  \E d : /\ req' = [req EXCEPT ![p] = d]
                /\ \/ /\ ~TakesMetadata(req[p].etag, SentMeta(req[p])) /\ Refused(req[p], d)
                      /\ srv' = srv /\ alone' = alone
                   \/ /\ LastTaken(req[p], d)
                      /\ srv' = IF req[p].mode = "dry" THEN srv
                                ELSE [srv EXCEPT !.meta = SentMeta(req[p])]
                      /\ OthersSee(p, req[p].mode = "real")
<1>1. PICK r : r = req[p] /\ DOMAIN r = Fields
  BY DEF ListInv, ReqOK
<1> DEFINE s == Listed(r, <<"metadata">>)
           meta == IF s.mode = "dry" THEN without_new_default(s.export.meta, s.added)
                   ELSE s.export.meta
<1>2. Like(r, s)
  BY <1>1, ListedLike
<1>3. s.mode = r.mode /\ s.etag = r.etag /\ s.export = r.export /\ s.added = r.added
  BY <1>2 DEF Like
<1>4. meta = SentMeta(r)
  BY <1>3, Zenon DEF SentMeta
<1>5. CASE ~TakesMetadata(s.etag, meta)
  <2>1. req' = [req EXCEPT ![p] = Refuse(s)] /\ srv' = srv /\ alone' = alone
    BY <1>1, <1>5, Zenon DEF PutMetadata
  <2> HIDE DEF s, meta
  <2>2. Refused(r, Refuse(s))
    BY <1>2, RefuseOver DEF Refused
  <2> QED BY <1>1, <1>3, <1>4, <1>5, <2>1, <2>2, Zenon
<1>6. CASE TakesMetadata(s.etag, meta)
  <2> DEFINE next == PassOver(Marked(s))
             d == Sent(s, {<<"metadata">>}, heard, next)
  <2>1. /\ req' = [req EXCEPT ![p] = d]
        /\ srv' = IF s.mode = "dry" THEN srv ELSE [srv EXCEPT !.meta = meta]
        /\ OthersSee(p, s.mode = "real")
    BY <1>1, <1>6, Zenon DEF PutMetadata
  <2> HIDE DEF s, meta
  <2>2. Like(r, Marked(s))
    <3>1. DOMAIN s = Fields
      BY <1>2, LikeDomain
    <3>2. Like(s, Marked(s))
      BY <3>1, StatusLike DEF Marked
    <3> QED BY <1>2, <3>2, LikeTwice
  <2>3. DOMAIN next = Fields /\ (Over(r, next, "ok") \/ (r.mode = "dry" /\ Restart(r, next)))
    BY <2>2, PassOverForms
  <2> HIDE DEF next
  <2>4. Over(r, d, "unreachable") \/ Like(next, d)
    BY <1>2, <2>3, SentForms
  <2> HIDE DEF d
  <2>5. LastTaken(r, d)
    BY <2>3, <2>4, OverLike, RestartLike DEF LastTaken, Unrefused
  <2> QED BY <1>1, <1>3, <1>4, <2>1, <2>5, Zenon
<1> QED BY <1>5, <1>6

\* A lost request is over, unrefused.
LEMMA LoseForms ==
  ASSUME ListInv, NEW p \in Requests, Lose(p)
  PROVE  \E d : req' = [req EXCEPT ![p] = d] /\ Unrefused(req[p], d)
<1>1. PICK r : r = req[p] /\ DOMAIN r = Fields
  BY DEF ListInv, ReqOK
<1> DEFINE s == IF r.mode = "dry" THEN [r EXCEPT !.writes = <<>>]
                ELSE IF r.pc \in {"get_metadata", "put_metadata"}
                     THEN Listed(r, <<"metadata">>) ELSE r
<1>2. req' = [req EXCEPT ![p] = Ended(s, "unreachable")]
  BY <1>1, Zenon DEF Lose
<1>3. Like(r, s)
  <2>1. PICK w : w = <<>>
    OBVIOUS
  <2>2. Like(r, r) /\ Like(r, [r EXCEPT !.writes = w]) /\ Like(r, Listed(r, <<"metadata">>))
    BY <1>1, LikeForms, ListedLike
  <2> QED BY <2>1, <2>2, Zenon
<1> HIDE DEF s
<1>4. Over(r, Ended(s, "unreachable"), "unreachable")
  BY <1>3, EndedOver
<1> QED BY <1>1, <1>2, <1>4 DEF Unrefused

-----------------------------------------------------------------------------
(* DeploymentKept. *)

\* No request begins: what is excused stays so.
SameExports ==
  \A q \in Requests : /\ req'[q].pc # "idle" <=> req[q].pc # "idle"
                      /\ req'[q].export = req[q].export /\ req'[q].unread = req[q].unread

LEMMA ExcusedSame ==
  ASSUME SameExports, NEW v
  PROVE  Excused(v)' <=> Excused(v)
BY DEF SameExports, Excused

LEMMA Unmoved == ASSUME srv' = srv PROVE Steady
BY DEF Steady, Holds

\* Any step that begins no request.
LEMMA KeptStep ==
  ASSUME CatInv, ListInv', SameExports, Steady, SrvOK(srv'),
         index' = index \/ index' = srv, pulls' \subseteq pulls,
         \A q \in Requests : InFiles(req'[q], srv')
  PROVE  CatInv'
<1>1. ASSUME NEW v, NEW image, Holds(srv, v, image)
      PROVE  Excused(v)' \/ Holds(srv', v, image)
  <2>1. v \in DOMAIN srv.variants /\ srv.variants[v].image = image
    BY <1>1 DEF Holds
  <2>2. Excused(v) \/ Holds(srv', v, srv.variants[v].image)
    BY <2>1 DEF Steady
  <2> QED BY <2>1, <2>2, ExcusedSame
<1>2. ASSUME NEW v \in DOMAIN index'.variants
      PROVE  Excused(v)' \/ Holds(srv', v, index'.variants[v].image)
  <2>1. CASE index' = index
    <3>1. Excused(v) \/ Holds(srv, v, index'.variants[v].image)
      BY <1>2, <2>1 DEF CatInv, Kept
    <3> QED BY <1>1, <3>1, ExcusedSame
  <2>2. CASE index' = srv
    <3>1. Holds(srv, v, index'.variants[v].image)
      BY <1>2, <2>2 DEF Holds
    <3> QED BY <1>1, <3>1
  <2> QED BY <2>1, <2>2
<1>3. ASSUME NEW q \in Requests, req'[q].pc # "idle", NEW f \in Files(req'[q].export)
      PROVE  Excused(f.id)' \/ f.document.version = 0 \/ Holds(srv', f.id, f.document.image)
  <2>1. req[q].pc # "idle" /\ req'[q].export = req[q].export
    BY <1>3 DEF SameExports
  <2>2. Excused(f.id) \/ f.document.version = 0 \/ Holds(srv, f.id, f.document.image)
    BY <1>3, <2>1 DEF CatInv, Kept
  <2> QED BY <1>1, <2>2, ExcusedSame
<1>4. ASSUME NEW pr \in pulls', NEW f \in Files(pr.export)
      PROVE  \/ Excused(f.id)'
             \/ f.id \notin DOMAIN pr.base.variants \/ Holds(pr.base, f.id, f.document.image)
  <2>1. pr \in pulls
    OBVIOUS
  <2>2. Excused(f.id) \/ f.id \notin DOMAIN pr.base.variants \/ Holds(pr.base, f.id, f.document.image)
    BY <1>4, <2>1 DEF CatInv, Kept
  <2> QED BY <2>2, ExcusedSame
<1>5. Kept'
  BY <1>2, <1>3, <1>4 DEF Kept
<1>6. SrvOK(index')
  BY DEF CatInv
<1>7. \A pr \in pulls' : SrvOK(pr.base) /\ ExportOK(pr.export)
  BY DEF CatInv
<1> QED BY <1>5, <1>6, <1>7 DEF CatInv

\* A step of one publish.
LEMMA PublishStep ==
  ASSUME CatInv, ListInv', NEW p \in Requests, NEW d, req' = [req EXCEPT ![p] = d],
         req[p].pc # "idle", d.pc # "idle", d.export = req[p].export, d.unread = req[p].unread,
         InFiles(d, srv'), SrvOK(srv'), srv.model => srv'.model, Steady, index' = index,
         pulls' = pulls
  PROVE  CatInv'
<1>1. ListInv
  BY DEF CatInv
<1>2. req'[p] = d /\ \A q \in Requests : q # p => req'[q] = req[q]
  BY <1>1, MovedOne
<1>3. SameExports
  BY <1>2 DEF SameExports
<1>4. \A q \in Requests : InFiles(req'[q], srv')
  <2> SUFFICES ASSUME NEW q \in Requests, q # p PROVE InFiles(req[q], srv')
    BY <1>2
  <2>1. InFiles(req[q], srv)
    BY DEF CatInv
  <2> QED BY <2>1 DEF InFiles
<1> QED BY <1>3, <1>4, KeptStep

LEMMA OverIn ==
  ASSUME NEW r, NEW s, NEW t, InFiles(r, s), r.pc # "idle", NEW d, NEW a, Over(r, d, a)
  PROVE  InFiles(d, t) /\ d.pc # "idle" /\ d.export = r.export /\ d.unread = r.unread
BY DEF InFiles, Over

LEMMA RestartIn ==
  ASSUME NEW r, NEW s, NEW t, InFiles(r, s), r.pc # "idle", NEW d, Restart(r, d)
  PROVE  InFiles(d, t) /\ d.pc # "idle" /\ d.export = r.export /\ d.unread = r.unread
BY DEF InFiles, Restart

LEMMA LastTakenIn ==
  ASSUME NEW r, NEW s, NEW t, InFiles(r, s), r.pc # "idle", NEW d, LastTaken(r, d)
  PROVE  InFiles(d, t) /\ d.pc # "idle" /\ d.export = r.export /\ d.unread = r.unread
<1>1. CASE Unrefused(r, d)
  <2>1. PICK a : Over(r, d, a)
    BY <1>1 DEF Unrefused
  <2> QED BY <2>1, OverIn
<1>2. CASE Restart(r, d)
  BY <1>2, RestartIn
<1> QED BY <1>1, <1>2 DEF LastTaken

LEMMA RefusedIn ==
  ASSUME NEW r, NEW s, NEW t, InFiles(r, s), r.pc # "idle", NEW d, Refused(r, d) \/ Unrefused(r, d)
  PROVE  InFiles(d, t) /\ d.pc # "idle" /\ d.export = r.export /\ d.unread = r.unread
<1>1. PICK a : Over(r, d, a)
  BY DEF Refused, Unrefused
<1> QED BY <1>1, OverIn

\* What NextPc says of the position.
LEMMA NextPcIn ==
  ASSUME NEW x, ExportOK(x), NEW i \in Nat \ {0}, NEW mode
  PROVE  LET pc == NextPc(x, i, mode) IN
         /\ pc \in {"get_variant", "put_metadata", "get_metadata"}
         /\ pc = "get_variant" <=> i \in DOMAIN x.files
         /\ pc = "put_metadata" => mode = "dry"
BY SMT DEF NextPc, ExportOK

LEMMA NoneBelow == ASSUME NEW m, NEW n \in Nat, m = 0 PROVE ~(m > n)
OBVIOUS

\* A real write of a publish: only an excused variant changes hands.
LEMMA WriteSteady ==
  ASSUME CatInv, NEW p \in Requests, Pub(p, "put_variant"),
         LET f == req[p].export.files[req[p].i] IN
           TakesVariant(req[p].etag, f.id, f.document) /\ srv' = WithVariant(srv, f.id, f.document)
  PROVE  SrvOK(srv') /\ srv'.model = srv.model /\ Steady
<1>1. PICK r, f : r = req[p] /\ f = r.export.files[r.i]
  OBVIOUS
<1>2. r.pc = "put_variant" /\ InFiles(r, srv) /\ SrvOK(srv)
  BY <1>1 DEF Pub, CatInv
<1>3. srv.model /\ r.i \in DOMAIN r.export.files /\ ExportOK(r.export)
  BY <1>2 DEF InFiles
<1>4. f.document \in Docs /\ IsSeq(f.id)
  BY <1>1, <1>3 DEF ExportOK
<1>5. TakesVariant(r.etag, f.id, f.document) /\ srv' = WithVariant(srv, f.id, f.document)
  BY <1>1
<1>6. /\ SrvOK(srv') /\ srv'.model = srv.model /\ srv'.meta = srv.meta
      /\ DOMAIN srv'.variants = DOMAIN srv.variants \union {f.id}
      /\ \A v \in DOMAIN srv'.variants : srv'.variants[v] = IF v = f.id THEN f.document ELSE srv.variants[v]
  <2>1. PICK s, t, id, doc : s = srv /\ t = srv' /\ id = f.id /\ doc = f.document
    OBVIOUS
  <2>2. SrvOK(s) /\ s.model /\ IsSeq(id) /\ doc \in Docs /\ t = WithVariant(s, id, doc)
    BY <1>2, <1>3, <1>4, <1>5, <2>1
  <2>3. Wrote(s, t, id, doc)
    BY <2>2, WithVariantIs, Zenon
  <2> QED BY <2>1, <2>3, Zenon DEF Wrote
<1>7. ASSUME NEW v \in DOMAIN srv.variants
      PROVE  Excused(v) \/ Holds(srv', v, srv.variants[v].image)
  <2>1. CASE v # f.id
    BY <1>6, <2>1 DEF Holds
  <2>2. CASE v = f.id
    <3>1. srv'.variants[v] = f.document /\ v \in DOMAIN srv'.variants
      BY <1>6, <2>2
    <3>2. Excused(f.id) \/ f.document.version = 0 \/ Holds(srv, f.id, f.document.image)
      BY <1>1, <1>2, <1>3 DEF CatInv, Kept, Files
    <3>3. CASE f.document.version = 0
      <4>1. srv.variants[v] \in Docs
        BY <1>2 DEF SrvOK
      <4>2. srv.variants[v].version \in Nat
        BY <4>1 DEF Docs
      <4>3. ~(f.document.version > srv.variants[v].version)
        BY <3>3, <4>2, NoneBelow, Zenon
      <4>4. PICK doc, e : doc = f.document /\ e = r.etag
        OBVIOUS
      <4>5. TakesVariant(e, v, doc) /\ Has(v) /\ ~(doc.version > srv.variants[v].version)
        BY <1>5, <2>2, <4>3, <4>4 DEF Has
      <4>6. doc = srv.variants[v]
        <5>1. e # None
          BY <4>5, Zenon DEF TakesVariant
        <5>2. /\ srv.variants[v] = e
              /\ doc = e \/ doc.version > srv.variants[v].version
          BY <4>5, <5>1, Zenon DEF TakesVariant
        <5> QED BY <4>5, <5>2, Zenon
      <4> QED BY <3>1, <4>4, <4>6 DEF Holds
    <3>4. CASE Holds(srv, f.id, f.document.image)
      BY <2>2, <3>1, <3>4 DEF Holds
    <3> QED BY <2>2, <3>2, <3>3, <3>4
  <2> QED BY <2>1, <2>2
<1> QED BY <1>6, <1>7 DEF Steady

LEMMA KeptGetModel == ASSUME CatInv, ListInv', NEW p \in Requests, GetModel(p) PROVE CatInv'
<1>1. PICK r : r = req[p]
  OBVIOUS
<1>2. r.pc = "get_model" /\ InFiles(r, srv) /\ ListInv /\ SrvOK(srv)
  BY <1>1 DEF GetModel, Pub, CatInv
<1>3. srv' = srv /\ index' = index /\ pulls' = pulls
  BY DEF GetModel
<1>4. PICK d : /\ req' = [req EXCEPT ![p] = d]
               /\ \/ Unrefused(r, d)
                  \/ ~srv.model /\ Goes(r, d, "post_model")
                  \/ srv.model /\ Goes(r, d, NextPc(r.export, 1, r.mode))
  BY <1>1, <1>2, GetModelForms
<1>5. InFiles(d, srv) /\ d.pc # "idle" /\ d.export = r.export /\ d.unread = r.unread
  <2>1. CASE Unrefused(r, d)
    BY <1>2, <2>1, RefusedIn
  <2>2. CASE Goes(r, d, "post_model")
    BY <1>2, <2>2 DEF Goes, InFiles
  <2>3. CASE srv.model /\ Goes(r, d, NextPc(r.export, 1, r.mode))
    <3>1. PICK pc : pc = NextPc(r.export, 1, r.mode)
      OBVIOUS
    <3>2. ExportOK(r.export) /\ r.i = 1
      BY <1>2 DEF InFiles
    <3>3. pc \in {"get_variant", "put_metadata", "get_metadata"} /\ (pc = "get_variant" <=> 1 \in DOMAIN r.export.files)
      BY <3>1, <3>2, NextPcIn
    <3>4. d.pc = pc /\ d.i = 1 /\ d.export = r.export /\ d.unread = r.unread
      BY <2>3, <3>1, <3>2 DEF Goes
    <3> QED BY <2>3, <3>2, <3>3, <3>4 DEF InFiles
  <2> QED BY <1>4, <2>1, <2>2, <2>3
<1>6. Steady
  BY <1>3, Unmoved
<1> QED BY <1>1, <1>2, <1>3, <1>4, <1>5, <1>6, PublishStep

LEMMA KeptGetVariant == ASSUME CatInv, ListInv', NEW p \in Requests, GetVariant(p) PROVE CatInv'
<1>1. PICK r : r = req[p]
  OBVIOUS
<1>2. r.pc = "get_variant" /\ InFiles(r, srv) /\ ListInv /\ SrvOK(srv)
  BY <1>1 DEF GetVariant, Pub, CatInv
<1>3. srv' = srv /\ index' = index /\ pulls' = pulls
  BY DEF GetVariant
<1>4. PICK d : req' = [req EXCEPT ![p] = d] /\ Goes(r, d, "put_variant")
  BY <1>1, <1>2, GetVariantForms
<1>5. InFiles(d, srv) /\ d.pc # "idle" /\ d.export = r.export /\ d.unread = r.unread
  BY <1>2, <1>4 DEF Goes, InFiles
<1>6. Steady
  BY <1>3, Unmoved
<1> QED BY <1>1, <1>2, <1>3, <1>4, <1>5, <1>6, PublishStep

LEMMA KeptGetMetadata == ASSUME CatInv, ListInv', NEW p \in Requests, GetMetadata(p) PROVE CatInv'
<1>1. PICK r : r = req[p]
  OBVIOUS
<1>2. r.pc = "get_metadata" /\ InFiles(r, srv) /\ ListInv /\ SrvOK(srv)
  BY <1>1 DEF GetMetadata, Pub, CatInv
<1>3. srv' = srv /\ index' = index /\ pulls' = pulls
  BY DEF GetMetadata
<1>4. PICK d : req' = [req EXCEPT ![p] = d] /\ Goes(r, d, "put_metadata")
  BY <1>1, <1>2, GetMetadataForms
<1>5. InFiles(d, srv) /\ d.pc # "idle" /\ d.export = r.export /\ d.unread = r.unread
  BY <1>2, <1>4 DEF Goes, InFiles
<1>6. Steady
  BY <1>3, Unmoved
<1> QED BY <1>1, <1>2, <1>3, <1>4, <1>5, <1>6, PublishStep

LEMMA KeptLose == ASSUME CatInv, ListInv', NEW p \in Requests, Lose(p) PROVE CatInv'
<1>1. PICK r : r = req[p]
  OBVIOUS
<1>2. r.pc # "idle" /\ InFiles(r, srv) /\ ListInv /\ SrvOK(srv)
  BY <1>1 DEF Lose, CatInv
<1>3. srv' = srv /\ index' = index /\ pulls' = pulls
  BY DEF Lose
<1>4. PICK d : req' = [req EXCEPT ![p] = d] /\ Unrefused(r, d)
  BY <1>1, <1>2, LoseForms
<1>5. InFiles(d, srv) /\ d.pc # "idle" /\ d.export = r.export /\ d.unread = r.unread
  BY <1>2, <1>4, RefusedIn
<1>6. Steady
  BY <1>3, Unmoved
<1> QED BY <1>1, <1>2, <1>3, <1>4, <1>5, <1>6, PublishStep

LEMMA KeptPutMetadata ==
  ASSUME CatInv, ListInv', NEW p \in Requests, NEW heard, PutMetadata(p, heard) PROVE CatInv' /\ Steady
<1>1. PICK r : r = req[p]
  OBVIOUS
<1>2. r.pc = "put_metadata" /\ InFiles(r, srv) /\ ListInv /\ SrvOK(srv)
  BY <1>1 DEF PutMetadata, Pub, CatInv
<1>3. index' = index /\ pulls' = pulls
  BY DEF PutMetadata
<1>4. PICK d : /\ req' = [req EXCEPT ![p] = d]
               /\ \/ Refused(r, d) /\ srv' = srv
                  \/ LastTaken(r, d) /\ srv' = IF r.mode = "dry" THEN srv
                                               ELSE [srv EXCEPT !.meta = SentMeta(r)]
  BY <1>1, <1>2, PutMetadataForms
<1>5. InFiles(d, srv') /\ d.pc # "idle" /\ d.export = r.export /\ d.unread = r.unread
  BY <1>2, <1>4, RefusedIn, LastTakenIn
<1>6. SrvOK(srv') /\ srv'.model = srv.model /\ Steady
  <2>1. CASE srv' = srv
    BY <1>2, <2>1, Unmoved
  <2>2. CASE srv' = [srv EXCEPT !.meta = SentMeta(r)]
    <3>1. DOMAIN srv' = DOMAIN srv /\ srv'.variants = srv.variants /\ srv'.model = srv.model
      BY <1>2, <2>2 DEF SrvOK
    <3> QED BY <1>2, <3>1 DEF SrvOK, Steady, Holds
  <2> QED BY <1>4, <2>1, <2>2
<1> QED BY <1>1, <1>2, <1>3, <1>4, <1>5, <1>6, PublishStep

\* The next file is one, or the files are over.
LEMMA OnwardIn ==
  ASSUME NEW r, NEW s, NEW t, InFiles(r, s), r.pc # "idle", t.model, NEW d, Onward(r, d)
  PROVE  InFiles(d, t) /\ d.pc # "idle" /\ d.export = r.export /\ d.unread = r.unread
<1>1. PICK pc : pc = NextPc(r.export, r.i + 1, r.mode)
  OBVIOUS
<1>2. ExportOK(r.export) /\ r.i + 1 \in Nat \ {0}
  BY DEF InFiles
<1>3. pc \in {"get_variant", "put_metadata", "get_metadata"} /\ (pc = "get_variant" <=> r.i + 1 \in DOMAIN r.export.files)
  BY <1>1, <1>2, NextPcIn
<1>4. d.pc = pc /\ d.i = r.i + 1 /\ d.export = r.export /\ d.unread = r.unread
  BY <1>1 DEF Onward
<1> QED BY <1>2, <1>3, <1>4 DEF InFiles

LEMMA KeptPutVariant ==
  ASSUME CatInv, ListInv', NEW p \in Requests, NEW heard, PutVariant(p, heard) PROVE CatInv' /\ Steady
<1>1. PICK r, f : r = req[p] /\ f = req[p].export.files[req[p].i]
  OBVIOUS
<1>2. r.pc = "put_variant" /\ InFiles(r, srv) /\ ListInv /\ SrvOK(srv) /\ Pub(p, "put_variant")
  BY <1>1 DEF PutVariant, Pub, CatInv
<1>3. index' = index /\ pulls' = pulls
  BY DEF PutVariant
<1>4. PICK d : /\ req' = [req EXCEPT ![p] = d]
               /\ \/ Refused(r, d) /\ srv' = srv
                  \/ /\ TakesVariant(r.etag, f.id, f.document)
                     /\ Unrefused(r, d) \/ Onward(r, d)
                     /\ srv' = srv \/ srv' = WithVariant(srv, f.id, f.document)
  BY <1>1, <1>2, PutVariantForms
<1>5. SrvOK(srv') /\ srv'.model = srv.model /\ Steady
  <2>1. CASE srv' = srv
    BY <1>2, <2>1, Unmoved
  <2>2. CASE TakesVariant(r.etag, f.id, f.document) /\ srv' = WithVariant(srv, f.id, f.document)
    BY <1>1, <1>2, <2>2, WriteSteady
  <2> QED BY <1>4, <2>1, <2>2
<1>6. srv'.model
  BY <1>2, <1>5 DEF InFiles
<1>7. InFiles(d, srv') /\ d.pc # "idle" /\ d.export = r.export /\ d.unread = r.unread
  BY <1>2, <1>4, <1>6, RefusedIn, OnwardIn
<1> QED BY <1>1, <1>2, <1>3, <1>4, <1>5, <1>7, PublishStep

\* The whole model in one commit, on a branch that has none.
LEMMA KeptPostModel ==
  ASSUME CatInv, ListInv', NEW p \in Requests, NEW heard, PostModel(p, heard) PROVE CatInv' /\ Steady
<1>1. PICK r : r = req[p]
  OBVIOUS
<1>2. r.pc = "post_model" /\ InFiles(r, srv) /\ ListInv /\ SrvOK(srv)
  BY <1>1 DEF PostModel, Pub, CatInv
<1>3. index' = index /\ pulls' = pulls
  BY DEF PostModel
<1>4. PICK m : m = r.export.meta
  OBVIOUS
<1> DEFINE s == [NoModel EXCEPT !.model = TRUE, !.meta = m]
<1>5. PICK d : /\ req' = [req EXCEPT ![p] = d]
               /\ \/ Refused(r, d) /\ srv' = srv
                  \/ /\ ~srv.model /\ LastTaken(r, d)
                     /\ srv' = srv \/ srv' = WithFiles(s, r.export.files)
  BY <1>1, <1>2, <1>4, PostModelForms
<1>6. InFiles(d, srv') /\ d.pc # "idle" /\ d.export = r.export /\ d.unread = r.unread
  BY <1>2, <1>5, RefusedIn, LastTakenIn
<1>7. CASE srv' = srv
  <2>1. Steady
    BY <1>7, Unmoved
  <2> QED BY <1>1, <1>2, <1>3, <1>5, <1>6, <1>7, <2>1, PublishStep
<1>8. CASE ~srv.model /\ srv' = WithFiles(s, r.export.files)
  <2>1. DOMAIN s = {"model", "variants", "meta"} /\ s.model = TRUE /\ s.meta = m /\ s.variants = <<>>
    BY NoModelOK
  <2>2. DOMAIN s.variants = {}
    BY <2>1
  <2>3. SrvOK(s)
    <3>1. s.variants \in [DOMAIN s.variants -> Docs]
      <4>1. \A e : e = <<>> => DOMAIN e = {} /\ e \in [{} -> Docs]
        OBVIOUS
      <4> QED BY <2>1, <2>2, <4>1
    <3> HIDE DEF s
    <3> QED BY <2>1, <2>2, <3>1, FS_EmptySet DEF SrvOK
  <2> HIDE DEF s
  <2>4. ExportOK(r.export)
    BY <1>2 DEF InFiles
  <2> DEFINE w == WithFiles(s, r.export.files)
             t == [w EXCEPT !.model = TRUE, !.meta = m]
  <2>5. SrvOK(t) /\ t.model
    <3>1. Joined(s, t, r.export)
      BY <2>3, <2>4, WithFilesIs, Zenon
    <3> HIDE DEF t
    <3> QED BY <3>1 DEF Joined
  <2>6. DOMAIN w = {"model", "variants", "meta"} /\ w.model = TRUE /\ w.meta = m
        /\ w = [x \in {"model", "variants", "meta"} |-> w[x]]
    <3>1. \E vs : w = [s EXCEPT !.variants = vs]
      BY DEF WithFiles
    <3>2. PICK vs : w = [s EXCEPT !.variants = vs]
      BY <3>1
    <3> HIDE DEF w
    <3> QED BY <2>1, <3>2
  <2>7. w = t
    <3> HIDE DEF w
    <3> QED BY <2>6
  <2> HIDE DEF t, w
  <2>8. SrvOK(srv')
    BY <1>8, <2>5, <2>7 DEF w
  <2>9. Steady
    BY <1>2, <1>8 DEF SrvOK, Steady
  <2> QED BY <1>1, <1>2, <1>3, <1>5, <1>6, <1>8, <2>8, <2>9, PublishStep
<1> QED BY <1>5, <1>7, <1>8

\* A merge replaces only files the pull request was based on.
LEMMA KeptMerge ==
  ASSUME CatInv, ListInv', NEW pr \in pulls, Merge(pr) PROVE CatInv' /\ Steady
<1>1. PICK x, base : x = pr.export /\ base = pr.base
  OBVIOUS
<1>2. SrvOK(srv) /\ SrvOK(base) /\ ExportOK(x)
  BY <1>1 DEF CatInv
<1> DEFINE m == x.meta
           t == [WithFiles(srv, x.files) EXCEPT !.model = TRUE, !.meta = m]
           At(s, v) == IF v \in DOMAIN s.variants THEN s.variants[v] ELSE None
<1>3. /\ srv' = t /\ pulls' = pulls \ {pr} /\ index' = index /\ req' = req
      /\ \A v \in {x.files[i].id : i \in DOMAIN x.files} : At(srv, v) = At(base, v)
  BY <1>1, Zenon DEF Merge
<1>4. /\ SrvOK(t) /\ t.model
      /\ DOMAIN srv.variants \subseteq DOMAIN t.variants
      /\ \A v \in DOMAIN srv.variants :
           \/ t.variants[v] = srv.variants[v]
           \/ \E k \in DOMAIN x.files : x.files[k].id = v /\ t.variants[v] = x.files[k].document
  <2>1. PICK s, y, z : s = srv /\ y = t /\ z = m
    OBVIOUS
  <2>2. SrvOK(s) /\ ExportOK(x) /\ y = [WithFiles(s, x.files) EXCEPT !.model = TRUE, !.meta = z]
    BY <1>2, <2>1, Zenon
  <2>3. Joined(s, y, x)
    BY <2>2, WithFilesIs, Zenon
  <2> QED BY <2>1, <2>3, Zenon DEF Joined
<1> HIDE DEF t
<1>5. ASSUME NEW v \in DOMAIN srv.variants
      PROVE  Excused(v) \/ Holds(t, v, srv.variants[v].image)
  <2>1. CASE t.variants[v] = srv.variants[v]
    BY <1>4, <2>1 DEF Holds
  <2>2. CASE \E k \in DOMAIN x.files : x.files[k].id = v /\ t.variants[v] = x.files[k].document
    <3>1. PICK k \in DOMAIN x.files : x.files[k].id = v /\ t.variants[v] = x.files[k].document
      BY <2>2
    <3>2. At(srv, v) = At(base, v)
      BY <1>3, <3>1
    <3>3. srv.variants[v] \in Docs
      BY <1>2 DEF SrvOK
    <3>4. v \in DOMAIN base.variants /\ base.variants[v] = srv.variants[v]
      BY <3>2, <3>3, DocNotNone
    <3>5. Excused(v) \/ v \notin DOMAIN base.variants \/ Holds(base, v, x.files[k].document.image)
      BY <1>1, <3>1 DEF CatInv, Kept, Files
    <3> QED BY <1>4, <3>1, <3>4, <3>5 DEF Holds
  <2> QED BY <1>4, <2>1, <2>2
<1>6. Steady
  BY <1>3, <1>5 DEF Steady
<1>7. SameExports
  BY <1>3 DEF SameExports
<1>8. \A q \in Requests : InFiles(req'[q], srv')
  BY <1>3, <1>4 DEF CatInv, InFiles
<1>9. pulls' \subseteq pulls /\ SrvOK(srv')
  BY <1>3, <1>4
<1>10. CatInv'
  BY <1>3, <1>6, <1>7, <1>8, <1>9, KeptStep
<1> QED BY <1>6, <1>10

-----------------------------------------------------------------------------
(* Ask. *)

\* What an export of b over e is.
Built(b, e, x) ==
  /\ ExportOK(x)
  /\ \A k \in DOMAIN x.files : Succeeds(x.files[k], x, e)
  /\ IsInjective(NumberedIds(b.sources)) => IdsDiffer(x.files)
  /\ x.errors = {} => DefaultKnown(x, DOMAIN e.variants)

LEMMA BuiltIs ==
  ASSUME NEW b, BodyOK(b), NEW e, ReadOK(e), NEW x, x = build_catalog_entry(b, e)
  PROVE  Built(b, e, x)
BY BuildForms, Zenon DEF Built

\* A request as Ask leaves it: refused, invalid, answered with the files, or
\* about to be published.
Begun(d, x, unread) ==
  /\ DOMAIN d = Fields /\ d.export = x /\ d.unread = unread /\ d.i = 1 /\ d.mode = "dry"
  /\ d.answer \notin Refusals
  /\ d.pc = "done" \/ (d.pc = "get_model" /\ x.errors = {})

\* What Ask does: nothing was read, or the index was.
LEMMA AskForms ==
  ASSUME NEW p \in Requests, NEW b, NEW seen, NEW unread, Ask(p, b, seen, unread)
  PROVE  \E d, x, e :
           /\ req' = [req EXCEPT ![p] = d] /\ Begun(d, x, unread) /\ x = build_catalog_entry(b, e)
           /\ \/ e = NoModel /\ pulls' = pulls /\ alone' = [alone EXCEPT ![p] = FALSE]
              \/ /\ e = lookup(unread)
                 /\ pulls' = pulls \/ pulls' = pulls \union {[base |-> index, export |-> x]}
                 /\ alone' = [alone EXCEPT ![p] = (index = srv)]
<1> DEFINE read == b.use /\ seen
           e == IF read THEN lookup(unread) ELSE NoModel
           x == build_catalog_entry(b, e)
           r == [Idle EXCEPT !.body = b, !.export = x, !.unread = unread, !.pc = "get_model"]
           d == IF ~from_run_ok(b) THEN Ended(r, "refused run")
                ELSE IF x.errors # {} /\ b.kind # "preview" THEN Ended(r, "invalid")
                ELSE IF WithReport(b) THEN Ended(r, "built")
                ELSE r
           took == b.kind = "archive" /\ x.errors = {} /\ from_run_ok(b) /\ read
<1>1. /\ req' = [req EXCEPT ![p] = d]
      /\ pulls' = IF took THEN pulls \union {[base |-> index, export |-> x]} ELSE pulls
      /\ alone' = [alone EXCEPT ![p] = read /\ index = srv]
  BY Zenon DEF Ask
<1>2. \/ e = NoModel /\ pulls' = pulls /\ alone' = [alone EXCEPT ![p] = FALSE]
      \/ /\ e = lookup(unread)
         /\ pulls' = pulls \/ pulls' = pulls \union {[base |-> index, export |-> x]}
         /\ alone' = [alone EXCEPT ![p] = (index = srv)]
  <2>1. CASE read
    <3>1. (read /\ index = srv) = (index = srv)
      BY <2>1
    <3>2. e = lookup(unread)
      BY <2>1, Zenon
    <3> HIDE DEF read, e, x, took
    <3> QED BY <1>1, <3>1, <3>2, Zenon
  <2>2. CASE ~read
    <3>1. (read /\ index = srv) = FALSE /\ ~took
      BY <2>2
    <3>2. e = NoModel
      BY <2>2, Zenon
    <3> HIDE DEF read, e, x, took
    <3> QED BY <1>1, <3>1, <3>2, Zenon
  <2> QED BY <2>1, <2>2
<1> HIDE DEF e, x, read, took
<1>3. /\ DOMAIN r = Fields /\ r.export = x /\ r.unread = unread /\ r.i = 1 /\ r.mode = "dry"
      /\ r.answer = "" /\ r.pc = "get_model"
  <2>1. PICK y : y = x
    OBVIOUS
  <2>2. PICK s : s = [Idle EXCEPT !.body = b, !.export = y, !.unread = unread, !.pc = "get_model"]
    OBVIOUS
  <2>3. /\ DOMAIN s = Fields /\ s.export = y /\ s.unread = unread /\ s.i = 1 /\ s.mode = "dry"
        /\ s.answer = "" /\ s.pc = "get_model"
    BY <2>2, SMT DEF Idle, Fields
  <2>4. r = s
    BY <2>1, <2>2, Zenon
  <2> QED BY <2>1, <2>3, <2>4, Zenon
<1> HIDE DEF r
<1>4. ASSUME NEW a, a \notin Refusals PROVE Begun(Ended(r, a), x, unread)
  <2>1. PICK y : y = Ended(r, a)
    OBVIOUS
  <2>2. /\ DOMAIN y = Fields /\ y.export = r.export /\ y.unread = r.unread /\ y.i = 1
        /\ y.mode = r.mode /\ y.answer = a /\ y.pc = "done"
    <3>1. Over(r, y, a)
      BY <1>3, <2>1, LikeForms, EndedOver
    <3>2. y.mode = r.mode
      BY <1>3, <2>1, EndedIs, Zenon
    <3> QED BY <3>1, <3>2 DEF Over
  <2> QED BY <1>3, <1>4, <2>1, <2>2 DEF Begun
<1>5. ~(x.errors # {} /\ b.kind # "preview") /\ ~WithReport(b) => x.errors = {}
  BY DEF WithReport
<1>6. x.errors = {} => Begun(r, x, unread)
  BY <1>3 DEF Begun, Refusals
<1>7. "refused run" \notin Refusals /\ "invalid" \notin Refusals /\ "built" \notin Refusals
  BY DEF Refusals
<1>8. Begun(d, x, unread)
  BY <1>4, <1>5, <1>6, <1>7, Zenon
<1> HIDE DEF d
<1>9. x = build_catalog_entry(b, e)
  BY DEF x
<1> QED BY <1>1, <1>2, <1>8, <1>9, Zenon

\* Ids the export takes over are of the same deployment in the index.
LEMMA FromIndex ==
  ASSUME CatInv, NEW unread, NEW b, NEW e, e = NoModel \/ e = lookup(unread), NEW x, Built(b, e, x),
         NEW f \in Files(x)
  PROVE  \/ \E i \in DOMAIN x.variants : x.variants[i].id = f.id /\ x.variants[i].chosen
         \/ f.id \in unread
         \/ f.document.version = 0 /\ f.id \notin DOMAIN e.variants
         \/ e = lookup(unread) /\ Holds(index, f.id, f.document.image)
<1>1. SrvOK(index)
  BY DEF CatInv
<1>2. Succeeds(f, x, e)
  BY DEF Built, Files
<1>3. CASE f.id \notin DOMAIN e.variants
  BY <1>2, <1>3 DEF Succeeds
<1>4. CASE f.id \in DOMAIN e.variants
  <2>1. e = lookup(unread)
    BY <1>4, NoModelOK
  <2>2. PICK y : y = lookup(unread)
    OBVIOUS
  <2>3. /\ y.model = index.model /\ DOMAIN y.variants = DOMAIN index.variants
        /\ \A v \in DOMAIN index.variants :
             /\ y.variants[v].document # None => y.variants[v].document = index.variants[v]
             /\ y.variants[v].document = None => v \in unread
    BY <1>1, <2>2, LookupIs, Zenon
  <2>4. f.id \in DOMAIN index.variants /\ e = y
    BY <1>4, <2>1, <2>2, <2>3
  <2>5. index.model
    BY <1>1, <2>4 DEF SrvOK
  <2>6. \/ \E i \in DOMAIN x.variants : x.variants[i].id = f.id /\ x.variants[i].chosen
        \/ ~e.model
        \/ e.variants[f.id].document = None
        \/ e.variants[f.id].document.image = f.document.image
    BY <1>2, <1>4 DEF Succeeds
  <2>7. ~e.model => FALSE
    BY <2>3, <2>4, <2>5, Zenon
  <2> QED BY <2>1, <2>3, <2>4, <2>6, <2>7 DEF Holds
<1> QED BY <1>3, <1>4

\* A new request joins: its files are of the deployments the index has.
LEMMA KeptAsk ==
  ASSUME CatInv, ListInv', NEW p \in Requests, NEW b \in Bodies, NEW seen, NEW unread,
         Ask(p, b, seen, unread)
  PROVE  CatInv'
<1>1. PICK d, x, e :
           /\ req' = [req EXCEPT ![p] = d] /\ Begun(d, x, unread) /\ x = build_catalog_entry(b, e)
           /\ \/ e = NoModel /\ pulls' = pulls /\ alone' = [alone EXCEPT ![p] = FALSE]
              \/ /\ e = lookup(unread)
                 /\ pulls' = pulls \/ pulls' = pulls \union {[base |-> index, export |-> x]}
                 /\ alone' = [alone EXCEPT ![p] = (index = srv)]
  BY AskForms, Zenon
<1>2. req[p].pc = "idle" /\ srv' = srv /\ index' = index
  BY DEF Ask
<1>3. ListInv /\ SrvOK(srv) /\ SrvOK(index)
  BY DEF CatInv
<1>4. req'[p] = d /\ \A q \in Requests : q # p => req'[q] = req[q]
  BY <1>1, <1>3, MovedOne
<1>5. Built(b, e, x)
  <2>1. ReadOK(e)
    <3>1. PICK y : y = lookup(unread)
      OBVIOUS
    <3>2. ReadOK(y)
      BY <1>3, <3>1, LookupIs, Zenon
    <3> QED BY <1>1, <3>1, <3>2, NoModelOK
  <2> QED BY <1>1, <2>1, BodiesAssumption, BuiltIs
<1>6. /\ d.pc \in {"done", "get_model"} /\ d.i = 1 /\ d.export = x /\ d.unread = unread
  BY <1>1 DEF Begun
<1>7. ASSUME NEW v, Excused(v) PROVE Excused(v)'
  <2>1. PICK q \in Requests :
    /\ req[q].pc # "idle"
    /\ \/ v \in req[q].unread
       \/ \E i \in DOMAIN req[q].export.variants :
            req[q].export.variants[i].id = v /\ req[q].export.variants[i].chosen
    BY <1>7 DEF Excused
  <2>2. req'[q] = req[q]
    BY <1>2, <1>4, <2>1
  <2> QED BY <2>1, <2>2 DEF Excused
<1>8. ASSUME NEW v, v \in unread \/ \E i \in DOMAIN x.variants : x.variants[i].id = v /\ x.variants[i].chosen
      PROVE  Excused(v)'
  BY <1>4, <1>6, <1>8 DEF Excused
<1>9. ASSUME NEW f \in Files(x)
      PROVE  \/ Excused(f.id)'
             \/ f.document.version = 0 /\ f.id \notin DOMAIN e.variants
             \/ e = lookup(unread) /\ Holds(index, f.id, f.document.image)
  BY <1>1, <1>5, <1>8, FromIndex
<1>10. ASSUME NEW f \in Files(x)
       PROVE  Excused(f.id)' \/ f.document.version = 0 \/ Holds(srv, f.id, f.document.image)
  <2>1. CASE Holds(index, f.id, f.document.image)
    <3>1. f.id \in DOMAIN index.variants /\ index.variants[f.id].image = f.document.image
      BY <2>1 DEF Holds
    <3>2. Excused(f.id) \/ Holds(srv, f.id, f.document.image)
      BY <3>1 DEF CatInv, Kept
    <3> QED BY <1>7, <3>2
  <2> QED BY <1>9, <2>1
<1>11. \A v \in DOMAIN index'.variants : Excused(v)' \/ Holds(srv', v, index'.variants[v].image)
  BY <1>2, <1>7 DEF CatInv, Kept
<1>12. ASSUME NEW q \in Requests, req'[q].pc # "idle", NEW f \in Files(req'[q].export)
       PROVE  Excused(f.id)' \/ f.document.version = 0 \/ Holds(srv', f.id, f.document.image)
  <2>1. CASE q = p
    BY <1>2, <1>4, <1>6, <1>10, <1>12, <2>1
  <2>2. CASE q # p
    <3>1. req'[q] = req[q]
      BY <1>4, <2>2
    <3>2. Excused(f.id) \/ f.document.version = 0 \/ Holds(srv, f.id, f.document.image)
      BY <1>12, <3>1 DEF CatInv, Kept
    <3> QED BY <1>2, <1>7, <3>2
  <2> QED BY <2>1, <2>2
<1> DEFINE new == [base |-> index, export |-> x]
<1>13. new.base = index /\ new.export = x
  OBVIOUS
<1>14. ASSUME NEW pr \in pulls'
       PROVE  pr \in pulls \/ (pr = new /\ e = lookup(unread))
  BY <1>1
<1> HIDE DEF new
<1>15. ASSUME NEW pr \in pulls', NEW f \in Files(pr.export)
       PROVE  \/ Excused(f.id)'
              \/ f.id \notin DOMAIN pr.base.variants \/ Holds(pr.base, f.id, f.document.image)
  <2>1. CASE pr \in pulls
    BY <1>7, <1>15, <2>1 DEF CatInv, Kept
  <2>2. CASE pr = new /\ e = lookup(unread)
    <3>1. DOMAIN e.variants = DOMAIN index.variants
      <4>1. PICK y : y = lookup(unread)
        OBVIOUS
      <4>2. DOMAIN y.variants = DOMAIN index.variants
        BY <1>3, <4>1, LookupIs, Zenon
      <4> QED BY <2>2, <4>1, <4>2
    <3>2. pr.base = index /\ pr.export = x
      BY <1>13, <2>2
    <3> QED BY <1>9, <1>15, <3>1, <3>2
  <2> QED BY <1>14, <2>1, <2>2
<1>16. Kept'
  BY <1>11, <1>12, <1>15 DEF Kept
<1>17. ASSUME NEW q \in Requests PROVE InFiles(req'[q], srv')
  <2>1. CASE q = p
    <3>1. InFiles(d, srv')
      BY <1>5, <1>6 DEF InFiles, Built
    <3> QED BY <1>4, <2>1, <3>1
  <2>2. CASE q # p
    BY <1>2, <1>4, <2>2 DEF CatInv
  <2> QED BY <2>1, <2>2
<1>18. ASSUME NEW pr \in pulls' PROVE SrvOK(pr.base) /\ ExportOK(pr.export)
  <2>1. CASE pr \in pulls
    BY <2>1 DEF CatInv
  <2>2. CASE pr = new
    BY <1>3, <1>5, <1>13, <2>2 DEF Built
  <2> QED BY <1>14, <2>1, <2>2
<1>19. SrvOK(srv') /\ SrvOK(index')
  BY <1>2, <1>3
<1> QED BY <1>16, <1>17, <1>18, <1>19 DEF CatInv

-----------------------------------------------------------------------------

LEMMA InitCatInv == Init => CatInv
<1> SUFFICES ASSUME Init PROVE CatInv
  OBVIOUS
<1>1. PICK s \in Situations : srv = s.branch
  BY DEF Init
<1>2. /\ index = srv /\ pulls = {} /\ req = [p \in Requests |-> Idle]
  BY DEF Init
<1>3. BranchOK(srv)
  BY <1>1, SituationsAssumption
<1>4. SrvOK(srv)
  BY <1>3 DEF BranchOK, SrvOK, IsSeq
<1>5. Idle.i = 1 /\ Idle.pc = "idle"
  BY DEF Idle
<1> HIDE DEF Idle
<1>6. \A p \in Requests : req[p].i = 1 /\ req[p].pc = "idle"
  BY <1>2, <1>5
<1>7. \A p \in Requests : InFiles(req[p], srv)
  BY <1>6 DEF InFiles
<1>8. Kept
  BY <1>2, <1>6 DEF Kept, Holds
<1>9. ListInv
  BY InitListInv
<1> QED BY <1>2, <1>4, <1>7, <1>8, <1>9 DEF CatInv

\* A step that touches neither the branch nor a request.
LEMMA Elsewhere ==
  ASSUME CatInv, ListInv', srv' = srv, req' = req, pulls' = pulls, index' = index \/ index' = srv
  PROVE  CatInv' /\ Steady
<1>1. SameExports
  BY DEF SameExports
<1>2. Steady
  BY Unmoved
<1>3. SrvOK(srv') /\ \A q \in Requests : InFiles(req'[q], srv')
  BY DEF CatInv
<1> QED BY <1>1, <1>2, <1>3, KeptStep

\* Every step keeps CatInv and moves the branch steadily.
LEMMA NextCatInv ==
  ASSUME CatInv, [Next]_vars
  PROVE  CatInv' /\ Steady
<1>1. ListInv'
  BY NextListInv DEF CatInv
<1>2. CASE UNCHANGED vars
  BY <1>1, <1>2, Elsewhere DEF vars
<1>3. ASSUME NEW p \in Requests, NEW b \in Bodies, NEW seen \in BOOLEAN,
             NEW unread \in UnreadSets, Ask(p, b, seen, unread)
      PROVE  CatInv' /\ Steady
  <2>1. srv' = srv
    BY <1>3 DEF Ask
  <2> QED BY <1>1, <1>3, <2>1, KeptAsk, Unmoved
<1>4. ASSUME NEW p \in Requests,
             GetModel(p) \/ GetVariant(p) \/ GetMetadata(p) \/ Lose(p)
      PROVE  CatInv' /\ Steady
  <2>1. srv' = srv
    BY <1>4 DEF GetModel, GetVariant, GetMetadata, Lose
  <2> QED BY <1>1, <1>4, <2>1, KeptGetModel, KeptGetVariant, KeptGetMetadata, KeptLose, Unmoved
<1>5. ASSUME NEW p \in Requests, NEW heard \in BOOLEAN,
             PostModel(p, heard) \/ PutVariant(p, heard) \/ PutMetadata(p, heard)
      PROVE  CatInv' /\ Steady
  BY <1>1, <1>5, KeptPostModel, KeptPutVariant, KeptPutMetadata
<1>6. ASSUME NEW pr \in pulls, Merge(pr) PROVE CatInv' /\ Steady
  BY <1>1, <1>6, KeptMerge
<1>7. ASSUME PublishIndex \/ EditRecipe \/ clear_env_category PROVE CatInv' /\ Steady
  <2>1. srv' = srv /\ req' = req /\ pulls' = pulls /\ (index' = index \/ index' = srv)
    BY <1>7 DEF PublishIndex, EditRecipe, clear_env_category
  <2> QED BY <1>1, <2>1, Elsewhere
<1>8. ASSUME NEW c \in {"recipe", "site"}, set_env_category(c) PROVE CatInv' /\ Steady
  <2>1. srv' = srv /\ req' = req /\ pulls' = pulls /\ index' = index
    BY <1>8 DEF set_env_category
  <2> QED BY <1>1, <2>1, Elsewhere
<1> QED BY <1>2, <1>3, <1>4, <1>5, <1>6, <1>7, <1>8, Zenon DEF Next

LEMMA CatInvHolds == Spec => []CatInv
<1>1. Init => CatInv
  BY InitCatInv
<1>2. CatInv /\ [Next]_vars => CatInv'
  BY NextCatInv
<1> QED BY <1>1, <1>2, PTL DEF Spec

\* No variant file changes hands under an id the platform derived, unless an
\* export could not read that file (_own_lineage, __init__.py:1005-1057): for
\* every catalog, every set of requests and every way publishes, merged pull
\* requests and index builds interleave.
THEOREM NoDeploymentIsReplaced == Spec => DeploymentKept
<1>1. ASSUME Steady
      PROVE  \A v \in DOMAIN srv.variants :
               srv'.variants[v].image # srv.variants[v].image =>
                 \E p \in Requests : req[p].pc # "idle" /\
                   (v \in req[p].unread \/
                    \E i \in DOMAIN req[p].export.variants :
                      LET x == req[p].export.variants[i] IN x.id = v /\ x.chosen)
  BY <1>1 DEF Steady, Excused, Holds
<1>2. CatInv /\ [Next]_vars =>
        [\A v \in DOMAIN srv.variants :
               srv'.variants[v].image # srv.variants[v].image =>
                 \E p \in Requests : req[p].pc # "idle" /\
                   (v \in req[p].unread \/
                    \E i \in DOMAIN req[p].export.variants :
                      LET x == req[p].export.variants[i] IN x.id = v /\ x.chosen)]_vars
  BY <1>1, NextCatInv
<1> QED BY <1>2, CatInvHolds, PTL DEF Spec, DeploymentKept

-----------------------------------------------------------------------------
(* RefusedForCause. *)

Publishing == {"get_model", "post_model", "get_variant", "put_variant", "get_metadata",
               "put_metadata"}

\* The files still to be written are later versions of what the branch s has.
Ahead(r, s) ==
  \A k \in DOMAIN r.export.files :
    LET f == r.export.files[k] IN
    (r.mode = "real" => r.i <= k) /\ f.id \in DOMAIN s.variants
      => f.document.version > s.variants[f.id].version

\* The files written are on the branch, or would be.
Behind(r, s) ==
  \A k \in DOMAIN r.export.files : k < r.i =>
    LET id == r.export.files[k].id IN
    id \in DOMAIN s.variants \/ (r.mode = "dry" /\ id \in r.added)

AllWritten(r) == \A k \in DOMAIN r.export.files : k < r.i

\* The etag of the file being written is the branch's.
TagOf(r, s) ==
  LET id == r.export.files[r.i].id IN
  /\ id \in DOMAIN s.variants => r.etag = s.variants[id]
  /\ id \notin DOMAIN s.variants => r.etag = None
  /\ id \in DOMAIN s.variants \/ id \in r.added

\* The server takes what the publish will send, as long as the branch is s.
Ready(r, s) ==
  /\ IdsDiffer(r.export.files) /\ DefaultKnown(r.export, DOMAIN s.variants) /\ Ahead(r, s)
  /\ r.pc = "post_model" => ~s.model
  /\ r.pc \in {"get_variant", "put_variant", "get_metadata", "put_metadata"} =>
       r.model_etag = s.meta /\ Behind(r, s)
  /\ r.pc = "put_variant" => TagOf(r, s)
  /\ r.pc \in {"get_metadata", "put_metadata"} => AllWritten(r)
  /\ r.pc = "put_metadata" => r.etag = s.meta

Unhindered(r, s) == r.answer \notin Refusals /\ (r.pc \in Publishing => Ready(r, s))

\* The inductive invariant of RefusedForCause.
AloneInv ==
  /\ alone \in [Requests -> BOOLEAN]
  /\ \A p \in Requests : alone[p] => Unhindered(req[p], srv)

\* After a write everyone else is out of date.
LEMMA OthersOut ==
  ASSUME alone \in [Requests -> BOOLEAN], NEW p \in Requests, NEW changed, OthersSee(p, changed)
  PROVE  /\ alone' \in [Requests -> BOOLEAN] /\ alone'[p] = alone[p]
         /\ \A q \in Requests : q # p /\ alone'[q] => alone[q] /\ ~changed
<1>1. alone' = [q \in Requests |-> IF q = p \/ ~changed THEN alone[q] ELSE FALSE]
  BY DEF OthersSee
<1>2. ASSUME NEW q \in Requests
      PROVE  /\ alone'[q] = IF q = p \/ ~changed THEN alone[q] ELSE FALSE
             /\ alone'[q] \in BOOLEAN
  BY <1>1
<1>3. alone' \in [Requests -> BOOLEAN]
  BY <1>1
<1>4. ASSUME NEW q \in Requests, q # p, alone'[q] PROVE alone[q] /\ ~changed
  BY <1>2, <1>4
<1> QED BY <1>2, <1>3, <1>4

\* One request moves; the others see the same branch or are out of date.
LEMMA AloneStep ==
  ASSUME ListInv, AloneInv, NEW p \in Requests, NEW d, req' = [req EXCEPT ![p] = d],
         alone' \in [Requests -> BOOLEAN],
         \A q \in Requests : q # p /\ alone'[q] => alone[q] /\ srv' = srv,
         alone'[p] => Unhindered(d, srv')
  PROVE  AloneInv'
<1>1. req'[p] = d /\ \A q \in Requests : q # p => req'[q] = req[q]
  BY MovedOne
<1>2. ASSUME NEW q \in Requests, alone'[q] PROVE Unhindered(req'[q], srv')
  <2>1. CASE q = p
    BY <1>1, <1>2, <2>1
  <2>2. CASE q # p
    <3>1. alone[q] /\ srv' = srv /\ req'[q] = req[q]
      BY <1>1, <1>2, <2>2
    <3>2. Unhindered(req[q], srv)
      BY <3>1 DEF AloneInv
    <3> QED BY <3>1, <3>2
  <2> QED BY <2>1, <2>2
<1> QED BY <1>2 DEF AloneInv

LEMMA UnrefusedFree ==
  ASSUME NEW r, NEW d, NEW s, Unrefused(r, d)
  PROVE  Unhindered(d, s)
BY DEF Unrefused, Over, Unhindered, Refusals, Publishing

\* The real run begins where the dry run began.
LEMMA RestartFree ==
  ASSUME NEW r, NEW d, NEW s, Unhindered(r, s), r.pc \in Publishing, r.mode = "dry", Restart(r, d)
  PROVE  Unhindered(d, s)
<1>1. d.export = r.export /\ d.pc = "get_model" /\ d.answer = r.answer
  BY DEF Restart
<1>2. r.answer \notin Refusals /\ Ready(r, s)
  BY DEF Unhindered
<1>3. IdsDiffer(d.export.files) /\ DefaultKnown(d.export, DOMAIN s.variants)
  BY <1>1, <1>2 DEF Ready
<1>4. Ahead(d, s)
  BY <1>1, <1>2 DEF Ready, Ahead
<1> QED BY <1>1, <1>2, <1>3, <1>4 DEF Unhindered, Ready

LEMMA LastTakenFree ==
  ASSUME NEW r, NEW d, NEW s, NEW t, Unhindered(r, s), r.pc \in Publishing, LastTaken(r, d),
         r.mode = "dry" => t = s
  PROVE  Unhindered(d, t)
BY UnrefusedFree, RestartFree DEF LastTaken

\* The position NextPc names.
LEMMA NextPcWritten ==
  ASSUME NEW x, ExportOK(x), NEW i \in Nat \ {0}, NEW mode, NextPc(x, i, mode) # "get_variant"
  PROVE  \A k \in DOMAIN x.files : k < i
BY DEF NextPc, ExportOK

LEMMA FreeGetModel ==
  ASSUME CatInv, AloneInv, NEW p \in Requests, GetModel(p)
  PROVE  AloneInv'
<1>1. PICK r : r = req[p]
  OBVIOUS
<1>2. ListInv /\ InFiles(r, srv) /\ r.pc = "get_model" /\ alone \in [Requests -> BOOLEAN]
  BY <1>1 DEF CatInv, GetModel, Pub, AloneInv
<1>3. srv' = srv /\ alone' = alone
  BY DEF GetModel
<1>4. PICK d : /\ req' = [req EXCEPT ![p] = d]
               /\ \/ Unrefused(r, d)
                  \/ ~srv.model /\ Goes(r, d, "post_model")
                  \/ /\ srv.model /\ d.model_etag = srv.meta /\ d.etag = srv.meta
                     /\ Goes(r, d, NextPc(r.export, 1, r.mode))
  BY <1>1, <1>2, GetModelForms
<1>5. ASSUME alone[p] PROVE Unhindered(d, srv)
  <2>1. r.answer \notin Refusals /\ Ready(r, srv)
    BY <1>1, <1>2, <1>5 DEF AloneInv, Unhindered, Publishing
  <2>2. ASSUME NEW pc, Goes(r, d, pc)
        PROVE  /\ IdsDiffer(d.export.files) /\ DefaultKnown(d.export, DOMAIN srv.variants)
               /\ Ahead(d, srv) /\ d.answer \notin Refusals /\ d.pc = pc /\ d.export = r.export
               /\ d.i = r.i /\ d.mode = r.mode
    BY <2>1, <2>2 DEF Goes, Ready, Ahead
  <2>3. CASE Unrefused(r, d)
    BY <2>3, UnrefusedFree
  <2>4. CASE ~srv.model /\ Goes(r, d, "post_model")
    BY <2>2, <2>4 DEF Unhindered, Ready
  <2>5. CASE /\ srv.model /\ d.model_etag = srv.meta /\ d.etag = srv.meta
             /\ Goes(r, d, NextPc(r.export, 1, r.mode))
    <3>1. PICK pc : pc = NextPc(r.export, 1, r.mode)
      OBVIOUS
    <3>2. ExportOK(r.export) /\ r.i = 1
      BY <1>2 DEF InFiles
    <3>3. /\ pc \in {"get_variant", "put_metadata", "get_metadata"}
          /\ pc # "get_variant" => \A k \in DOMAIN r.export.files : k < 1
      BY <3>1, <3>2, NextPcIn, NextPcWritten
    <3>4. \A k \in DOMAIN r.export.files : ~(k < 1)
      BY <3>2 DEF ExportOK
    <3>5. Goes(r, d, pc)
      BY <2>5, <3>1
    <3>6. Behind(d, srv)
      BY <2>2, <3>2, <3>4, <3>5 DEF Behind
    <3>7. d.pc # "get_variant" => AllWritten(d)
      BY <2>2, <3>2, <3>3, <3>5 DEF AllWritten
    <3> QED BY <2>2, <2>5, <3>3, <3>5, <3>6, <3>7 DEF Unhindered, Ready
  <2> QED BY <1>4, <2>3, <2>4, <2>5
<1> QED BY <1>2, <1>3, <1>4, <1>5, AloneStep

LEMMA FreeGetVariant ==
  ASSUME CatInv, AloneInv, NEW p \in Requests, GetVariant(p)
  PROVE  AloneInv'
<1>1. PICK r : r = req[p]
  OBVIOUS
<1>2. ListInv /\ InFiles(r, srv) /\ r.pc = "get_variant" /\ alone \in [Requests -> BOOLEAN]
  BY <1>1 DEF CatInv, GetVariant, Pub, AloneInv
<1>3. srv' = srv /\ alone' = alone
  BY DEF GetVariant
<1>4. PICK d : /\ req' = [req EXCEPT ![p] = d]
               /\ Goes(req[p], d, "put_variant") /\ d.model_etag = req[p].model_etag
               /\ LET id == req[p].export.files[req[p].i].id IN
                  /\ d.etag = IF Has(id) THEN srv.variants[id] ELSE None
                  /\ d.added = IF Has(id) THEN req[p].added ELSE req[p].added \union {id}
  BY <1>2, GetVariantForms
<1>5. ASSUME alone[p] PROVE Unhindered(d, srv)
  <2>1. r.answer \notin Refusals /\ Ready(r, srv)
    BY <1>1, <1>2, <1>5 DEF AloneInv, Unhindered, Publishing
  <2>2. /\ IdsDiffer(d.export.files) /\ DefaultKnown(d.export, DOMAIN srv.variants)
        /\ Ahead(d, srv) /\ d.answer \notin Refusals /\ d.pc = "put_variant" /\ d.export = r.export
        /\ d.i = r.i /\ d.mode = r.mode
    BY <1>1, <1>4, <2>1 DEF Goes, Ready, Ahead
  <2>3. PICK id : id = r.export.files[r.i].id
    OBVIOUS
  <2>4. /\ d.etag = IF id \in DOMAIN srv.variants THEN srv.variants[id] ELSE None
        /\ d.added = IF id \in DOMAIN srv.variants THEN r.added ELSE r.added \union {id}
        /\ d.model_etag = r.model_etag
    BY <1>1, <1>4, <2>3 DEF Has
  <2>5. r.model_etag = srv.meta /\ Behind(r, srv)
    BY <1>2, <2>1 DEF Ready
  <2>6. Behind(d, srv)
    BY <2>2, <2>4, <2>5 DEF Behind
  <2>7. TagOf(d, srv)
    BY <2>2, <2>3, <2>4 DEF TagOf
  <2> QED BY <2>2, <2>4, <2>5, <2>6, <2>7 DEF Unhindered, Ready
<1> QED BY <1>2, <1>3, <1>4, <1>5, AloneStep

LEMMA FreeGetMetadata ==
  ASSUME CatInv, AloneInv, NEW p \in Requests, GetMetadata(p)
  PROVE  AloneInv'
<1>1. PICK r : r = req[p]
  OBVIOUS
<1>2. ListInv /\ r.pc = "get_metadata" /\ alone \in [Requests -> BOOLEAN]
  BY <1>1 DEF CatInv, GetMetadata, Pub, AloneInv
<1>3. srv' = srv /\ alone' = alone
  BY DEF GetMetadata
<1>4. PICK d : /\ req' = [req EXCEPT ![p] = d]
               /\ Goes(r, d, "put_metadata") /\ d.model_etag = r.model_etag
               /\ d.etag = srv.meta /\ d.added = r.added
  BY <1>1, <1>2, GetMetadataForms
<1>5. ASSUME alone[p] PROVE Unhindered(d, srv)
  <2>1. r.answer \notin Refusals /\ Ready(r, srv)
    BY <1>1, <1>2, <1>5 DEF AloneInv, Unhindered, Publishing
  <2>2. /\ IdsDiffer(d.export.files) /\ DefaultKnown(d.export, DOMAIN srv.variants)
        /\ Ahead(d, srv) /\ d.answer \notin Refusals /\ d.pc = "put_metadata" /\ d.export = r.export
        /\ d.i = r.i /\ d.mode = r.mode
    BY <1>4, <2>1 DEF Goes, Ready, Ahead
  <2>3. r.model_etag = srv.meta /\ Behind(r, srv) /\ AllWritten(r)
    BY <1>2, <2>1 DEF Ready
  <2>4. Behind(d, srv) /\ AllWritten(d)
    BY <1>4, <2>2, <2>3 DEF Behind, AllWritten
  <2> QED BY <1>4, <2>2, <2>3, <2>4 DEF Unhindered, Ready
<1> QED BY <1>2, <1>3, <1>4, <1>5, AloneStep

LEMMA FreeLose ==
  ASSUME CatInv, AloneInv, NEW p \in Requests, Lose(p)
  PROVE  AloneInv'
<1>1. ListInv /\ alone \in [Requests -> BOOLEAN]
  BY DEF CatInv, AloneInv
<1>2. srv' = srv /\ alone' = alone
  BY DEF Lose
<1>3. PICK d : req' = [req EXCEPT ![p] = d] /\ Unrefused(req[p], d)
  BY <1>1, LoseForms
<1>4. Unhindered(d, srv)
  BY <1>3, UnrefusedFree
<1> QED BY <1>1, <1>2, <1>3, <1>4, AloneStep

\* A write only of this request's: nobody else sees the branch it read.
LEMMA WriterAlone ==
  ASSUME ListInv, AloneInv, NEW p \in Requests, OthersSee(p, req[p].mode = "real"),
         req[p].mode = "dry" => srv' = srv
  PROVE  /\ alone' \in [Requests -> BOOLEAN] /\ alone'[p] = alone[p]
         /\ \A q \in Requests : q # p /\ alone'[q] => alone[q] /\ srv' = srv
<1>1. PICK changed : changed = (req[p].mode = "real")
  OBVIOUS
<1>2. req[p].mode \in {"dry", "real"}
  BY DEF ListInv, ReqOK, Tells
<1>3. /\ alone' \in [Requests -> BOOLEAN] /\ alone'[p] = alone[p]
      /\ \A q \in Requests : q # p /\ alone'[q] => alone[q] /\ ~changed
  BY <1>1, OthersOut DEF AloneInv
<1>4. ~changed => srv' = srv
  BY <1>1, <1>2
<1> QED BY <1>3, <1>4, Zenon

\* The model is taken when nobody else wrote.
LEMMA FreePostModel ==
  ASSUME CatInv, AloneInv, NEW p \in Requests, NEW heard, PostModel(p, heard)
  PROVE  AloneInv'
<1>1. PICK r : r = req[p]
  OBVIOUS
<1>2. ListInv /\ r.pc = "post_model" /\ alone \in [Requests -> BOOLEAN]
  BY <1>1 DEF CatInv, PostModel, Pub, AloneInv
<1>3. ASSUME alone[p] PROVE r.answer \notin Refusals /\ Ready(r, srv) /\ ~srv.model /\ Unhindered(r, srv)
  BY <1>1, <1>2, <1>3 DEF AloneInv, Unhindered, Publishing, Ready
<1>4. PICK d : /\ req' = [req EXCEPT ![p] = d]
               /\ \/ srv.model /\ srv' = srv /\ alone' = alone
                  \/ /\ LastTaken(r, d) /\ (r.mode = "dry" => srv' = srv)
                     /\ OthersSee(p, r.mode = "real")
  BY <1>1, <1>2, PostModelForms
<1>5. CASE srv.model /\ srv' = srv /\ alone' = alone
  BY <1>2, <1>3, <1>4, <1>5, AloneStep
<1>6. CASE LastTaken(r, d) /\ (r.mode = "dry" => srv' = srv) /\ OthersSee(p, r.mode = "real")
  <2>1. /\ alone' \in [Requests -> BOOLEAN] /\ alone'[p] = alone[p]
        /\ \A q \in Requests : q # p /\ alone'[q] => alone[q] /\ srv' = srv
    BY <1>1, <1>2, <1>6, WriterAlone
  <2>2. alone[p] => Unhindered(d, srv')
    BY <1>2, <1>3, <1>6, LastTakenFree DEF Publishing
  <2> QED BY <1>2, <1>4, <2>1, <2>2, AloneStep
<1> QED BY <1>4, <1>5, <1>6

\* The metadata is taken when nobody else wrote.
LEMMA FreePutMetadata ==
  ASSUME CatInv, AloneInv, NEW p \in Requests, NEW heard, PutMetadata(p, heard)
  PROVE  AloneInv'
<1>1. PICK r : r = req[p]
  OBVIOUS
<1>2. ListInv /\ r.pc = "put_metadata" /\ alone \in [Requests -> BOOLEAN] /\ InFiles(r, srv)
      /\ r.mode \in {"dry", "real"}
  BY <1>1 DEF CatInv, PutMetadata, Pub, AloneInv, ListInv, ReqOK, Tells
<1>3. ASSUME alone[p] PROVE Ready(r, srv) /\ Unhindered(r, srv)
  BY <1>1, <1>2, <1>3 DEF AloneInv, Unhindered, Publishing
<1>4. PICK d : /\ req' = [req EXCEPT ![p] = d]
               /\ \/ ~TakesMetadata(r.etag, SentMeta(r)) /\ srv' = srv /\ alone' = alone
                  \/ /\ LastTaken(r, d) /\ (r.mode = "dry" => srv' = srv)
                     /\ OthersSee(p, r.mode = "real")
  BY <1>1, <1>2, PutMetadataForms
<1>5. ASSUME alone[p] PROVE TakesMetadata(r.etag, SentMeta(r))
  <2>1. PICK m, def : m = r.export.meta /\ def = m.default
    OBVIOUS
  <2>2. /\ r.etag = srv.meta /\ DefaultKnown(r.export, DOMAIN srv.variants)
        /\ Behind(r, srv) /\ AllWritten(r)
    BY <1>2, <1>3, <1>5 DEF Ready
  <2>3. def = <<>> \/ def \in DOMAIN srv.variants \/ (r.mode = "dry" /\ def \in r.added)
    BY <2>1, <2>2 DEF DefaultKnown, Behind, AllWritten
  <2>4. DOMAIN m = {"default", "tuning"}
    BY <1>2, <2>1 DEF InFiles, ExportOK
  <2>5. PICK n : n = SentMeta(r)
    OBVIOUS
  <2>6. n.default = <<>> \/ n.default \in DOMAIN srv.variants
    <3>1. CASE r.mode = "dry" /\ def \in r.added
      <4>1. n = [m EXCEPT !.default = <<>>]
        BY <2>1, <2>5, <3>1 DEF SentMeta, without_new_default
      <4> QED BY <2>4, <4>1
    <3>2. CASE ~(r.mode = "dry" /\ def \in r.added)
      <4>1. n = m
        BY <2>1, <2>5, <3>2 DEF SentMeta, without_new_default
      <4> QED BY <2>1, <2>3, <3>2, <4>1
    <3> QED BY <3>1, <3>2
  <2> QED BY <2>2, <2>5, <2>6 DEF TakesMetadata, Has
<1>6. CASE ~TakesMetadata(r.etag, SentMeta(r)) /\ srv' = srv /\ alone' = alone
  BY <1>2, <1>4, <1>5, <1>6, AloneStep
<1>7. CASE LastTaken(r, d) /\ (r.mode = "dry" => srv' = srv) /\ OthersSee(p, r.mode = "real")
  <2>1. /\ alone' \in [Requests -> BOOLEAN] /\ alone'[p] = alone[p]
        /\ \A q \in Requests : q # p /\ alone'[q] => alone[q] /\ srv' = srv
    BY <1>1, <1>2, <1>7, WriterAlone
  <2>2. alone[p] => Unhindered(d, srv')
    BY <1>2, <1>3, <1>7, LastTakenFree DEF Publishing
  <2> QED BY <1>2, <1>4, <2>1, <2>2, AloneStep
<1> QED BY <1>4, <1>6, <1>7

\* What a write of the file at hand leaves of the branch s.
After(r, s, t) ==
  LET f == r.export.files[r.i] IN
  /\ t.meta = s.meta /\ DOMAIN s.variants \subseteq DOMAIN t.variants
  /\ r.mode = "dry" => t = s
  /\ r.mode = "real" =>
       /\ f.id \in DOMAIN t.variants
       /\ \A v \in DOMAIN t.variants :
            v # f.id => v \in DOMAIN s.variants /\ t.variants[v] = s.variants[v]

\* The file at hand is taken: the publish is ready for the next one.
LEMMA OnwardFree ==
  ASSUME NEW r, NEW s, NEW t, NEW d, Ready(r, s), r.answer \notin Refusals, InFiles(r, s),
         r.pc = "put_variant", r.mode \in {"dry", "real"}, After(r, s, t), Onward(r, d)
  PROVE  Unhindered(d, t)
<1>1. /\ d.i = r.i + 1 /\ d.mode = r.mode /\ d.added = r.added /\ d.export = r.export
      /\ d.model_etag = r.model_etag /\ d.etag = r.model_etag /\ d.answer = r.answer
      /\ d.pc = NextPc(r.export, r.i + 1, r.mode)
  BY DEF Onward
<1>2. ExportOK(r.export) /\ r.i \in DOMAIN r.export.files /\ r.i \in Nat
  BY DEF InFiles
<1>3. /\ IdsDiffer(r.export.files) /\ DefaultKnown(r.export, DOMAIN s.variants) /\ Ahead(r, s)
      /\ Behind(r, s) /\ TagOf(r, s) /\ r.model_etag = s.meta
  BY DEF Ready
<1>4. t.meta = s.meta /\ DOMAIN s.variants \subseteq DOMAIN t.variants
  BY DEF After
<1>5. DefaultKnown(d.export, DOMAIN t.variants)
  BY <1>1, <1>3, <1>4 DEF DefaultKnown
<1>6. Ahead(d, t)
  <2> SUFFICES ASSUME NEW k \in DOMAIN r.export.files, NEW f, f = r.export.files[k],
                      r.mode = "real" => r.i + 1 <= k, f.id \in DOMAIN t.variants
               PROVE  f.document.version > t.variants[f.id].version
    BY <1>1 DEF Ahead
  <2>1. CASE r.mode = "dry"
    <3>1. t = s
      BY <2>1 DEF After
    <3> QED BY <1>3, <2>1, <3>1 DEF Ahead
  <2>2. CASE r.mode = "real"
    <3>1. r.i <= k /\ k # r.i
      BY <1>2, <2>2 DEF ExportOK
    <3>2. f.id # r.export.files[r.i].id
      BY <1>2, <1>3, <3>1 DEF IdsDiffer
    <3>3. f.id \in DOMAIN s.variants /\ t.variants[f.id] = s.variants[f.id]
      BY <2>2, <3>2 DEF After
    <3>4. f.document.version > s.variants[f.id].version
      BY <1>3, <3>1, <3>3 DEF Ahead
    <3> QED BY <3>3, <3>4
  <2> QED BY <2>1, <2>2
<1>7. Behind(d, t)
  <2> SUFFICES ASSUME NEW k \in DOMAIN r.export.files, k < r.i + 1,
                      NEW id, id = r.export.files[k].id
               PROVE  id \in DOMAIN t.variants \/ (r.mode = "dry" /\ id \in r.added)
    BY <1>1 DEF Behind
  <2>1. CASE k < r.i
    BY <1>3, <1>4, <2>1 DEF Behind
  <2>2. CASE ~(k < r.i)
    <3>1. k = r.i
      BY <1>2, <2>2 DEF ExportOK
    <3>2. id \in DOMAIN s.variants \/ id \in r.added
      BY <1>3, <3>1 DEF TagOf
    <3>3. r.mode = "real" => id \in DOMAIN t.variants
      BY <3>1 DEF After
    <3> QED BY <1>4, <3>2, <3>3
  <2> QED BY <2>1, <2>2
<1>8. d.pc \in {"get_variant", "put_metadata", "get_metadata"}
  BY <1>1, <1>2, NextPcIn
<1>9. d.pc # "get_variant" => AllWritten(d)
  <2>1. PICK pc, j : pc = NextPc(r.export, j, r.mode) /\ j = r.i + 1
    OBVIOUS
  <2>2. ASSUME pc # "get_variant" PROVE \A k \in DOMAIN r.export.files : k < j
    <3>1. j \in Nat \ {0} /\ NextPc(r.export, j, r.mode) # "get_variant"
      BY <1>2, <2>1, <2>2
    <3> QED BY <1>2, <3>1, NextPcWritten
  <2> QED BY <1>1, <2>1, <2>2 DEF AllWritten
<1> QED BY <1>1, <1>3, <1>4, <1>5, <1>6, <1>7, <1>8, <1>9 DEF Unhindered, Ready

\* A variant is taken when nobody else wrote.
LEMMA FreePutVariant ==
  ASSUME CatInv, AloneInv, NEW p \in Requests, NEW heard, PutVariant(p, heard)
  PROVE  AloneInv'
<1>1. PICK r, f : r = req[p] /\ f = req[p].export.files[req[p].i]
  OBVIOUS
<1>2. ListInv /\ r.pc = "put_variant" /\ alone \in [Requests -> BOOLEAN] /\ InFiles(r, srv)
      /\ r.mode \in {"dry", "real"} /\ SrvOK(srv)
  BY <1>1 DEF CatInv, PutVariant, Pub, AloneInv, ListInv, ReqOK, Tells
<1>3. ASSUME alone[p] PROVE Ready(r, srv) /\ r.answer \notin Refusals
  BY <1>1, <1>2, <1>3 DEF AloneInv, Unhindered, Publishing
<1>4. PICK d : /\ req' = [req EXCEPT ![p] = d]
               /\ \/ ~TakesVariant(r.etag, f.id, f.document) /\ srv' = srv /\ alone' = alone
                  \/ /\ Unrefused(r, d) \/ Onward(r, d)
                     /\ srv' = IF r.mode = "dry" THEN srv ELSE WithVariant(srv, f.id, f.document)
                     /\ OthersSee(p, r.mode = "real")
  BY <1>1, <1>2, PutVariantForms
<1>5. r.i \in DOMAIN r.export.files /\ ExportOK(r.export) /\ srv.model
  BY <1>2 DEF InFiles
<1>6. ASSUME alone[p] PROVE TakesVariant(r.etag, f.id, f.document)
  <2>1. TagOf(r, srv) /\ Ahead(r, srv)
    BY <1>2, <1>3, <1>6 DEF Ready
  <2>2. CASE f.id \in DOMAIN srv.variants
    <3>1. r.etag = srv.variants[f.id]
      BY <1>1, <2>1, <2>2 DEF TagOf
    <3>2. srv.variants[f.id] # None
      BY <1>2, <2>2, DocNotNone DEF SrvOK
    <3>3. r.i <= r.i
      BY <1>2 DEF InFiles
    <3>4. f.document.version > srv.variants[f.id].version
      BY <1>1, <1>5, <2>1, <2>2, <3>3 DEF Ahead
    <3> QED BY <2>2, <3>1, <3>2, <3>4 DEF TakesVariant, Has
  <2>3. CASE f.id \notin DOMAIN srv.variants
    BY <1>1, <2>1, <2>3 DEF TagOf, TakesVariant, Has
  <2> QED BY <2>2, <2>3
<1>7. CASE ~TakesVariant(r.etag, f.id, f.document) /\ srv' = srv /\ alone' = alone
  BY <1>2, <1>4, <1>6, <1>7, AloneStep
<1>8. CASE /\ Unrefused(r, d) \/ Onward(r, d)
           /\ srv' = IF r.mode = "dry" THEN srv ELSE WithVariant(srv, f.id, f.document)
           /\ OthersSee(p, r.mode = "real")
  <2>1. /\ alone' \in [Requests -> BOOLEAN] /\ alone'[p] = alone[p]
        /\ \A q \in Requests : q # p /\ alone'[q] => alone[q] /\ srv' = srv
    BY <1>1, <1>2, <1>8, WriterAlone
  <2>2. PICK s, t : s = srv /\ t = srv'
    OBVIOUS
  <2>3. After(r, s, t)
    <3>1. CASE r.mode = "dry"
      <4>1. t = s
        BY <1>8, <2>2, <3>1
      <4> QED BY <3>1, <4>1 DEF After
    <3>2. CASE r.mode = "real"
      <4>1. PICK id, doc : id = f.id /\ doc = f.document
        OBVIOUS
      <4>2. SrvOK(s) /\ s.model /\ IsSeq(id) /\ doc \in Docs /\ t = WithVariant(s, id, doc)
        BY <1>1, <1>2, <1>5, <1>8, <2>2, <3>2, <4>1 DEF ExportOK
      <4>3. Wrote(s, t, id, doc)
        BY <4>2, WithVariantIs, Zenon
      <4> QED BY <1>1, <3>2, <4>1, <4>3 DEF Wrote, After
    <3> QED BY <1>2, <3>1, <3>2
  <2>4. ASSUME alone[p] PROVE Unhindered(d, t)
    <3>1. Ready(r, s) /\ r.answer \notin Refusals /\ InFiles(r, s)
      BY <1>2, <1>3, <2>2, <2>4
    <3>2. CASE Unrefused(r, d)
      BY <3>2, UnrefusedFree
    <3>3. CASE Onward(r, d)
      BY <1>2, <2>3, <3>1, <3>3, OnwardFree
    <3> QED BY <1>8, <3>2, <3>3
  <2> QED BY <1>2, <1>4, <2>1, <2>2, <2>4, AloneStep
<1> QED BY <1>4, <1>7, <1>8

\* An export over an index that is the branch: what it will write is taken.
LEMMA FreshReady ==
  ASSUME SrvOK(srv), index = srv, NEW unread, NEW b, NEW e, e = lookup(unread), NEW x,
         Built(b, e, x), IsInjective(NumberedIds(b.sources)), x.errors = {},
         NEW d, Begun(d, x, unread), d.pc = "get_model"
  PROVE  Ready(d, srv)
<1>1. d.export = x /\ d.mode = "dry"
  BY DEF Begun
<1>2. /\ DOMAIN e.variants = DOMAIN srv.variants
      /\ \A v \in DOMAIN srv.variants :
           e.variants[v].version = srv.variants[v].version /\ srv.variants[v].version \in Nat
  <2>1. PICK y : y = lookup(unread)
    OBVIOUS
  <2>2. /\ DOMAIN y.variants = DOMAIN index.variants
        /\ \A v \in DOMAIN index.variants :
             y.variants[v].version = index.variants[v].version /\ index.variants[v].version \in Nat
    BY <2>1, LookupIs, Zenon
  <2> QED BY <2>1, <2>2
<1>3. IdsDiffer(x.files) /\ DefaultKnown(x, DOMAIN srv.variants)
  BY <1>2 DEF Built
<1>4. Ahead(d, srv)
  <2> SUFFICES ASSUME NEW k \in DOMAIN x.files, NEW f, f = x.files[k], f.id \in DOMAIN srv.variants
               PROVE  f.document.version > srv.variants[f.id].version
    BY <1>1 DEF Ahead
  <2>1. Succeeds(f, x, e)
    BY DEF Built
  <2>2. f.document.version = e.variants[f.id].version + 1
    BY <1>2, <2>1 DEF Succeeds
  <2> QED BY <1>2, <2>2
<1> QED BY <1>1, <1>3, <1>4 DEF Ready

\* An export over an up-to-date index is ready to be written.
LEMMA FreeAsk ==
  ASSUME DistinctIds, CatInv, AloneInv, NEW p \in Requests, NEW b \in Bodies, NEW seen, NEW unread,
         Ask(p, b, seen, unread)
  PROVE  AloneInv'
<1>1. PICK d, x, e :
           /\ req' = [req EXCEPT ![p] = d] /\ Begun(d, x, unread) /\ x = build_catalog_entry(b, e)
           /\ \/ e = NoModel /\ pulls' = pulls /\ alone' = [alone EXCEPT ![p] = FALSE]
              \/ /\ e = lookup(unread)
                 /\ pulls' = pulls \/ pulls' = pulls \union {[base |-> index, export |-> x]}
                 /\ alone' = [alone EXCEPT ![p] = (index = srv)]
  BY AskForms, Zenon
<1>2. srv' = srv
  BY DEF Ask
<1>3. ListInv /\ SrvOK(srv) /\ SrvOK(index) /\ alone \in [Requests -> BOOLEAN]
  BY DEF CatInv, AloneInv
<1>4. /\ alone' \in [Requests -> BOOLEAN]
      /\ \A q \in Requests : q # p /\ alone'[q] => alone[q]
      /\ alone'[p] => index = srv /\ e = lookup(unread)
  BY <1>1, <1>3
<1>5. ASSUME alone'[p] PROVE Unhindered(d, srv)
  <2>1. index = srv /\ e = lookup(unread)
    BY <1>4, <1>5
  <2>2. d.answer \notin Refusals /\ (d.pc = "done" \/ (d.pc = "get_model" /\ x.errors = {}))
    BY <1>1 DEF Begun
  <2>3. CASE d.pc = "done"
    BY <2>2, <2>3 DEF Unhindered, Publishing
  <2>4. CASE d.pc = "get_model" /\ x.errors = {}
    <3>1. PICK y : y = lookup(unread)
      OBVIOUS
    <3>2. ReadOK(y)
      BY <1>3, <3>1, LookupIs, Zenon
    <3>3. Built(b, e, x)
      BY <1>1, <2>1, <3>1, <3>2, BodiesAssumption, BuiltIs
    <3>4. IsInjective(NumberedIds(b.sources))
      BY DEF DistinctIds
    <3>5. Ready(d, srv)
      BY <1>1, <1>3, <2>1, <2>4, <3>3, <3>4, FreshReady
    <3> QED BY <2>2, <3>5 DEF Unhindered
  <2> QED BY <2>2, <2>3, <2>4
<1> QED BY <1>1, <1>2, <1>3, <1>4, <1>5, AloneStep

\* Every step leaves what is alone ready.
LEMMA NextAloneInv ==
  ASSUME DistinctIds, CatInv, AloneInv, [Next]_vars
  PROVE  AloneInv'
<1>1. ASSUME srv' = srv, req' = req, alone' = alone PROVE AloneInv'
  BY <1>1 DEF AloneInv
<1>2. CASE UNCHANGED vars
  BY <1>1, <1>2 DEF vars
<1>3. ASSUME NEW p \in Requests, NEW b \in Bodies, NEW seen \in BOOLEAN,
             NEW unread \in UnreadSets, Ask(p, b, seen, unread)
      PROVE  AloneInv'
  BY <1>3, FreeAsk
<1>4. ASSUME NEW p \in Requests,
             GetModel(p) \/ GetVariant(p) \/ GetMetadata(p) \/ Lose(p)
      PROVE  AloneInv'
  BY <1>4, FreeGetModel, FreeGetVariant, FreeGetMetadata, FreeLose
<1>5. ASSUME NEW p \in Requests, NEW heard \in BOOLEAN,
             PostModel(p, heard) \/ PutVariant(p, heard) \/ PutMetadata(p, heard)
      PROVE  AloneInv'
  BY <1>5, FreePostModel, FreePutVariant, FreePutMetadata
<1>6. ASSUME NEW pr \in pulls, Merge(pr) PROVE AloneInv'
  <2>1. alone' = [q \in Requests |-> FALSE]
    BY <1>6 DEF Merge
  <2> QED BY <2>1 DEF AloneInv
<1>7. ASSUME PublishIndex \/ EditRecipe \/ clear_env_category PROVE AloneInv'
  BY <1>1, <1>7 DEF PublishIndex, EditRecipe, clear_env_category
<1>8. ASSUME NEW c \in {"recipe", "site"}, set_env_category(c) PROVE AloneInv'
  BY <1>1, <1>8 DEF set_env_category
<1> QED BY <1>2, <1>3, <1>4, <1>5, <1>6, <1>7, <1>8, Zenon DEF Next

LEMMA InitAloneInv == Init => AloneInv
<1> SUFFICES ASSUME Init PROVE AloneInv
  OBVIOUS
<1>1. req = [p \in Requests |-> Idle] /\ alone = [p \in Requests |-> TRUE]
  BY DEF Init
<1>2. Idle.answer \notin Refusals /\ Idle.pc = "idle"
  BY DEF Idle, Refusals
<1> HIDE DEF Idle
<1>3. \A p \in Requests : req[p] = Idle
  BY <1>1
<1>4. Unhindered(Idle, srv)
  BY <1>2 DEF Unhindered, Publishing
<1> QED BY <1>1, <1>3, <1>4 DEF AloneInv

\* A write of a publish is refused only for a cause outside the export: when the
\* index was up to date as the export read it and nobody else wrote since, the
\* server takes every write of the dry run and of the real run (publish.py:9-11,
\* the order of _writes, _without_new_default, bump_minor, _own_lineage), for
\* every catalog and every request whose ids differ.
THEOREM WritesTakenWhenAlone == ASSUME DistinctIds PROVE Spec => []RefusedForCause
<1>1. CatInv /\ AloneInv /\ [Next]_vars => AloneInv'
  BY NextAloneInv
<1>2. AloneInv => RefusedForCause
  BY DEF AloneInv, Unhindered, Refusals, RefusedForCause
<1> QED BY <1>1, <1>2, InitAloneInv, CatInvHolds, PTL DEF Spec
=============================================================================
