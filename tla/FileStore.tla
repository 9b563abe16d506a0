----------------------------- MODULE FileStore -----------------------------
(***************************************************************************)
(* internal/spiff_fs with the handlers of internal/httphandlers and         *)
(* internal/grpcserver, the outgoing connections of internal/netfetch, and  *)
(* the two servers of cmd/: concurrent requests on one data directory.  A   *)
(* step is one call that can fail or that others can see: a system call,    *)
(* one chunk copied, a pooled object taken or put back.                     *)
(*                                                                          *)
(* A file is the sequence of the chunks written to it, and a chunk names    *)
(* the request it came from, so that bytes astray are seen.  An id is named *)
(* after the request whose random bytes it encodes.                         *)
(***************************************************************************)
EXTENDS Integers, Sequences, FiniteSets, SequencesExt

CONSTANTS
  Requests,  \* the requests that may arrive
  Saved,     \* those that are uploads already answered
  Servers,   \* the two binaries, "http" and "grpc"
  Kinds,     \* the operations asked for: "upload", "download", "compare", "fetch"
  MaxConns,  \* netfetch's maxConnsPerHost; all pages come from one host
  Lengths,   \* bound: how many chunks a body, or a page, may have
  MaxFaults, \* bound: calls that fail, replies lost and crashes
  Unknown,   \* the shape of an id, and the name of no file
  Malformed, \* not the shape of an id
  None       \* nothing: no file, no error, no answer yet

ASSUME FileStoreAssumption ==
  /\ IsFiniteSet(Requests) /\ Saved \subseteq Requests /\ Servers \subseteq {"http", "grpc"}
  /\ Kinds \subseteq {"upload", "download", "compare", "fetch"}
  /\ MaxConns \in Nat \ {0} /\ MaxFaults \in Nat
  /\ Lengths \subseteq Nat /\ \E n \in Lengths : n # 0

VARIABLES
  req,     \* req[r]: request r as its client and its goroutine know it; see NotYet
  files,   \* files[i]: what file i of the data directory holds
  cut,     \* the files that lost bytes when they were closed
  buffer,  \* buffer[w]: what bufio.Writer w has yet to write
  pool,    \* pool[s]: server s' WriterPool
  raw,     \* raw[u]: the random bytes in buffer u of NewUUID
  uuids,   \* uuids[s]: server s' uuidbufpool
  conns,   \* conns[s]: how many connections s' Fetcher has in use
  up,      \* the servers that listen
  faults   \* how many calls have failed

disk == <<files, cut>>
writers == <<buffer, pool>>
pools == <<writers, raw, uuids>>
vars == <<req, disk, pools, conns, up, faults>>

Ids == Requests \cup {Unknown, Malformed}
Objects(s) == {s} \X (1 .. Cardinality(Requests \ Saved))
AllObjects == UNION {Objects(s) : s \in Servers}

\* None, Unknown and Malformed are nothing else.
Words ==
  {"upload", "download", "compare", "fetch", "id generation", "persist", "unread", "gone",
   "invalid id", "not found", "open", "too large", "invalid url", "bad body", "fetch failed",
   "page", "method", "ok", "invalid", "upstream", "internal", "lost"}

ASSUME Distinct ==
  /\ {Unknown, Malformed, None} \cap Requests = {} /\ Unknown # Malformed
  /\ None \notin AllObjects \cup Words \cup Servers

\* What the client of r, or the page it fetches, sends.
Body(r) == [i \in 1 .. req[r].len |-> <<r, i>>]

NotYet ==
  [pc |-> "idle",     \* where the goroutine is
   kind |-> None, server |-> None, args |-> <<>>, len |-> 0,  \* what is asked of whom
   moved |-> 0,       \* how many chunks io.Copy has read
   err |-> None,      \* the error on its way to the reply
   id |-> None,       \* the id NewUUID made
   handle |-> None,   \* the file, or buffer of random bytes, in its hands
   writer |-> None,   \* the pooled bufio.Writer it holds
   got |-> <<>>,      \* what has been sent to the client, or read, or fetched
   answer |-> None]   \* the class of status the client received

Upload(r) ==
  [NotYet EXCEPT !.pc = "done", !.kind = "upload", !.id = r, !.answer = "ok",
                 !.len = CHOOSE n \in Lengths : n # 0]

Init ==
  /\ req = [r \in Requests |-> IF r \in Saved THEN Upload(r) ELSE NotYet]
  /\ files = [r \in Saved |-> Body(r)] /\ cut = {}
  /\ buffer = [w \in AllObjects |-> <<>>] /\ pool = [s \in Servers |-> Objects(s)]
  /\ raw = [u \in AllObjects |-> None] /\ uuids = [s \in Servers |-> Objects(s)]
  /\ conns = [s \in Servers |-> 0] /\ up = {} /\ faults = 0

At(r, l) == req[r].pc = l
Goto(r, l) == req' = [req EXCEPT ![r].pc = l]
Fail(r, e) == req' = [req EXCEPT ![r].pc = "reply", ![r].err = e]

\* The ids that clients have been told.
Known == {r \in Requests : req[r].kind = "upload" /\ req[r].answer = "ok"}
-----------------------------------------------------------------------------
(* Requests arrive *)

Named(k) ==
  CASE k = "download" -> {<<i>> : i \in Known \cup {Unknown, Malformed}}
    [] k = "compare" -> (Known \cup {Unknown, Malformed}) \X (Known \cup {Unknown, Malformed})
    [] OTHER -> {<<>>}

Sizes(k) == IF k \in {"upload", "fetch"} THEN Lengths ELSE {0}

First(k, s) ==
  CASE k = "upload" -> "uuid" [] k = "fetch" -> IF s = "http" THEN "url" ELSE "fetch" [] OTHER -> "open"

Arrive(r) ==
  /\ At(r, "idle")
  /\ \E s \in up, k \in Kinds : \E n \in Sizes(k), a \in Named(k) :
       LET asked(l, e) == [NotYet EXCEPT !.pc = l, !.err = e, !.kind = k, !.server = s, !.args = a, !.len = n]
       IN \/ req' = [req EXCEPT ![r] = asked(First(k, s), None)]
          \/ s = "http" /\ req' = [req EXCEPT ![r] = asked("reply", "method")]
  /\ UNCHANGED <<disk, pools>>
-----------------------------------------------------------------------------
(* NewUUID and FS.SaveFile *)

\* One of a sync.Pool's objects: used before, or made by its New.  Which one does
\* not matter to a caller that resets it.
Get(objects) == CHOOSE o \in objects : TRUE

\* Variant of Taken: an object that stays in the pool while it is used.
TakenShared(r, objects, o) == objects

Put(r, objects, o) == [objects EXCEPT ![req[r].server] = @ \cup {o}]
Taken(r, objects, o) == [objects EXCEPT ![req[r].server] = @ \ {o}]

\* The buffer of uuidbufpool is in r's hands, as a file will be, until it is encoded.
ReadRandom(r) ==
  /\ At(r, "uuid")
  /\ LET u == Get(uuids[req[r].server])
     IN /\ raw' = [raw EXCEPT ![u] = r]
        /\ uuids' = Taken(r, uuids, u)
        /\ req' = [req EXCEPT ![r].pc = "encode", ![r].handle = u]
  /\ UNCHANGED <<disk, writers>>

NewUUIDFails(r) == At(r, "uuid") /\ Fail(r, "id generation") /\ UNCHANGED <<disk, pools>>

EncodeID(r) ==
  /\ At(r, "encode")
  /\ req' = [req EXCEPT ![r].pc = "create", ![r].id = raw[req[r].handle], ![r].handle = None]
  /\ uuids' = Put(r, uuids, req[r].handle)
  /\ UNCHANGED <<disk, writers, raw>>

Create(r) ==
  /\ At(r, "create")
  /\ LET i == req[r].id
     IN /\ files' = [f \in DOMAIN files \cup {i} |-> IF f = i THEN <<>> ELSE files[f]]
        /\ req' = [req EXCEPT ![r].pc = "writer", ![r].handle = i]
  /\ UNCHANGED <<cut, pools>>

CreateFails(r) == At(r, "create") /\ Fail(r, "persist") /\ UNCHANGED <<disk, pools>>
-----------------------------------------------------------------------------
(* A pooled bufio.Writer between a source and a destination: SaveFile's file, or *)
(* the response of the HTTP Download                                             *)

Saving(r) == req[r].kind # "download"
Source(r) == IF Saving(r) THEN Body(r) ELSE files[req[r].handle]
Unread(r) == Len(Source(r)) - req[r].moved

\* The writer has chunks, passes the first n on to what it was reset to, and keeps
\* the others; now is r's record otherwise.
Deliver(r, now, chunks, n) ==
  LET out == SubSeq(chunks, 1, n)
  IN /\ IF Saving(r)
        THEN files' = [files EXCEPT ![req[r].handle] = @ \o out] /\ req' = [req EXCEPT ![r] = now]
        ELSE files' = files /\ req' = [req EXCEPT ![r] = [now EXCEPT !.got = @ \o out]]
     /\ buffer' = [buffer EXCEPT ![req[r].writer] = SubSeq(chunks, n + 1, Len(chunks))]
     /\ UNCHANGED <<cut, pool, raw, uuids>>

GetWriter(r) ==
  /\ At(r, "writer")
  /\ LET w == Get(pool[req[r].server])
     IN /\ req' = [req EXCEPT ![r].pc = "copy", ![r].writer = w]
        /\ buffer' = [buffer EXCEPT ![w] = <<>>]
        /\ pool' = Taken(r, pool, w)
  /\ UNCHANGED <<disk, raw, uuids>>

\* A chunk goes into the writer, which passes on as much as it sees fit, in order.
CopyChunk(r) ==
  /\ At(r, "copy") /\ Unread(r) > 0
  /\ LET held == Append(buffer[req[r].writer], Source(r)[req[r].moved + 1])
     IN \E n \in 0 .. Len(held) : Deliver(r, [req[r] EXCEPT !.moved = @ + 1], held, n)

\* At the end of the source, and of Copy.
Flush(r) ==
  /\ At(r, "copy") /\ Unread(r) = 0
  /\ LET held == buffer[req[r].writer]
     IN Deliver(r, [req[r] EXCEPT !.pc = "close"], held, Len(held))

\* Variant: Flush's error not looked at.
MoveErrorsUnseen(r) == IF Unread(r) = 0 THEN {None} ELSE {"persist"}

\* The error SaveFile returns; the HTTP Download only logs that it could not read
\* the file, or has no client left to reply to.
MoveErrors(r) == IF Saving(r) THEN {"persist"} ELSE {"unread", "gone"}

\* io.Copy or Flush fails, with some of the buffer written.
MoveFails(r) ==
  /\ At(r, "copy")
  /\ LET held == buffer[req[r].writer]
     IN \E n \in 0 .. Len(held), e \in MoveErrors(r) :
          Deliver(r, [req[r] EXCEPT !.pc = "close", !.err = e], held, n)

\* The deferred calls: the writer, if there is one, goes back empty to its pool, and
\* the file is closed.
Release(r) ==
  LET w == req[r].writer
  IN /\ At(r, "close")
     /\ req' = [req EXCEPT ![r].pc = "reply", ![r].writer = None, ![r].handle = None]
     /\ IF w = None THEN UNCHANGED writers
        ELSE buffer' = [buffer EXCEPT ![w] = <<>>] /\ pool' = Put(r, pool, w)
     /\ UNCHANGED <<raw, uuids>>

Close(r) == Release(r) /\ UNCHANGED disk

\* Some file systems report only now that writes were lost; nobody looks.
CloseLoses(r) ==
  /\ Release(r) /\ Saving(r)
  /\ LET i == req[r].handle
     IN /\ \E n \in 0 .. Len(files[i]) - 1 : files' = [files EXCEPT ![i] = SubSeq(@, 1, n)]
        /\ cut' = cut \cup {i}
-----------------------------------------------------------------------------
(* GetSavedFile, the gRPC Download, and CompareFiles *)

\* Variant: the left file in the place of the right one.
TargetLeft(r) == req[r].args[1]

Target(r) == req[r].args[IF req[r].kind = "compare" THEN Len(req[r].got) + 1 ELSE 1]

Then(r) ==
  IF req[r].kind = "compare" THEN "read" ELSE IF req[r].server = "http" THEN "writer" ELSE "send"

Open(r) ==
  /\ At(r, "open") /\ Target(r) \in DOMAIN files
  /\ req' = [req EXCEPT ![r].pc = Then(r), ![r].handle = Target(r)]
  /\ UNCHANGED <<disk, pools>>

OpenRefused(r) ==
  /\ At(r, "open") /\ Target(r) \notin DOMAIN files
  /\ Fail(r, IF Target(r) = Malformed THEN "invalid id" ELSE "not found")
  /\ UNCHANGED <<disk, pools>>

OpenFails(r) ==
  At(r, "open") /\ Target(r) # Malformed /\ Fail(r, "open") /\ UNCHANGED <<disk, pools>>

SendChunk(r) ==
  /\ At(r, "send") /\ Unread(r) > 0
  /\ req' = [req EXCEPT ![r].moved = @ + 1, ![r].got = Append(@, Source(r)[req[r].moved + 1])]
  /\ UNCHANGED <<disk, pools>>

SendEnd(r) == At(r, "send") /\ Unread(r) = 0 /\ Goto(r, "close") /\ UNCHANGED <<disk, pools>>

SendFails(r) ==
  /\ At(r, "send")
  /\ \E e \in {"unread", "gone"} : req' = [req EXCEPT ![r].pc = "close", ![r].err = e]
  /\ UNCHANGED <<disk, pools>>

\* ReadLines: the whole file, which is then closed.  The left file is read and
\* closed before the right one is opened.
ReadLeft(r) ==
  /\ At(r, "read") /\ req[r].got = <<>>
  /\ req' = [req EXCEPT ![r].pc = "open", ![r].got = <<files[req[r].handle]>>, ![r].handle = None]
  /\ UNCHANGED <<disk, pools>>

\* Whether DiffLines finds the two files too large and too different is left to Diff.
ReadRight(r) ==
  /\ At(r, "read") /\ req[r].got # <<>>
  /\ \E e \in {None, "too large"} :
       req' = [req EXCEPT ![r].pc = "reply", ![r].got = Append(@, files[req[r].handle]),
                          ![r].handle = None, ![r].err = e]
  /\ UNCHANGED <<disk, pools>>

ReadFails(r) ==
  /\ At(r, "read")
  /\ req' = [req EXCEPT ![r].pc = "reply", ![r].err = "unread", ![r].handle = None]
  /\ UNCHANGED <<disk, pools>>
-----------------------------------------------------------------------------
(* Fetch: the handlers, and netfetch's Fetcher with its connections to the host *)

Connections(r, n) == conns' = [conns EXCEPT ![req[r].server] = @ + n] /\ UNCHANGED <<disk, pools>>

\* The HTTP handler reads the URL from the request's body.
ReadURL(r) == At(r, "url") /\ (Goto(r, "fetch") \/ Fail(r, "bad body")) /\ Connections(r, 0)

InvalidURL(r) == At(r, "fetch") /\ Fail(r, "invalid url") /\ Connections(r, 0)

\* Variant: no limit.
DialUncapped(r) == At(r, "fetch") /\ Goto(r, "headers") /\ Connections(r, 1)

\* An idle connection or a new one; at the limit the request waits for one.
Dial(r) ==
  At(r, "fetch") /\ conns[req[r].server] < MaxConns /\ Goto(r, "headers") /\ Connections(r, 1)

\* The target cannot be reached, or the Client's timeout passed.
DialFails(r) == At(r, "fetch") /\ Fail(r, "fetch failed") /\ Connections(r, 0)

\* It broke off or timed out, or its status is 400 or above and its body is closed.
Refused(r) == At(r, "headers") /\ Fail(r, "fetch failed") /\ Connections(r, -1)

Answers(r) == At(r, "headers") /\ Goto(r, "page") /\ Connections(r, 0)

PageChunk(r) ==
  /\ At(r, "page") /\ Len(req[r].got) < req[r].len
  /\ req' = [req EXCEPT ![r].got = Append(@, Body(r)[Len(@) + 1])]
  /\ Connections(r, 0)

\* The whole page is in memory: it is saved, and its id not used.
PageEnd(r) ==
  At(r, "page") /\ Len(req[r].got) = req[r].len /\ Goto(r, "uuid") /\ Connections(r, -1)

\* The target sends no more, and does not close the connection either.
PageStalls(r) == At(r, "page") /\ Goto(r, "stalled") /\ Connections(r, 0)

PageBreaks(r) == At(r, "page") /\ Fail(r, "page") /\ Connections(r, -1)

\* Variant: a timeout until the headers have come only.
NoTimeout(r) == FALSE

\* The Client's timeout covers the body too; then the deferred Close.
Timeout(r) == At(r, "stalled") /\ Fail(r, "page") /\ Connections(r, -1)
-----------------------------------------------------------------------------
(* Replies *)

\* The class of the HTTP status, or gRPC code, for an error.  toStatus maps what
\* it does not know to Internal; the HTTP Fetch has its own for a broken page, and
\* the HTTP Download has none for a file it cannot read to its end.
Status(r) ==
  LET e == req[r].err  http == req[r].server = "http"
  IN CASE e = None -> "ok"
       [] e \in {"invalid id", "invalid url", "bad body"} -> "invalid"
       [] e \in {"not found", "too large", "method"} -> e
       [] e = "fetch failed" -> "upstream"
       [] e = "page" /\ http -> "upstream"
       [] e = "unread" /\ http /\ ~Saving(r) -> "ok"
       [] e = "gone" -> "lost"
       [] OTHER -> "internal"

\* The goroutine is gone.  Of a request whose client has got no answer only its body
\* matters from now on, of one that failed also what it asked for.
Ended(r, a) ==
  IF a = "lost" THEN [NotYet EXCEPT !.pc = "done", !.len = req[r].len, !.answer = a]
  ELSE [req[r] EXCEPT !.pc = "done", !.moved = 0, !.answer = a, !.got = IF a = "ok" THEN @ ELSE <<>>]

Answer(r, a) == At(r, "reply") /\ req' = [req EXCEPT ![r] = Ended(r, a)] /\ UNCHANGED <<disk, pools>>

Reply(r) == Answer(r, Status(r))
ReplyLost(r) == Answer(r, "lost")
-----------------------------------------------------------------------------
(* The servers *)

AtWork(r) == ~At(r, "idle") /\ ~At(r, "done")

\* main: MkdirAll, which leaves what is there alone, then listen.
Start(s) == s \notin up /\ up' = up \cup {s} /\ UNCHANGED <<req, disk, pools, conns>>

\* A server dies: its requests, pools and connections are gone, the data directory
\* is as it was.
Crash(s) ==
  /\ s \in up /\ up' = up \ {s}
  /\ req' = [r \in Requests |->
       IF AtWork(r) /\ req[r].server = s THEN Ended(r, "lost") ELSE req[r]]
  /\ buffer' = [w \in AllObjects |-> IF w[1] = s THEN <<>> ELSE buffer[w]]
  /\ pool' = [pool EXCEPT ![s] = Objects(s)]
  /\ raw' = [u \in AllObjects |-> IF u[1] = s THEN None ELSE raw[u]]
  /\ uuids' = [uuids EXCEPT ![s] = Objects(s)]
  /\ conns' = [conns EXCEPT ![s] = 0]
  /\ UNCHANGED disk
-----------------------------------------------------------------------------
SaveFile(r) == ReadRandom(r) \/ EncodeID(r) \/ Create(r)
Pump(r) == GetWriter(r) \/ CopyChunk(r) \/ Flush(r) \/ Close(r)
Read(r) == Open(r) \/ OpenRefused(r) \/ SendChunk(r) \/ SendEnd(r) \/ ReadLeft(r) \/ ReadRight(r)
Fetch(r) ==
  \/ ReadURL(r) \/ InvalidURL(r) \/ Dial(r) \/ DialFails(r) \/ Refused(r) \/ Answers(r)
  \/ PageChunk(r) \/ PageEnd(r) \/ Timeout(r)

Handle(r) ==
  \/ (SaveFile(r) \/ Pump(r) \/ Read(r) \/ Reply(r)) /\ UNCHANGED conns
  \/ Fetch(r)

CallFails(r) ==
  \/ NewUUIDFails(r) \/ CreateFails(r) \/ MoveFails(r) \/ CloseLoses(r) \/ OpenFails(r)
  \/ SendFails(r) \/ ReadFails(r) \/ ReplyLost(r)

Next ==
  \/ \E r \in Requests : Arrive(r) /\ UNCHANGED <<conns, up, faults>>
  \/ \E r \in Requests : Handle(r) /\ UNCHANGED <<up, faults>>
  \/ \E s \in Servers : Start(s) /\ UNCHANGED faults
  \/ /\ faults < MaxFaults /\ faults' = faults + 1
     /\ \/ \E r \in Requests : CallFails(r) /\ UNCHANGED <<conns, up>>
        \/ \E r \in Requests : (PageStalls(r) \/ PageBreaks(r)) /\ UNCHANGED up
        \/ \E s \in Servers : Crash(s)

Spec == Init /\ [][Next]_vars

\* What r does next is its client's affair: to send more of a body, or to take
\* more of a response, which it may put off for as long as it likes.
WaitsForClient(r) ==
  \/ At(r, "url") \/ At(r, "send") \/ At(r, "reply")
  \/ At(r, "copy") /\ req[r].kind # "fetch"

\* Handlers go on where nobody makes them wait.
Fairness ==
  \A r \in Requests : WF_vars(~WaitsForClient(r) /\ Handle(r) /\ UNCHANGED <<up, faults>>)

FairSpec == Spec /\ Fairness
-----------------------------------------------------------------------------
(* Properties *)

PCs == {"idle", "uuid", "encode", "create", "writer", "copy", "close", "open", "send",
        "read", "url", "fetch", "headers", "page", "stalled", "reply", "done"}

RequestOK(r) ==
  LET q == req[r]
  IN /\ DOMAIN q = DOMAIN NotYet
     /\ q.pc \in PCs /\ q.kind \in Kinds \cup {"upload", None}
     /\ q.server \in Servers \cup {None} /\ q.args \in Seq(Ids)
     /\ q.len \in Lengths \cup {0} /\ q.moved \in Nat
     /\ q.id \in Requests \cup {None}
     /\ q.writer # None => q.pc \in {"copy", "close"}
     /\ q.handle # None <=> q.pc \in {"encode", "writer", "copy", "close", "send", "read"}

\* Every variable keeps its type, the connections their limit, and whoever holds a
\* writer, or a file, will still get to where it is given back.
TypeOK ==
  /\ \A r \in Requests : RequestOK(r)
  /\ cut \subseteq DOMAIN files /\ DOMAIN files \subseteq Requests
  /\ conns \in [Servers -> 0 .. MaxConns]
  /\ up \subseteq Servers /\ faults \in 0 .. MaxFaults

\* A pooled object is in its pool, or in the hands of one request of that server,
\* never of two: what one request writes cannot come out of another's writer.  And
\* a server's connections in use are those its requests wait on: none is leaked.
Exclusive ==
  \A s \in Servers :
    LET mine == {r \in Requests : AtWork(r) /\ req[r].server = s}
        holders(o) == {r \in mine : req[r].writer = o}
        encoders(o) == {r \in mine : At(r, "encode") /\ req[r].handle = o}
    IN /\ \A o \in Objects(s) :
            /\ Cardinality(holders(o)) = IF o \in pool[s] THEN 0 ELSE 1
            /\ Cardinality(encoders(o)) = IF o \in uuids[s] THEN 0 ELSE 1
       /\ conns[s] = Cardinality({r \in mine : req[r].pc \in {"headers", "page", "stalled"}})

\* Each file holds bytes of the upload, or page, it was made for, in order, and no
\* others, at any moment and whatever has failed.
NoBytesAstray ==
  \A i \in DOMAIN files : IsPrefix(files[i], Body(i))

\* An id that a client was told names the whole of what it sent, from then on and
\* over restarts, unless Close lost some of it: partial files of failed or
\* interrupted uploads have ids nobody knows.
IdNamesWholeFile ==
  \A i \in Known : req[i].id = i /\ i \in DOMAIN files /\ (i \in cut \/ files[i] = Body(i))

\* A success means what it says: a download is the whole file (over HTTP, if that
\* could be read to its end), a comparison has read both, a fetched page is complete
\* and was saved; and only an id nobody was told is "not found", only one of the
\* wrong shape, or a bad URL, "invalid".
AnswersAreTrue ==
  \A r \in Requests :
    LET q == req[r]
        whole(i) == IF i \in cut THEN files[i] ELSE Body(i)
    IN /\ q.answer = "ok" =>
            /\ Range(q.args) \subseteq Known
            /\ q.kind = "fetch" => q.got = Body(r) /\ (q.id \in cut \/ files[q.id] = Body(r))
            /\ q.kind = "download" =>
                 IF q.err = "unread" THEN IsPrefix(q.got, whole(q.args[1])) ELSE q.got = whole(q.args[1])
            /\ q.kind = "compare" => q.got = <<whole(q.args[1]), whole(q.args[2])>>
       /\ q.answer = "not found" => Unknown \in Range(q.args)
       /\ q.answer = "invalid" => Malformed \in Range(q.args) \/ q.kind = "fetch"

\* The inductive invariant of the proofs (FileStore_proofs.tla).
Chunks == Requests \X Nat
Stored == {"upload", "fetch"}
Moving == {"writer", "copy", "close"}

\* A request goes the way of its kind, is asked about ids that were told and others
\* that nobody has, and has no answer before it is done.
KindInv(r) ==
  LET q == req[r]
  IN /\ q.pc \notin {"idle", "done"} => q.kind \in Kinds /\ q.server \in Servers
     /\ q.pc \in {"uuid", "encode", "create"} => q.kind \in Stored
     /\ q.pc \in Moving => q.kind \in Stored \cup {"download"}
     /\ q.pc = "send" => q.kind = "download"
     /\ q.pc = "open" => q.kind \in {"download", "compare"}
     /\ q.pc = "read" => q.kind = "compare"
     /\ q.pc \in {"url", "fetch", "headers", "page", "stalled"} => q.kind = "fetch"
     /\ q.kind = "download" => Len(q.args) = 1
     /\ q.kind = "compare" => Len(q.args) = 2
     /\ q.kind \notin {"download", "compare"} => q.args = <<>>
     /\ \A i \in DOMAIN q.args : q.args[i] \in Known \cup {Unknown, Malformed}
     /\ q.pc # "done" => q.answer = None
     /\ r \in Saved => q.pc = "done"

\* An error tells what has happened, and an answer what the error was.
ErrInv(r) ==
  LET q == req[r]
  IN /\ q.pc \notin {"close", "reply", "done"} => q.err = None
     /\ q.pc = "close" => q.err \in {None, "persist", "unread", "gone"}
     /\ q.err = "not found" => Unknown \in Range(q.args)
     /\ q.err = "invalid id" => Malformed \in Range(q.args)
     /\ q.err \in {"invalid url", "bad body"} => q.kind = "fetch"
     /\ q.answer = "ok" => q.err = None \/ (q.err = "unread" /\ q.kind = "download")
     /\ q.answer = "not found" => q.err = "not found"
     /\ q.answer = "invalid" => q.err \in {"invalid id", "invalid url", "bad body"}

\* A file is of the upload, or page, whose id it has, begun and ended by nobody else.
SaveInv(r) ==
  LET q == req[r]
  IN /\ q.pc = "idle" => r \notin DOMAIN files
     /\ r \in DOMAIN files => IsPrefix(files[r], Body(r))
     /\ q.kind \in Stored /\ q.pc \in {"create"} \cup Moving => q.id = r
     /\ q.kind \in Stored /\ q.pc \in Moving => q.handle = r /\ r \in DOMAIN files
     /\ q.kind \in Stored /\ q.pc \in {"reply", "done"} /\ q.err = None =>
          q.id = r /\ r \in DOMAIN files /\ (r \in cut \/ files[r] = Body(r))

\* What came out of a writer and what is in it are what went in, in order.
Out(r) == IF Saving(r) THEN files[req[r].handle] ELSE req[r].got

PumpInv(r) ==
  LET q == req[r]
  IN /\ q.pc \notin {"copy", "close", "send", "reply", "done"} => q.moved = 0
     /\ q.pc = "writer" => Out(r) = <<>>
     /\ q.pc = "copy" => /\ q.writer # None /\ q.moved <= Len(Source(r))
                         /\ Out(r) \o buffer[q.writer] = SubSeq(Source(r), 1, q.moved)
     /\ q.pc = "send" => q.moved <= Len(Source(r)) /\ q.got = SubSeq(Source(r), 1, q.moved)
     /\ q.pc = "close" => IsPrefix(Out(r), Source(r)) /\ (q.err = None => Out(r) = Source(r))

\* What a client gets is of the files it named, or of its page.
ReadInv(r) ==
  LET q == req[r]
  IN /\ q.kind = "download" /\ q.pc = "open" => q.got = <<>>
     /\ q.kind = "download" /\ q.pc \in {"send"} \cup Moving =>
          q.handle = q.args[1] /\ q.args[1] \in Known /\ q.got \in Seq(Chunks)
     /\ q.kind = "download" /\ q.pc \in {"reply", "done"} /\ q.err \in {None, "unread"} =>
          /\ q.args[1] \in Known /\ IsPrefix(q.got, files[q.args[1]])
          /\ q.err = None => q.got = files[q.args[1]]
     /\ q.kind = "compare" /\ q.pc \in {"open", "read"} =>
          q.got = <<>> \/ (q.args[1] \in Known /\ q.got = <<files[q.args[1]]>>)
     /\ q.pc = "read" => q.handle = Target(r) /\ q.handle \in Known
     /\ q.kind = "compare" /\ q.pc \in {"reply", "done"} /\ q.err = None =>
          /\ q.args[1] \in Known /\ q.args[2] \in Known
          /\ q.got = <<files[q.args[1]], files[q.args[2]]>>

FetchInv(r) ==
  LET q == req[r]
  IN q.kind = "fetch" =>
       /\ q.pc \in {"url", "fetch", "headers"} => q.got = <<>>
       /\ q.pc = "page" => Len(q.got) <= q.len /\ q.got = SubSeq(Body(r), 1, Len(q.got))
       /\ q.pc \in {"uuid", "encode", "create"} \cup Moving => q.got = Body(r)
       /\ q.pc \in {"reply", "done"} /\ q.err = None => q.got = Body(r)

\* An object of a pool is in it, or in the hands of one request of its server.
Writers == [r \in Requests |-> req[r].writer]
Encoders == [r \in Requests |-> IF At(r, "encode") THEN req[r].handle ELSE None]

Lent(objects, hands) ==
  /\ \A s \in Servers : /\ objects[s] \subseteq Objects(s)
                        /\ \A o \in Objects(s) : o \in objects[s] <=> \A r \in Requests : hands[r] # o
  /\ \A r, q \in Requests : r # q /\ hands[r] # None => hands[r] # hands[q]

HandsInv(r) ==
  /\ Writers[r] # None => Writers[r] \in Objects(req[r].server)
  /\ At(r, "encode") => Encoders[r] \in Objects(req[r].server) /\ raw[Encoders[r]] = r

Connected(s) == {r \in Requests : req[r].server = s /\ req[r].pc \in {"headers", "page", "stalled"}}

StoreInv ==
  /\ DOMAIN req = Requests
  /\ \A i \in DOMAIN files : files[i] \in Seq(Chunks)
  /\ buffer \in [AllObjects -> Seq(Chunks)]
  /\ DOMAIN raw = AllObjects /\ DOMAIN pool = Servers /\ DOMAIN uuids = Servers
  /\ Lent(pool, Writers) /\ Lent(uuids, Encoders)
  /\ \A s \in Servers : conns[s] = Cardinality(Connected(s))

RequestInv(r) ==
  KindInv(r) /\ ErrInv(r) /\ SaveInv(r) /\ PumpInv(r) /\ ReadInv(r) /\ FetchInv(r) /\ HandsInv(r)

IInv == TypeOK /\ StoreInv /\ \A r \in Requests : RequestInv(r)

\* Every request is answered in the end, or waits for its client: also if the
\* target of a fetch stalls in mid-page (the Client's timeout covers the body,
\* netfetch.go:29, 67), and while others hold all connections to its host.
AnsweredAtLast ==
  \A r \in Requests : <>[](AtWork(r) => WaitsForClient(r))
=============================================================================
