# ArcaStorage in TLA+

ArcaStorage is a single-node object store that speaks the S3 protocol: a Go
server that keeps every object as two files below a data directory and has no
database. These modules specify its store (`src/internal/store/store.go`), the
handlers that call it (`src/internal/s3api`), the signatures that let a request
pass (`src/internal/auth`) and the start of the process (`src/cmd/arca`), check them with TLC and prove
with TLAPS every property that TLC finds to hold, but for the three that rest on
fairness. `PROJECT.json` names, for every definition, the lines of the code it
stands for.

## 1. The system

```text
           serve: target -> writeCORS -> Verify (SigV4) -> route -> handler -> Store -> files
                              |  rules of                              |          |  lock(bucket)
                              |  the bucket                            |          |  o/<key>.obj  m/<key>.json
                              v                                        |          |  u/<id>/...   bucket.json
                            Store.CORS                                 |  preconditions: Head
                                                                       |  openBody: verifyReader
main: loadKeys -> credentials.json                                     |  paginate
```

| Component | State | Operations | Modelled in |
|---|---|---|---|
| Bucket locks (`Store.lock`) | one `sync.RWMutex` per bucket name, created on first use, never removed | Lock, Unlock, RLock, RUnlock | `BucketLock` |
| Objects | `o/<key>.obj` (bytes), `m/<key>.json` (metadata), temp files `.up-*` | PutObject, Get, Head, UpdateMeta, DeleteObject, CopyObject | `ObjectMap`, `ObjectStore` |
| Buckets and paths | the directory tree of a bucket, `bucket.json` | CreateBucket, DeleteBucket, Bucket, ListBuckets, PutCORS, DeleteCORS, CORS; keys to paths | `BucketTree` (one bucket, names and crashes), `Buckets` (several, concurrent) |
| Multipart uploads | `u/<id>/upload.json`, `parts/<n>`, `parts/<n>.json` | CreateMultipart, PutPart, CompleteMultipart, AbortMultipart (ListParts reads) | `Multipart` |
| Listings | none on the server; the token is the last key | List, listObjects, paginate | `Listing` |
| Object handlers | none between requests | putObject, deleteObject, copyObject and their conditions | `Conditional`, `ObjectStore` |
| Body verification | the reader of one request | openBody, verifyReader, chunkReader | `BodyReader`, run by `Serve`; its verdict in `ObjectStore` (Receive, Reject) |
| Routing | the base hosts | target, route, routeBucket, routeObject | `Routes`, run by `Serve` |
| CORS | the rules in `bucket.json` | writeCORS, matchCORS | `Cors`, run by `Serve`; the lock it takes in `Buckets` |
| SigV4 | the keys | Sign, Presign, Verify | `SigV4`, run by `Serve` |
| Start-up | `credentials.json`, the keys | main, loadKeys | `Credentials`, run by `Serve` |

Interactions. A handler owns one goroutine per request and keeps no state
between requests; all shared state is the files and the map of locks. An
operation of the store takes the lock of its bucket, makes its system calls and
lets the lock go in a `defer`. `CopyObject` is a `Get` followed by a
`PutObject`, with no lock held in between. `putObject` and `deleteObject` with a condition are
a `Head` followed by the operation, with the upload between the two. Before it is
authenticated, a request with an Origin header reads the rules of its bucket
under the bucket's shared lock. `ListBuckets` takes the locks of all buckets,
one after the other. `Get`
returns an open descriptor that the handler streams after the lock is gone.

What is hard here:

- *concurrency*: readers of two files while writers replace them one by one;
  reads in one call and writes in another (conditions, copies, pages); a body
  that is read from the network with the exclusive lock held;
- *partial failure*: an error between the two files, in a clean-up, in one of
  the two writes of the metadata of a multipart object;
- *crashes*: there is no journal, so what the order of the system calls leaves
  behind is what the next start finds;
- *names*: keys are paths, with suffixes that other keys may contain; the bucket
  may be in the host, under one of several bases;
- *time*: two clocks, and an expiry that is a product in 64 bits.

What makes each component correct:

- locks: a writer is alone in its bucket, no return path leaves with the lock,
  nobody waits for ever, and buckets do not block each other;
- objects: every call takes effect at one instant; an object is whole bytes with
  metadata that describe them; success means stored, refusal means untouched;
- buckets: keys do not disturb each other; what is deleted stays deleted; only
  empty buckets, and all of them, can be deleted; an answer about buckets was
  true at some moment of the call, and waits only for uploads to what it asks about;
- multipart: acknowledged parts are kept; the object is made of the listed parts
  under their ETag; every upload can be ended;
- listings: nothing that stays is missed or given twice; following the tokens ends;
- conditions: a call acts only where its condition holds;
- bodies: accepted means whole, intact means accepted, and one answer stands;
- requests: what passes was signed as it arrived, with the keys of the server,
  and is in time; what was signed passes, and is the operation the client meant;
- CORS: a preflight says what will happen to the request;
- start-up: keys that were shown go on working.

## 2. The modules

| Module | Subject |
|---|---|
| `BucketLock` | Go's reader/writer mutex from its contract: a writer first shuts other writers out (`Announce`), then waits for the readers inside (`Exclusive`); new readers park behind it and enter at `Unlock` before the next writer. Instantiated by `ObjectStore` and `Buckets`. |
| `ObjectTypes` | Calls, bodies, digests, metadata; what a call stores (`StoredBody`, `StoredMeta`). Extended by the next two. |
| `ObjectMap` | The abstract specification: a map from slots (bucket, key) to bytes and metadata in which a call takes effect at one instant (`Look`, `Commit`). `Botch` and `MapCrash` say exactly what a failing system call and a crash may leave. |
| `ObjectStore` | The implementation: requests with a program counter, one action per file-system step, on the two files. `pc` follows the source: `stage` (temp file), `receive` (io.Copy), `rename`, `cleanup` (the deferred Remove), `wmeta` (writeMeta), `rmobj`, `rmmeta`, `rmeta`, `ropen`, and the waits of the lock. `ImplementsMap` is the refinement. |
| `Multipart` | The uploads of one bucket. One operation runs at a time, which is what the exclusive lock gives; its steps are separate because one may fail and the process may die between them. |
| `BucketTree` | One bucket as a tree of files. An operation is the list of system calls it makes, a call succeeds or fails by what is in the tree, and the process may die between two calls. |
| `BucketMap` | The objects of one bucket as a variable, for the modules above the store. |
| `Conditional` | Handlers that check an ETag in one call of the store and act in another. |
| `Listing` | A client that lists page by page. |
| `Buckets` | Several buckets and concurrent requests, one action per step between two acquisitions of a lock. A request with an Origin header first reads the rules (`AskShared`, `corsRules`); `ListBuckets` walks (`ReadDir`, `AskNext`, `Visit`); uploads hold the lock while the client sends (`StartBody`, `BodyEnds`). `ever` and `always` record what was so at some moment, and at every moment, of a call. |
| `SigV4` | What a signature is of, `Sign` and `Presign` as clients use them, `Verify` with its checks in the order of the code. |
| `Routes` | `target` and `route` with the order of the cases, and the `Shapes` of the requests that S3 clients make. |
| `Cors` | The first rule that matches, the headers that are answered, and what a browser makes of them. |
| `Credentials` | The process: started with variables or without, `credentials.json` opened, then filled, then the keys printed; killed at any time. |
| `Serve` | One request through `serve`, in a process that `Credentials` starts and kills, while the clock runs: `Send`, `Preflight`, `WriteHeaders`, `Authorize`, `Route`, `Body`. It composes the four modules above and `BodyReader`. A *trip* says what the request is, and whether the clients of its bucket may stop sending (`slow`). The waits for the bucket's lock are in `ObjectStore` and `Buckets`. |
| `BodyReader` | One upload's body: the wire as a sequence of tokens that may be cut anywhere and damaged in one place, read in pieces of any size by the `verifyReader` and, in `aws-chunked` framing, the `chunkReader`. One call of `Read` is one step. `Serve` holds its specification. |
| `Handlers` | `Conditional` and `Listing` on the same objects. |
| `ObjectStoreProofs`, `CoherenceProofs`, `ImplementationProofs` | The theorems about `ObjectStore`. |
| `HandlersProofs`, `BucketsProofs`, `MultipartProofs`, `BucketTreeProofs`, `ServeProofs` | The theorems about the module of that name. |
| `MC*` | Small sets and symmetry for TLC. |

How they rest on each other: `ObjectStore` shows that a call of the store is
atomic (`ImplementsMap`); `Conditional` and `Listing` take a call of the store as
one step because of that. `ObjectStore` shows that the lock excludes
(`LockSafety`); `Multipart` and `BucketTree` run one operation at a time because
of that. `BucketTree` is about paths that meet, `ObjectStore` about keys whose
paths do not.

Abstractions, and why they lose nothing the properties are about:

- Bodies, digests and user metadata are opaque values, digests are injective,
  `Size` is folded into the ETag it is written with, times are left out.
- A crash is the death of the process: what was written to a file stays
  written. A power failure may also lose what was never synced (`writeJSON` does
  not sync its file); that is listed as a hazard and not modelled.
- `ObjectStore` takes the verdict of the body reader as given: a body arrives
  whole or is refused. `BodyReader` says where that is so (`AcceptedIsWhole`) and
  where it is not (section 3, bodies), and `Serve` that the reader is set up as the
  payload that was verified says.
- In `BodyReader` a hash is the sequence it is taken of, a digest or a trailer
  is of an algorithm the server knows, and data never reads as a line of the framing.
  A read hands on data or an error, not both: `bufio` gives both only to a read of
  64 KiB or more, and `io.Copy` asks for 32.
- In `Listing` a key is a sequence of names and common prefixes end in 0, so
  that sequences compare like the byte strings as long as no name contains a
  character that sorts before the slash. A prefix is empty or ends in a slash,
  and a delimiter, when there is one, is the slash.
- In `SigV4` a key or a signature is the value it is computed of, and the
  encoding of names and values is one-to-one. A header that clients do not sign
  is theirs to lose: properties speak of what the signature covers. The access key
  in a header is compared with the server's and is not signed; in a presigned
  URL it is a parameter and signed like the others. A query parameter comes once.
  An Authorization header that cannot be parsed is one value, `Garbled`.
- In `Cors` names do not differ only in case; exposed headers and the maximal
  age are left out. Hosts come in lower case, without a port.
- In `Routes` the names of a host or of a bucket are the
  sequence of their labels, so that a suffix of the host is a suffix of the sequence.
  The public URL and the listening address are not below each other or below localhost
  (`BasesAssumption`): with a public URL `x.localhost` the code takes `x` for a bucket.
- In `Buckets` a bucket either holds objects or not; a date of creation is never
  that of another bucket.
- In `BucketTree` the random names of temp files are one name, which one
  operation at a time makes enough, reads of the disk do not fail, and a call fails
  only by what is in the tree.
- In `ObjectStore` a temp file whose removal failed is forgotten when its call returns:
  nothing reads it and no later upload is given its name.
- In `Conditional` a call does not say whether it replaces the metadata, so a copy onto
  itself may be refused or go on.
- In `Multipart` the ids of uploads are random and never drawn twice.

Definitions that a comment calls mistakes are not part of the model. They are what a plausible bug would turn the definition below
them into, and `PROJECT.json` ("mutants") lists the property that each violates.

## 3. The runs

`tlc -workers 2 -config X.cfg M` inside this directory.

| Run (cfg) | Question | Answer |
|---|---|---|
| `MCObjectStore_atomic` | Two requests, two buckets, no faults, clients of `b2` that may stall: is the store an atomic map (`ImplementsMap`), and is every call on the other bucket answered (`OtherBucketsAnswer`)? | holds |
| `MCObjectStore_faults` | Two requests on one object, two bodies, two values of the user metadata; any system call may fail, the process may die between any two steps: the lock, the pair of files, what readers see, what success and refusal mean, when a temp file may be left; and the same refinement | holds: departures from the map are those `ObjectMap` lists |
| `MCMultipart` | Two uploads to one key, two part numbers, three lists, up to two faults: acknowledged parts, ETags, leftovers | holds |
| `MCBucketTree` | Four keys whose paths meet, two crashes: does a key disturb another, does anything deleted come back? | holds |
| `MCHandlers` | One conditional call (a put, a delete, a copy to another key or onto itself) and one paged listing (24 queries) among unconditional puts and deletes on three keys | holds |
| `MCBuckets` | Two buckets, two requests at a time, one that changes and uploads and one that reads, lists and changes; uploads that stall, a crash between any two steps: is what is answered true, what stays, and what does a call wait for? | holds |
| `MCServe` | A request signed or presigned at any of several times, altered in one place (also signed with the server's secret under another name), sent again, across three starts with and without variables; every operation at two names of buckets and of keys, two bases and two styles; browsers with 36 lists of rules; five bodies, plain and in frames, with a right, a short and no declared length, cut at any token, one token altered or lost, one frame lost, doubled or exchanged; does the reading of every body end that the clients go on sending? | holds |
| `MCBucketTree_empty` | Does `DeleteBucket` delete exactly the empty buckets? | violated |
| `MCBucketTree_failedput` | Does a failed upload keep the good object? | violated |
| `MCMultipart_alias` | Is an object completed from parts that were uploaded? | violated |
| `MCMultipart_etag` | Is the multipart ETag that of the parts? | violated after a fault |
| `MCHandlers_race` | Are conditions on uploads honoured? | violated by a race |

What the violated ones show (details under "findings"):

1. *Empty buckets.* `dirEmpty` skips names that start with a dot, meant for temp
   files; a bucket with only `.e` in it passes for empty and is deleted with it:
   the counterexample. With `Key <- {A, DB}` in the cfg it is the other half: nothing
   removes the directories of a key with a slash, so a bucket that held `d/b`
   can never be deleted again.
2. *Failed upload.* The bytes are renamed before the metadata is written; when
   that write fails the client sees an error and the object has changed.
3. *Part alias.* `partName` keeps two bytes and `CompleteMultipart` does not
   bound the numbers it is given: 65537 completes with part 1.
4. *Multipart ETag.* A part sent again whose JSON file could not be written
   keeps the old ETag beside the new bytes.
5. *Conditional race.* The check and the upload are two calls of the store. The run has one
   conditional upload that an unconditional one overtakes between the two; two uploads with
   `If-None-Match: *` can both succeed by the same steps.

Bodies. What the passing run shows has an edge worth knowing. `chunkReader` hands
on the `io.EOF` it meets inside a frame (`body.go:253`), and `verifyReader` then
asks for the declared length only. `AcceptedIsWhole` therefore promises that a body
without a digest in its header is the one that was sent only when the closing frame has
been read, and `CutIsNoticed` that a cut alone leads there only when the
client's frames hold more than it declared. A body that was damaged and also
ends inside a frame with the declared number of bytes is accepted.

### Bounds, and why they are enough

- Two requests show every pair of steps that may overlap, with a third party
  only in the lock's queue; the theorems of section 4 hold for any number of
  requests, buckets, keys and bodies. `MCObjectStore_faults` has one slot, where
  every step meets every other; copies from one slot to another are in
  `MCObjectStore_atomic`, over two buckets.
- `IOErrors` and `Crashes` in `ObjectStore` are switches, not bounds: any number
  of failures happens. `MaxFaults` (`Multipart`) and `MaxCrashes`
  (`BucketTree`) are bounds; two suffice to leave half of one operation, run another
  and stop it half-way too.
- `MaxPart = 2`, `NameSpace = 3` stand for 10000 and 65536: the number 4 is to 1
  what 65537 is to 1. The lists are one part, two parts, and an alias.
- The four keys of `MCBucketTree` are `a`, `a.obj/b`, `a.json/b` and `.e`; the
  violations use `d/b` and `a.json.tmp/b`. They cover each suffix that the code adds
  and the names it skips. A name is a sequence of pieces (`Piece`), and `.obj`, `.json`, `.tmp`
  and `.up` are pieces, so that keys may contain what the code appends.
- The listing sees `d/a`, `d/b` (one common prefix) and `e`, pages of 0, 1 and
  2, from the beginning and from within the common prefix. All combinations of
  present keys occur between any two pages.
- `MCHandlers` has one conditional request; what races with it are the
  unconditional ones, which may do all that another conditional one may.
- `MCBuckets`: what one request does meets every step of the other; a third
  would wait in the queue that `BucketLock` models. `MaxBirths = 2`: a bucket and the one that
  is made again under its name. One crash; `BucketTree` has two.
- `MCServe` has one request per behaviour, because requests meet only in the
  store. `trip.until` and `trip.starts` (at most `MaxStarts`) bound the clock and
  the starts. Times are small numbers in the proportions of the real ones: the
  skew is 2, a second 2, the longest URL 6, a day 8, and a duration has `Word = 32` values, so that
  an expiry of 16 wraps to 0 and one of 17 to a second; signatures are made
  before, at and after the server's clock and on both sides of midnight.
  Three keys: `k1`, `k2`, and one with the name of `k1` and the secret of `k2`, so that
  two keys differ in both parts, in the secret alone and in the name alone.
- Bodies in `MCServe`: `MaxChunk = 2` stands for 16 MiB; the bodies are empty, one frame, two
  frames of one unit, of two and one, and a frame that is too large; the limit
  on an object is none or 2. One place is damaged at a time, in addition to a cut at any point.
- `CHECK_DEADLOCK FALSE` in the `MCMultipart` runs: once the ids are used up and
  the uploads ended there is nothing left to do; and in `MCServe`: a request that
  is answered and a process that has used up its starts may rest. Nowhere else
  does the system stop.
- Symmetry: requests, bodies and metadata in `MCObjectStore_faults` (no bucket is
  `Slow` there and refinement is a safety property), uploads and bodies in
  `MCMultipart`. None in the run with fairness.

### Fairness

`FairSpec` (`ObjectStore`) assumes, for each request:

- weak fairness of its own steps: they are ordinary code that the Go scheduler runs;
- strong fairness of entering the mutex among writers: `sync.Mutex`, inside the
  `RWMutex`, hands over in arrival order once a waiter has waited 1 ms;
- weak fairness of the end of a body, but only in buckets that are not `Slow`:
  `cmd/arca/main.go:79` sets no read timeout, so nothing in the program ends
  the wait for a client that has stopped sending.

`FairSpec` of `Buckets` assumes the same of a request's own steps and of the mutex, and
nothing of the end of a body: `WaitsOnlyForUploads` has the uploads in its
premise instead.

`FairSpec` of `Serve` is weak fairness of the reading of a body, and of that only
where the clients of its bucket go on sending (`~ trip.slow`). The step stands for the
wait for the bucket's lock (`store.go:253`), which ends when the uploads ahead of it do,
and for the arrival of the next bytes, or of the loss of the connection: both are what
`FairSpec` of `ObjectStore` grants in buckets that are not `Slow`. Nothing is assumed of
slow clients, of the steps before the body, of the clock, the starts or the death of
the process. `ReadingEnds` says that under it `io.Copy` comes to an end, because no
`Read` returns neither data nor a verdict for ever; that a request waits for no other
one is not a question to `Serve`, which has one request and no locks.

`OtherBucketsAnswer` says: a call on a bucket where clients go on
sending is answered, whatever happens in a bucket where they do not. A call on
the stalled bucket itself is not answered, by design of the code: the upload
holds the lock. Copies that touch a `Slow` bucket are excluded from the promise
for the same reason.

## 4. The proofs

All theorems are about `Spec` with every value of the constants, under the
assumptions named at the end of this section.

| Module | Theorem | Says |
|---|---|---|
| `ObjectStoreProofs` | `TypeCorrect` | every variable of `ObjectStore` keeps its type |
| | `BodiesWhole` | the file of an object is a whole body at every moment |
| | `LockIsSafe` | the lock excludes and no path leaves with it held |
| `CoherenceProofs` | `PairsCoherent` | metadata describe bytes, but for a writer's gap and what a fault tore |
| | `CoherentReads` | a reader gets bytes and metadata of one version |
| | `AcksAreStored` | success means both files are what was asked for |
| | `RejectionsLeaveObject` | a refused body changes neither file |
| | `TempsRemoved` | a call ends over its temp file only if it failed, and the removal of the file failed as well (`NoTempLeft`) |
| `ImplementationProofs` | `StoreImplementsMap` | every behaviour of the two files is one of the atomic map (`ImplementsMap`) |
| `HandlersProofs` | `ConditionsHonoured` | conditions are passed only by a race |
| | `NothingLeftOut` | no object that stays while a listing runs is left out (`StableKeysListed`) |
| | `PagesGoForward` | each page comes after the one before (`PagesAdvance`) |
| | `TypesKept` | types |
| `BucketsProofs` | `BucketsKept` | acknowledged buckets are kept, deleted ones stay deleted (`AckedBucketsKept`) |
| | `AnswersHold` | what is answered about buckets was true during the call (`AnswersTrue`) |
| | `TypesKept` | types; a writer at work has no reader beside it |
| `MultipartProofs` | `PartsKept` | an acknowledged part stays until its upload ends or it is sent again (`AckedPartsKept`) |
| | `EtagsDescribe` | the ETag belongs to the bytes, but for a completion between two files and after a fault there (`ObjectsDescribed`) |
| | `UploadsEnd` | an upload no fault has touched can be ended and leaves no file (`UploadsRemovable`) |
| | `TypesKept` | types |
| `BucketTreeProofs` | `ObjectsKept` | an object is kept whatever calls on other keys do to the tree (`AckedObjectsKept`) |
| | `DeletedGone` | what was deleted does not come back, with the bucket made again either (`DeletedStaysGone`) |
| | `TypesKept` | what is on disk is a tree, and each file holds what its name says |
| `ServeProofs` | `ServedWereSigned` | what passes was signed with the server's secret and is in time, that passes, and it is routed to what was meant (`ServedIffSigned`) |
| | `PreflightsTellTruth` | a preflight allows what the rules allow, and no more (`PreflightsTell`) |
| | `AcceptedBodiesWhole` | an accepted body is the one that was sent, wherever anything tells (`AcceptedIsWhole`) |
| | `CutsNoticed` | a cut body is accepted only inside a frame, with the declared length (`CutIsNoticed`) |
| | `RefusalsHaveCause` | a body that arrives as sent is not refused (`RefusedForCause`) |
| | `VerdictsStand` | the first error is repeated for good, without more data (`VerdictStands`) |
| | `ShownKeysGoOnWorking` | keys that were printed go on working (`ShownKeysWork`) |
| | `TypesKept` | types; the body is read as the signed payload says |

### The arguments

**`ObjectStore`**, in four layers of which each uses the ones before:

1. `Shape` (`ObjectStoreProofs`): the types, and what the program counter says of the
   call: which operations reach a step, that a copy has read its source by the time it
   asks for the exclusive lock, that a temp file about to be renamed is whole. `TypeOK`
   alone is not inductive: `WriteMeta` writes metadata only if a copy or an update has
   read some.
2. `LockSafety` is inductive given `Shape`: each action either leaves the lock alone and
   keeps its request on the same side of it, or is one of the lock's own operations.
3. `Held` (`CoherenceProofs`): what a request has read or written under the lock is
   still what the files hold. `CoherentUnlessTorn` needs it: whether the second file
   makes the pair whole depends on what was read or written several steps before. It is
   preserved because two requests inside the lock are never at the same slot unless both
   read (`Apart`, from `LockSafety`).
4. `Strong` (`ImplementationProofs`): the invariants above with `Paced`, which says how
   far a call has got in each step. Under it every action is a step of `ObjectMap` seen
   through the mapping, or a stutter. A put, a copy or a delete commits where it deals
   with the metadata, its second file: until then the mapping shows the bytes that were
   there `before` (`BytesEnter`), from then on the new ones (`BytesLeave`). A reader
   looks at the step that settles its answer. A crash in a writer's gap maps to
   `MapCrash`, which commits half of the call.

**`Multipart`** (`Inv`). `OpInv` says what the operation under the lock has read and
done: a completion between its two files has in hand the ETags of the bytes it stored.
`PartsMatch` says that in an upload no fault has touched every part has its own ETag,
except between `PartRename` and `PartStub`. `Traces` says that an id not drawn yet has
no files, which is why a new upload starts empty. The promises alone know none of this.

**`BucketTree`** (`Inv`). First paths: the files of two keys, with the temporary ones
and those of the bucket, are never the same, because of the suffixes (`PathsApart`).
Then `Tree`: one system call leaves a tree a tree, and leaves the files that it does not
name alone. Then the operation: `OpInv` says which of its calls are left and what the
ones made have put on disk; `Kept` and `Gone` say of every other key that its files are
what the last answer promised. The last call of a put only renames what an earlier one
wrote, and a deletion of a bucket half-way has removed objects before it answers: it
must have found no promise standing when it began (`Dropping`).

**`Buckets`**. `Held` says that a writer past the lock holds it for the bucket of its
call, so that no two are inside one bucket, and `Dated` that a date of creation belongs
to one bucket, in its `bucket.json` or in the hand of its writer, and to none once it is
gone. `AckedBucketsKept` alone is not inductive: it says nothing of the file a writer is
about to write. `AnswersTrue` rests on `Answering`: what a walk has gathered was so at
some moment of the call, and a bucket that was there from its beginning is gathered or
still to be visited (`Gathered`, in `Truthful`); `DirsHold` says that a `bucket.json`,
written or about to be, lies in a directory that is there. `TypeOK` needs `Drained`,
that a writer at work has seen the last reader leave, and `Bounded`, that the creations
under way fit in the bound.

**`Handlers`**. `HonouredUnlessRaced` speaks of the moment of acting; `Watched` carries
it there: a request between its check and its act that nothing has raced finds its
condition as it left it. For listings, `Less` is shown to be a strict linear order on
sequences of names (`LessIrreflexive`, `LessTransitive`, `LessTotal`), so that a finite
set of items has a least and a greatest one. `DueAhead` then is inductive: a key that
has been there all along and was not shown comes after the point where the next page
begins; `ShownBefore` is its mirror for what was shown.

**`Serve`**, one invariant per part of a request's way:

- *Keys.* `KeysInv` follows the process on its way up, where `ShownKeysWork` is silent:
  new keys are made only while none were shown, and are shown only when they are in the
  file.
- *CORS.* `CorsInv`: a request gets past its preflight only when a rule applies to it,
  and its answer carries the headers of that rule.
- *Bodies.* `BodyInv`: everything on the wire comes from some list of frames, what was
  handed on under a signature is what that signature chains, and a reader that has seen
  the closing frame has handed on the whole body. A token that was altered, lost or
  exchanged stays within that set, and the chain tells. For a cut alone, or for a body
  that arrives as sent, `PlaceInv` says where the reader is: between two frames
  (`BetweenFrames`) or within one (`WithinFrame`), with exactly the rest of them still
  to come.
- *Types.* `TypeInv`: the payload is covered by the signature, so what `Verify` let
  through is read the way the client framed it.
- *What is served.* `VerdictTold` and `RoutedInv`: a verdict and a route are of the
  request that came. The lemmas below them are about functions: what passes `Verify` has
  the signature of what was sent, so nothing signed can differ (`HeaderGenuine`,
  `PresignGenuine`), and what was sent in time passes (`HeaderPasses`, `PresignPasses`,
  with the product in 64 bits); a host is below one base only, so that `target` reads
  back the bucket and the key in both styles (`OneBase`, `TargetInHost`,
  `TargetInPath`); and each shape reaches its operation (`BucketSwitch`, `ObjectSwitch`,
  `ShapeRouted`).

The last proof corrected the property. `ServedIffSigned` first said that what passes
arrived exactly as it was sent and was signed with the server's key. For two keys that
share a secret that is false: the access key in an Authorization header is compared with
the server's (`sigv4.go:99`) and is not covered by the signature, so a request signed
under another name passes once the name is replaced. The property now says what is so
(the secret is the server's, and all but that name is as it was sent; for a presigned
URL the name too), and `MCServe` has such keys.

Well-founded induction is used in the form that has no operator to instantiate: a set of
numbers that is not empty has a least member (`WFMin`).

### Assumptions

Each is an `ASSUME` that TLC evaluates in the runs.

- `None` and the other marks are not values of the sets beside which they stand
  (`NoneAssumption` of `ObjectTypes`, `Multipart`, `Buckets` and `Serve`,
  `PartialAssumption`, `ScansAssumption`, `RulesAssumption`, `ContentAssumption`,
  `KeyAssumption` of `Credentials`).
- Bounds are natural numbers (`BoundAssumption`, `CrashAssumption`, `StartsAssumption`,
  `LimitAssumption`); `Req` of `Buckets` is finite (`ReqAssumption`): a process has
  finitely many requests at any time.
- Keys of `BucketTree` are sequences of names that are not empty, and the names the code
  itself uses are names (`KeyAssumption`).
- Frames are not empty (`FramesAssumption`): an empty one is the closing frame.
- The trips of `Serve` have the types of a request; bucket and key are what routing can
  give back, that is not empty (`TripsAssumption`). A client that presigns sends the
  body plain: a conjunct of `Serve`'s `Init`.
- No base host is below another (`BasesAssumption`, section 2), and the clock's
  constants are in the proportions of the code's: the longest URL fits twice in the
  width of a duration (`ClockAssumption`).

### Only model-checked

`OtherBucketsAnswer`, `WaitsOnlyForUploads` and `ReadingEnds`: they rest on
fairness, and ENABLED is out of the prover's reach. The five runs that expect a
violation have counterexamples and need no proof.

## 5. Not modelled, and why

- XML types, the texts of errors, range requests (answered by `net/http`), logging,
  container files: format or code outside the program.
- Flags other than the keys, TLS and the errors of reading files at start-up:
  they end the process before it serves.
- HMAC, SHA-256, percent-encoding and the parsing of an Authorization header
  character by character: computations on strings. What they tell apart is in `SigV4`.
- Which checksum algorithms a header or a trailer names (`objects.go:562`).
- Power failure and lost unsynced data, see the abstractions above.

Hazards no property covers yet are in `PROJECT.json` with the reason.

## 6. Plan

Done, in this order: `BucketLock`, `ObjectTypes`, `ObjectMap`, `ObjectStore` and
its refinement; `Multipart`; `BucketTree`; `Conditional` and `Listing`;
`BodyReader`; the theorems about them; `Buckets`; `SigV4`, `Routes`, `Cors`,
`Credentials` and their composition `Serve`; and a theorem for every property of these
that does not need fairness.

Next, model: in `BodyReader`, the names of the digests, for those that are verified and
those that `metaFromHeaders` records are not the same (`objects.go:562`).

Next, prove:

1. The safety half of `OtherBucketsAnswer`: no step of a request reads or writes the
   lock of a bucket that its call does not name.
2. That the steps `Conditional` and `Listing` take as one are steps of `ObjectMap`, so
   that `Handlers` rests on `StoreImplementsMap` by a theorem and not by an argument.
