# A TLA+ verification of content-rw-elasticsearch

content-rw-elasticsearch consumes combined post publication events from a Kafka
topic and keeps the Elasticsearch index of the search API up to date with them.
It is a small program with few locks and many neighbours: the hard part is not
in any one function but in what the handlers of several partitions, a mutex held
across a network request, a deadline, a connection that breaks and a process
that is killed do together, and then what two instances of it do that pass
partitions to one another. These modules model that, the life of the process and
its health endpoints around it, and the data transformations that decide where a
document ends up and what it says.

Paths below are relative to the root of the repository.

## 1. Inventory

| Component | State | Operations | Model |
|---|---|---|---|
| Message handler (`pkg/message/message_handler.go`) | goroutine of `Start`; one `handleMessage` per partition with its context | `Start`, `Stop`, `handleMessage` | `MessageHandler` for one instance, `ConsumerGroup` for several; `Stop` in `Lifecycle` |
| Routing (same file, `configs/app.yml`) | none | `readContentType`, `isAllowedType`, the guards of `handleMessage` | `MessageRouting`, `MessageDecision` |
| Elasticsearch service, writes (`pkg/es/service.go`) | `ElasticClient`, `mu` | `SetClient`, `WriteData`, `DeleteData` | `MessageHandler`, `ConsumerGroup` |
| Elasticsearch service, schema | package variable `referenceIndex` | `GetSchemaHealth` | `SchemaHealth`; its place among the checks in `Health` |
| Elasticsearch service, cluster | reads `ElasticClient` without the lock | `GetClusterHealth` | `Health` |
| Client and signing (`pkg/es/client.go`) | none | `NewClient`, `RoundTrip` | `NewClient`'s two outcomes, in the connection loops |
| Mapper, base URL (`pkg/mapper/mapper.go`) | `Handler.BaseAPIURL` | rewrite and use in `ToIndexModel` | `BaseAPIURL` |
| Mapper, annotations | the model under construction | the rest of `ToIndexModel` and its helpers | `AnnotationMapper` |
| Mapper, content fields | the content as it passes from handler to mapper | the choice of the body, `populateContentRelatedFields` | `ContentFields` |
| HTML transformer (`pkg/html`) | none | `TransformText` and nine transformers | `TextTransformer` |
| Concordances (`pkg/concept`) | the map under construction | `GetConcepts`, `TransformToConceptModel`, `HealthCheck` | `Concordance`; the outcome of the calls in `MessageHandler` and `Health` |
| Policy agent (`pkg/policy`) | none | `EvaluateContentPolicy` | its three outcomes, in `MessageHandler` |
| Health endpoints (`pkg/health`) | none | six checks, `/__health`, `/__gtg`, `/__health-details` | `Health` |
| HTTP server, `main` (`pkg/http/server.go`, `cmd`) | the process, its server, its consumer | start, wait for a signal, shut down, `Stop` | `Lifecycle` |
| HTTP client (`pkg/http/client.go`) | none | construction | what it does not bound: the silent API of `MessageHandler` and `Health` |
| Configuration (`pkg/config`, `configs/`) | none after start | `ParseConfig`, `ReadConfigFile` | tables as data; the ways to fail in `Lifecycle` and `SchemaHealth` |
| Schemas (`pkg/schema`) | none | types only | fields of a `Message` and of a `Content` |

How they interact. `main` builds everything, calls `Handler.Start` and serves
the health endpoints until a signal arrives. `Start` runs a goroutine that tries
to create an Elasticsearch client once a minute, gives it to the service with
`SetClient` and then starts the consumer. The Kafka client calls `handleMessage`
from one goroutine per partition, and marks an event as consumed when
`handleMessage` returns, with or without success; marked offsets are committed
from time to time. A handler asks the policy agent, decides what to do with the
event, maps the document (which asks the Concordances API) and calls `WriteData`
or `DeleteData`. The mapper and the service are shared by all handlers; the
service is also used by the goroutines of health requests. Two replicas share
the consumer group and the index; the mutex orders the requests of one of them
only.

What is hard, and what is correct:
* *Index and log.* Every document should come from an event entitled to write
  it, and the index should follow the log of each partition. Deadlines, broken
  connections and kills leave requests behind that Elasticsearch may apply at
  any later time; a restart repeats events.
* *Mutex.* `WriteData` and `DeleteData` hold the write lock for a whole HTTP
  request, and handlers wait for it without looking at their context. It must be
  exclusive, and it must always be released.
* *Reports.* "Successfully saved" and "Successfully deleted" are monitoring
  events by which publications are traced; they should tell the truth about the
  index. They are logged after the mutex has been given back.
* *Start-up.* `ElasticClient` is used without a nil check: no handler before
  `SetClient`. The loop must not give up.
* *Shared state without a lock.* `Handler.BaseAPIURL` and `referenceIndex` are
  checked and written by several goroutines.
* *Routing.* A delete must not be dropped where the write was not; the type of a
  document must not depend on who published it last; types and collections come
  from different tables.
* *Mapping.* Labels and identifiers of an annotation go to the fields of its
  types and of its predicate, and nowhere else, once; the primary section and
  theme agree with the fields. Entries of the concordances share Go arrays.
* *Group.* `handleMessage` takes no context from the Kafka client: a partition
  can move to another instance while its handler maps, waits or writes. Nothing
  may be skipped, and what the owners write must stay in order.
* *Health.* The checks read the client while it is being set, overlap each
  other, and ask neighbours that may be silent, only one of which they give up
  on. They must answer when they can, agree, and never say yes without a client.
* *Shutdown.* The server is shut down first and the consumer closed last, with
  health requests open, handlers at work and the connection loop still trying.
  Of these only a handler that never returns may keep the process.
* *Texts.* Nine transformers in a row, each on what the others left, unescape
  what looks like markup, once, and leave spaces behind; handler and mapper
  choose between three texts in two places.

`PROJECT.json` lists each hazard with its line and the properties about it.

## 2. Modules

### MessageRouting
Pure operators, one per decision of `pkg/message`: `IsIgnored` (synthetic
events, bodies that are not JSON), `Skip` (the policy's verdict),
`IsAllowedType`, `ReadContentType`, `Route` (everything from `isAllowedType` to
the choice between `DeleteData`, `WriteData` and nothing), `Eligible`. A
`Message` has the properties of an event these look at. Strings are reduced to
what `strings.Contains` can find in them; the system names in `app.yml` are not
substrings of each other, so the order in which Go walks the map of systems does
not matter. The first name in the list of identifiers and origin that is that of
a system decides (`Names`, `Known`, `FirstKnown`).

### MessageDecision
`handleMessage` as one step from an event to its decision: the properties
compare it with the decisions on related events, for lists of identifiers of any
length. One of these is `Emptied`: the same event flagged deleted and without
its content, which takes the identifiers and the content's type with it and
leaves the headers. `MessageHandler` uses the operators of `MessageRouting`
alone.

### MessageHandler
One instance of the program between a topic and the index.

| Variables | Code |
|---|---|
| `client`, `starter` | `ElasticClient`, the goroutine of `Start` |
| `mu` | `ElasticsearchService.mu`, as a writer lock (no code on these paths takes the read lock) |
| `pc`, `enriched`, `ctx` | per partition: where `handleMessage` is, whether its payload has annotation fields, its context |
| `req` | per partition: the request the handler is waiting for: sent, applied and answered (`done`), answered with an error (`failed`) |
| `index`, `orphans` | the documents in Elasticsearch; requests nobody waits for any more |
| `topic`, `pos`, `committed`, `life` | the log, the events marked, the offset committed, the number of restarts |
| `reported`, `stray`, `crossed` | history: what the monitoring events said last about a document; documents last changed by a request nobody reported; documents that Elasticsearch changed while an earlier change was still to be logged |

| Actions | Code |
|---|---|
| `ConnectFails`, `WakeUp`, `SetClient`, `StartConsumer` | the loop of `Start` |
| `Ignore`, `Deliver` | `handleMessage` up to the policy agent |
| `PolicyFails`, `PolicyDrops`, `PolicyAllows` | the policy agent's answer and every guard up to the creation of the context and the Deleted branch |
| `ConcordanceReplies` | `GetConcepts` within `ToIndexModel`, well or badly |
| `SendRequest` | `Lock`, and the request on its context: on an expired one it fails before anything is sent |
| `GiveUp` | `Do` returns an error at the deadline; the request is left behind |
| `ServiceReturns` | the deferred `Unlock` of `WriteData` and `DeleteData`, which runs before the handler can log anything |
| `Report`, `LogFailure` | the log line, the deferred `cancel` and the return of `handleMessage` |
| `DeadlinePasses` | the ten second timer |
| `EsApplies`, `EsRefuses`, `ConnectionBreaks`, `OrphanLands`, `OrphanIsLost` | Elasticsearch and the network, external |
| `Commit`, `Restart` | the Kafka client's commits, external; the end of the process at any step, and a new one |

### OrderedIndex
The promise, without handlers, mutex, contexts or answers: the events of a
partition are applied in order and at most once between two restarts, and each
may be passed over; a restart goes back to the committed offset and no further;
only abandoned requests are applied out of order, once each. `MessageHandler`
implements it with `next` mapped to the first event of each partition whose fate
is open and `late` to `orphans`.

### BaseAPIURL
The check, `strings.Replace` and assignment of `ToIndexModel` and the read in
`populateContentRelatedFields`, interleaved. A Go string is an address and a
length that are stored one after the other in an order the compiler may choose,
and the check's read may or may not be repeated for the argument of `Replace`:
both are nondeterministic choices. A URL is the number of s's after "http" in
the bytes and the number the length makes room for. `configured` is the URL the
program was given, with or without the s.

### SchemaHealth
`GetSchemaHealth` in the steps between which another call can come: the nil
check, the new object, the reading of the file (after which
`&referenceIndex.index` is evaluated), the unmarshalling, the guards, the
request and the comparison. `json.Unmarshal` itself is three steps: it looks for
a map (`CheckMap`), makes one when there is none (`MakeMap`) and inserts the
reference (`Insert`); `made` and `filled` are the numbers of the objects that
have got that far. Dereferencing the entry of an object that another call has
emptied or replaced panics (`Panics`); an access to the map during an insert may
be noticed by the runtime, which ends the process (`ConcurrentMapAccess`), as
does `log.Fatal` in `ReadConfigFile` (`OpenFails`). `misread` is history: a read
has failed since the process was started, for want of the file (`ReadFails`) or
because it could not be parsed (`UnmarshalFails`). `live` is what the cluster
answers with: a set of indices, each with settings and mappings that are those
of the reference or others, out of those `Lives` allows. Without an index there
is nothing to compare (`NoIndex`); of several, `GetSchemaHealth` compares the
one that Go's map yields first, so `Verdict` is that of any of them.

### Concordance
`TransformToConceptModel` by rows. An entry is a slice, an array and a length:
the entry of an alias is a copy of its concept's slice, and `append` writes into
the shared array where there is room. The module has operators and the steps of
the loop over the rows; `AnnotationMapper` runs them. Loops within a step are
functions of the index they have reached, so that the proofs can follow them.

### AnnotationMapper
`ToIndexModel` from `prepareAnnotationsWithConcepts` to `populatePrimaryTheme`.
It extends `Concordance`: an event is a list of annotations with the rows the
API has for them, which become the map (`ReadConcordances`) that the annotations
are looked up in, so that the properties relate the document to the rows of the
response. One step per row and one per annotation; the operators are named after
the functions. An identifier is a record of the taxonomy its suffix encodes and
a name.

### ConsumerGroup
Several instances, one topic, one index. `work[i][p]` is the handler of instance
`i` and partition `p`: idle, or a record of its event, of the session it was
begun in, of whether its context lives, and of its stage (`mapping`, `waiting`
for the instance's mutex, `sent`, `done`, `failed`). The steps are those of
`MessageHandler`, taken together where nobody can come between them to any
effect (the policy agent's answer is part of `Begin` and `PassOver`; an expired
context is noticed in `SendRequest`; `Finish` unlocks and returns, as nothing
here depends on what is logged between the two). What is added is the group:
`Rebalance` gives every partition to an instance all of whose handlers have
returned, because only such an instance gets to join; a handler of an instance
that is left out goes on (`Stale`), and marks into a session that is over.
`Crash` ends an instance at any step. An instance joins once it has a client
(`Connect`).

The group implements the same `OrderedIndex`: its `next` is the first event that
the owner of a partition has not decided, its `late` are the orphans and the
undecided events of stale handlers. `OrderedIndex` lets any set of partitions
restart and lets such events be left behind by it.

### Lifecycle
`main` from the AWS session to its return, as a program counter; the goroutines
of `Start` and `ListenAndServe`; health requests as a number; the context of
`Shutdown`; signals before and after `signal.Notify`; the liveness probe of the
deployment, which is what notices that the port was never bound (`ListenFails`
is only logged). `CheckIsFatal` is `ReadConfigFile` in a health check.

### Health
Each request runs the checks its endpoint wants: `/__gtg` in order up to the
first failure, `/__health` all in any order, `/__health-details` one. A check
that uses the client has `Begin` (up to the comparison of the client with nil)
and `Finish`; the others, for which nothing in this model changes between their
call and its return but what the neighbours answer, have `Ask` alone.
`StoreType` and `StorePointer` are the two words of the interface value that
`SetClient` writes; a call on a client with a type and no pointer is `Panic`. A
check comes back when its neighbour answers, or at its timeout, which the checks
of Elasticsearch have and those of Kafka and of the Concordances API do not
(`ComesBack`). The neighbours change at any time (`Change`); `since` holds the
requests that began after the last change, which is what makes answers
comparable.

### TextTransformer
The transformers on sequences of the lexemes their regular expressions tell
apart. All of them but `EntityTransformer` leave positions out of a text; it
replaces lexemes, in one pass: what was escaped twice (`Twice`) becomes an
entity and stays one. For the others, `Keep(t, S)` is what `t` has at the
positions `S`. `Cut` is `ReplaceAllString` with an empty replacement, for an
expression given by where its matches can end: the leftmost match, the shortest
there, and on behind it. `TransformText` takes a text through the list the
mapper has for its field. Texts are put together from blocks that carry what a
reader should see of them.

What that is, is defined without the transformers, for two kinds of blocks. Of
`Prose` a headline shows the words outside tags, and a body those outside tags
and captions; it may hold anything, in any order, but an opening tag of a
graphic or of a pull quote, or one of a script, escaped or not, as long as each
tag, plain or escaped, and each caption is closed, and a caption begins and ends
outside tags. Escaped graphics and pull quotes are running text: the
transformers that would drop them come before the entities are unescaped
(`mapper.go:238-241`), so their tags go and their words stay. A block is
`Enclosed` if it is a graphic, a pull quote or a script up to its own closing
tag, whatever is between, as long as each tag is closed: a body shows nothing of
it. A graphic may have the other two in it, a pull quote a script; a script may
be escaped, as it is looked for after the entities. `ShownAssumption` says that
every block is one of the two, but for a lone `&lt;`. TLC evaluates it for the
blocks of the run. The module has operators only.

### ContentFields
It extends `TextTransformer`. `bodyXML` becoming the body in the handler
(`Normalise`), then headline, body and thumbnail in the mapper
(`PopulateFields`), and the length with its loop over the data sources. An
address is the last part of an `apiUrl`, which is empty if it ends in a slash.
The properties relate what is indexed to the content as it was published,
through both the handler's and the mapper's choice and every transformer.

### The proof modules
`MessageHandlerProofs` (the handler, its refinement and routing),
`BaseAPIURLProofs`, `SchemaHealthProofs`, `ConsumerGroupProofs` (with its
refinement), `AnnotationProofs` (annotations and concordances), `ContentProofs`
(content fields and transformers), `LifecycleProofs` and `HealthProofs`: section
5.

## 3. Runs

| Run | Question | Bounds |
|---|---|---|
| `handler` | Do mutex, index, reports and start-up keep their invariants when handlers interleave, requests are lost or late, deadlines pass and the process is killed? Does the index follow the log as `OrderedIndex` says? Is the mutex always released and the topic consumed, whatever Elasticsearch answers? | two partitions, two documents, one restart, six topics of two to four events: one document written and deleted in one partition and in both, a PAC delete without a type, every way to be dropped |
| `lookup_hangs` | What if the Concordances API never answers? | as `handler`, without the fairness of lookups; two topics |
| `routing` | Are related events routed consistently? | all events over the systems methode, wordpress and an unknown one, with up to two identifiers |
| `group` | What can instances rely on when partitions change hands under handlers at work? Does the index still follow the log, and does the group get through the topic? | two instances, two partitions; three topics: a write and a delete of one document in two partitions and in one, a document with annotations after an event that is dropped; one trouble, a rebalance nobody needed or a crash, followed by the rebalances it calls for |
| `lifecycle` | In what order does the process shut down, and does it end? | two open requests |
| `health` | What do the answers mean, what breaks a request, and is every request answered? | three endpoints, two requests of which any may be made; neighbours that are all well, a silent Elasticsearch, a silent Kafka, and a silent Concordances API with a consumer that lags; they change at any time |
| `schema`, `schema_race` | What can overlapping checks of the schema answer? | three overlapping checks, reads that fail at any time, one restart; no index, one that matches or has other settings, and two of which one has other mappings |
| `base_url`, `base_url_race` | What can handlers do to the base URL? | three handlers with an http and with an https URL, three documents each (one in `base_url_race`) |
| `annotations` | What does each entry of the concordances hold for a response in any order? Do the fields, the section and the theme follow from rows and annotations? | lists of up to three of eleven annotations, with concordances for every concept, for all but one, and without ids; for three names of two concepts, all responses of up to four of seven rows, and of up to six of four rows when an alias has rows of its own, enough for an array with room that both names append to |
| `content` | Do texts come out as words and single spaces? Which text, thumbnail and length does a document get? | titles and bodies of up to three of seventeen kinds of blocks, `bodyXML` of up to two: every pair next to each other, and what stands around a pair; every type and choice of texts; six image sets; up to two of four data sources |

Why these bounds are enough. Handlers interact pairwise, through the mutex, the
index and orphans: two partitions show any two of them, and a partition with two
events shows an orphan of the first meet the second. One restart gives every
orphan of a former process and every redelivery; a second only repeats this from
a later committed offset. The invariants proved in section 5 hold for every
value of these constants. Two instances are the group the chart deploys, and a
stale handler needs no more than one other; partitions meet in the index only
and in the choice of owners, which two of them show, and a partition with two
events relates an event to those before it. One trouble gives a partition a
second owner while its first is still at work, or, after a crash, the same
instance once more with what its former life left behind. That the invariants
and the order hold for any number of troubles, in which partitions come and go
between the instances, is proved. Requests to the health endpoints meet only in
what they read; two are enough for every pair of endpoints. Of their
environments, one fails the three checks of Elasticsearch at their timeouts, one
keeps those of Kafka waiting, and one fails a check by its answer while another
hangs; that the endpoints agree and that only a torn client breaks them is
proved for all states of the neighbours. Two overlapping schema checks already
race; the third shows an object being replaced between two others' steps.
Annotations, rows, data sources and the lexemes of a text come in lists of any
length; that what the runs say of short ones holds of all is proved. In
`Concordance`, four appended ids are the first time that an array has room twice
over.

Deadlock is not checked: at the end of the topic, of a list or of a response
there is nothing left to do, a process has ended, and a check or a document that
is bounded stops at its bound.

What they show:

* `ClientBeforeHandlers`: no handler runs without a client, on any start.
* `OneRequestAtATime`: the holder of the mutex is exactly the handler that waits
  for a request.
* `SavedMeansIndexed`, `ReportsAccountForIndex`: while a handler still holds the
  mutex, an answered request is what the index has. After that, reports and
  index can differ in two ways and no other: by a request whose answer nobody
  got (`stray`), and by two handlers that changed a document one after the other
  and log in the other order (`crossed`), which takes a document with events in
  two partitions. The last report is then about a document that is no more.
* `OnlyEligibleIndexed`: redelivery, late requests and crashes never bring
  anything else into the index than the document of an event entitled to it.
* `RefinesOrderedIndex`: as above. It says as much about what is not promised: a
  late request can put an older document over a newer one, and a redelivery
  starts over from the committed offset.
* `TopicConsumed`: progress does not depend on Elasticsearch; the deadline gets
  every request out of the mutex, and every handler behind it.
* `WrittenIsDeletable`, `RepublishKeepsType`, `DocumentsAreCollected`: a delete
  that keeps its content is let through wherever the write was; one without
  content if, and only if, its headers give it a type or a known origin, so a
  document whose system is only named in its identifiers cannot be deleted that
  way; the type does not change with the origin; every type but that of live
  events has a collection.
* `NeverPlainHttp`, `HttpsIsKept`: what is left of the URL's correctness under
  the race.
* `SettlesFilled`, `WrongOnlyWhileInitialising`: the schema check is right again
  when the overlap is over; the reference is blamed, or breaks a check, only
  while another check is still filling it, or after a failed read.
* `EntriesExact`, `NoForeignIDs`: a concept has all its ids whatever the order
  of rows; an alias those of the rows before it; with shared arrays an entry can
  hold another name's ids, never a stranger's.
* `OneRequestPerInstance`, `OwnersWorkOnTheirSession`, `AtLeastOnce`: an
  instance awaits one request, also on behalf of partitions it has lost; no
  event of an old session is handled in a new one; what is committed was in the
  hands of a handler that returned, through any sequence of owners.
* `GroupRefinesOrderedIndex`: as `RefinesOrderedIndex`, for the group. What
  moving a partition costs is what a restart costs: late requests, here also
  those not even sent when the partition moved.
* `TopicCommitted`: the group commits the topic to its end; an instance that
  hangs for ten seconds in a handler is left out and comes back.
* `ConsumerClosedLast`, `EndsWhenTold`: the consumer outlives the server and its
  requests, or their five seconds; a process that gets a signal, or has no port
  and is probed, comes to close its consumer whatever hangs, and ends if its
  handlers return. One that waits for a silent Concordances API (`lookup_hangs`)
  keeps `Close`, and `main` with it, until the process is killed.
* `HealthyMeansClient`, `EndpointsAgree`, `BrokenOnlyByTornClient`,
  `RequestsAnswered`: a yes means that the whole client is there; the endpoints
  agree while nothing changes; a request, or the process, is broken by a client
  caught half written and by nothing else; silence of Elasticsearch costs an
  endpoint its yes and not its answer. That of Kafka or of the Concordances API
  does cost the answer, so that both answering from some point on is the
  premise.
* `BlocksIndependent`, `NoMarkupLeft`, `SpacesInPlace`: neighbours do not
  disturb each other's words; no tag is left, nor one that was escaped; no
  entity, but those that had been escaped twice; no two spaces; a space at
  either end only where an embed or a caption stood, as these go after the
  trimming. Escaped pull quotes and graphics keep their words, other than
  scripts. `BlocksIndependent` has an exception it states: a lone `&lt;` is
  unescaped before tags are removed (`mapper.go:241-243`), reads as the start of
  one and takes the words up to the next `>` with it. No document of the
  repository says otherwise about any of this, so these are limitations and not
  findings.
* `BestTextIndexed`, `MediaOfContent`: the words of a body are those of the best
  text there is, and no text gives way to one of lower rank (a body of markup
  alone is not replaced by the description, as the code asks before it
  transforms); a thumbnail is an image of the content's first member, and its id
  is empty if the address ends in a slash; a length is that of the first medium
  of the kind.
* `FieldsExact`, `SectionConsistent`, `ThemeConsistent`: as their names say,
  against definitions that do not loop.

### Findings

* `base_url_race`: with an http base URL, two handlers that both see the
  `http://` prefix rewrite `BaseAPIURL` twice (`httpss://...`), which gives
  every later document the wrong `model_api_url`, or read it torn, which gives
  one of them one (`pkg/mapper/mapper.go:54`). With the default, https, nothing
  is written.
* `schema_race`: overlapping first calls of `/__health` and `/__gtg` can answer
  that the mapping does not match, or dereference nil, although it does match
  (`pkg/es/service.go:53`). That is the shortest way to this answer, and the one
  TLC shows. There is one without an overlap: a check that could not read or
  parse the reference says so once and leaves an empty one behind, with which
  every later check is wrong until the process is restarted
  (`pkg/es/service.go:57`). `WrongOnlyWhileInitialising` says that there is no
  third.
* `lookup_hangs`: a Concordances API that accepts the connection and is silent
  stops the partition for good: `GetConcepts` has neither the handler's context
  nor a timeout (`pkg/mapper/mapper.go:202`), where the health check promises
  that only fields are lost.

More things the models show are limitations, as no document of the repository
speaks of them for this case. The checks of the Concordances API
(`pkg/concept/concordance.go:129`) and of Kafka
(`pkg/health/healthcheck.go:158`, `:178`) have no timeout either, so that
`/__health` and `/__gtg` hang with their neighbours: that is why
`RequestsAnswered` has a premise. A lookup that hangs also keeps the process
from ending on a signal. One that fails lets a document without its annotation
fields replace a complete one: `OrderedIndex` allows it, as the code does. And
without the reference file the first schema check ends the process
(`pkg/config/config.go:102`), which `OpenFails` in `SchemaHealth` allows at any
time.

## 4. Fairness

*MessageHandler*. `OwnFairness` asks for weak fairness of everything a goroutine
does when it is not blocked, of timers, and of the policy agent's answers; for
strong fairness of `SendRequest`, because Go's mutex hands the lock to a waiter
that has waited long enough, and of `SetClient`: an attempt to reach
Elasticsearch succeeds if there are attempts without end. Nothing is asked of
answers to index and delete requests, of commits, or of restarts (of which there
are finitely many). That the policy agent answers and that Elasticsearch can be
reached in the end are assumptions about the environment. `LookupFairness` adds
that the Concordances API answers; it is an assumption about the environment
that the code does nothing for, which is what `lookup_hangs` shows. `FairSpec`
has both, `OwnSpec` the first.

*ConsumerGroup*. The same for every instance; its lookups are weakly fair for
the same reason. In addition the Kafka client commits what is marked, and the
group assigns partitions that have no owner. Rebalances nobody needs and crashes
are never required, and together bounded by `MaxTroubles`.

*Lifecycle*. `main`, the server's goroutine and the five second timer run.
`CloseReturns` is strongly fair when no handler is at work, as the client may
wait for its handlers. That these return is not assumed by the specification,
since `GetConcepts` has no limit: it is `HandlersReturn`, the premise of the
second half of `EndsWhenTold`. The probe of a dead port comes. Nothing is asked
of the connection loop, of health requests, or of signals.

*Health*. Only the goroutines of requests and their timers. That Kafka and the
Concordances API answer from some point on (`NeighboursAnswer`) is a premise of
`RequestsAnswered`, not of the specification. Timeouts inside the health check
libraries are not assumed: `GTGHandler` and `fthealth` wait for the checks they
were given.

## 5. Proofs

Everything below is proved for all values of the constants: any partitions,
documents, topics, handlers, instances, requests, restarts, rebalances, crashes,
rows, annotations and contents. Each module assumes the named assumptions on the
constants of the module it is about and nothing else; they say what the
constants are.

| Module | Theorem | Property |
|---|---|---|
| `MessageHandlerProofs` | `TypeCorrect` | `TypeOK` |
| | `ClientReady` | `ClientBeforeHandlers` |
| | `MutexExcludes` | `OneRequestAtATime` |
| | `SavedIsIndexed` | `SavedMeansIndexed` |
| | `ReportsAccount` | `ReportsAccountForIndex` |
| | `OnlyEligible` | `OnlyEligibleIndexed` |
| | `ImplementsOrderedIndex` | `RefinesOrderedIndex` |
| | `WrittenDeletable` | `WrittenIsDeletable` |
| | `RepublishedKeepsType` | `RepublishKeepsType` |
| | `DocumentsCollected` | `DocumentsAreCollected` |
| `BaseAPIURLProofs` | `TypeCorrect` | `TypeOK` |
| | `NeverPlain` | `NeverPlainHttp` |
| | `HttpsIsSafe` | `HttpsIsKept` |
| | `AloneIsSafe` | `EveryDocumentHttps`, for one handler |
| `SchemaHealthProofs` | `TypeCorrect` | `TypeOK` |
| | `SettledIsFilled` | `SettlesFilled` |
| | `WrongIsPassing` | `WrongOnlyWhileInitialising` |
| `ConsumerGroupProofs` | `TypeCorrect` | `TypeOK` |
| | `OneRequest` | `OneRequestPerInstance` |
| | `OwnersWork` | `OwnersWorkOnTheirSession` |
| | `NothingSkipped` | `AtLeastOnce` |
| | `OrderAlways` | names of late events are unique |
| | `GroupImplementsOrderedIndex` | `GroupRefinesOrderedIndex` |
| `AnnotationProofs` | `TypeCorrect` | `TypeOK` |
| | `EntriesAreExact` | `EntriesExact` |
| | `NoIDIsForeign` | `NoForeignIDs` |
| | `FieldsAreExact` | `FieldsExact` |
| | `SectionIsConsistent` | `SectionConsistent` |
| | `ThemeIsConsistent` | `ThemeConsistent` |
| `ContentProofs` | `TypeCorrect` | `TypeOK` |
| | `NoMarkupIsLeft` | `NoMarkupLeft` |
| | `SpacesAreInPlace` | `SpacesInPlace` |
| | `MediaIsOfContent` | `MediaOfContent` |
| | `WordsAreOfBestText` | `WordsFromBestText`, a conjunct of `BestTextIndexed` |
| | `BlocksAreIndependent` | `BlocksIndependent` |
| | `BestTextIsIndexed` | `BestTextIndexed` |
| `LifecycleProofs` | `TypeCorrect` | `TypeOK` |
| | `ClosedLast` | `ConsumerClosedLast` |
| `HealthProofs` | `TypeCorrect` | `TypeOK` |
| | `HealthyHasClient` | `HealthyMeansClient` |
| | `EndpointsDoAgree` | `EndpointsAgree` |
| | `OnlyTornClientBreaks` | `BrokenOnlyByTornClient` |

The type invariants of `BaseAPIURL`, `SchemaHealth`, `Lifecycle` and `Health`
are proved and no run repeats them; the theorems listed with a property of a run
say for every instance what the run shows on one.

*The handler*. The inductive invariant `IInv` is the conjunction of the five
properties and the facts they need: where the starter is when the client is set;
that a handler at work has an event of the log before it (so that `Msg` and
`CurrentUuid` are defined); and that a request exists only while its handler is
inside the service or has its answer still to log. `SavedMeansIndexed` is not
inductive alone: that no other handler writes between a request being applied
and the mutex being given back follows from `OneRequestAtATime`; that none did
between this and the log line is what `crossed` is for, and that no orphan did,
`stray`. What a log line does to the reports depends on who else has one to
write: `OneReporter` says that of a document that is not crossed there is one
handler at most, and `CrossedSpread` that a crossed one has events in two
partitions, as two handlers are at work on them when it happens
(`TwoWorkersSpread`). There is a lemma for the initial state, and one per group
of actions; `Invariance` combines them and each theorem follows from it.

*Its refinement*. `OnlyEligibleIndexed` needs `EntitledInv` on top of `IInv`: a
handler past the guards, and an orphan, carries an event that passed them, and
says "enriched" only for one with annotations. The refinement takes the steps
one by one under both invariants. What is mapped to `next`, `Undecided`, moves
by one when a handler returns without a request, when a request is answered, and
when it is given up; the lemmas `DecidedNext` and `SameNext` say so once for all
actions, and each action is then `Apply`, `PassOver`, `Abandon`, `ApplyLate`,
`Forget`, `Commit`, `Restart` of `OrderedIndex`, or a stutter.

*Routing*. `DecisionInv` says what a decision was made from. What is left are
facts about `ReadContentType`: an emptied event is typed by its header or its
origin alone (`EmptiedType`), another one does not look at the flag or the
content, and the origin is the last of the names it looks at, so that another
origin does not change the first known name when an identifier is one
(`OriginComesLast`).

*BaseAPIURLProofs*. `SecuredArg` says that whoever is past `Replace` has an
https URL in hand, and that `bytes` is not that of a plain http URL once it has
been stored. The other two theorems show when the finding `base_url_race` cannot
happen: the field is never written, or nobody else is there to see it written.

*SchemaHealthProofs*. An empty object in `referenceIndex` always has a call that
will fill it (`WillBeFilled`): one that has not yet evaluated
`&referenceIndex.index`, or one that has, for this very object. A check past the
nil check has a reference to compare with; if it finds it empty, the one that
will fill it is another: that is `WrongIsPassing`.

*The group*. `IInv` is the conjunction of the properties and `Marked`: what an
owner has marked was handled, and no more is committed. That is what
`AtLeastOnce` needs to be inductive, since a new owner starts from `committed`
with nothing but `handled` to vouch for what is before it. The steps of a
handler are brought to one form first (`Moves`: a job changes, its event and its
session do not), so that one lemma serves them all.

*Its refinement*. The refinement needs to know that a late event is applied
once. Late events are named by event and session, and `OrderInv` says that the
names are unique: a job is about an event of its partition (`EntitledJobs`), a
session has one owner for a partition (`OneJobPerSession`), no orphan has the
name of a job that is not decided or of another orphan (`NoTwins`). The last is
kept when an owner begins an event because orphans of its own session are of
earlier events (`OrphansDecided`), and those of other sessions have other names.
Each step of a job is then one of four classes (`Quiet`, `Settled`, `Left`,
`Ended`), and for each `TurnUndecided` and `TurnLate` say what becomes of `next`
and of `late`: a stutter, `Apply`, `PassOver`, `Abandon`, `ApplyLate` or
`Forget`. `Rebalance` and `Crash` are a `Restart` of all partitions and of those
of the instance; the new late events are those of jobs that lose their
partition, and they are the first undecided ones of it (`UnderWay`).

*LifecycleProofs*. What `main` has waited for stays so: no request is accepted
once `Shutdown` is called, an expired context stays expired, a server that has
returned does not come back.

*HealthProofs*. A check that was not turned away found the type of the client,
one that passed its pointer (`ClientInv`); an answer sums up the results
(`AnswerInv`); the results of a request in `since` are those any request would
get now (`CurrentInv`), which makes two answers agree.

*Lists*. What the mapper and the transformers do with a list is a function of
the index they have reached, with the step to `n` given by the value at `n - 1`.
That such a function exists and takes its steps (`Run`), and that what its steps
keep holds to the end (`Stays`), follows from every set of numbers having a
least element (`LeastIndex`): the induction over lists that the two modules
below rest on, with sets in the place of predicates. They are stated in both
modules, which have no constants in common.

*AnnotationProofs*. `Inv` has two parts. `MapInv` is about the concordances.
`MapTypeOK`: every slice is within its array. `TiedInv` and `OwnIDs`: entries
share an array only if their names are tied by UPP rows, and hold ids given to
names tied to them, which is all that can be said once an alias has rows of its
own (`Tangled`). `EntriesInv`: before that, each slice holds just what the rows
say, in their order. It is not inductive alone: an append could write into what
another entry reads. `SharingInv` says that it does not: of the entries that
share an array, one at most is a concept's, the only one that grows, and no
other is longer. The second part is about the document: `FieldsInv` describes
the fields by the annotations mapped so far, `SectionInv` the section by the
last primary classification among them, and `OrderInv` has what the steps before
the loop have done. `FieldsExact`, which does not speak of the map, follows with
`EntriesInv`: the identifiers an annotation got are those its rows give it.

*ContentProofs*. A text that was cut is described by the positions it was made
from: they increase along it, and every kept position occurs (`Kept`), so that
what stands side by side in the result had nothing kept between it. `CutKeeps`:
no kept position is the start of a match. With it each transformer has a lemma
about what it leaves nothing of (`TagsGone`, `CaptionsGone`, `EntitiesGone`,
`SpacesTrimmed`, `SpacesMerged`; for entities, nothing but what `Unescapes` says
one pass makes of those escaped twice), and as those after it only leave out
more (`Part`), what is gone stays gone, except that spaces meet or come to the
ends where an embed or a caption was: `Clean`, for each list. Nothing is assumed
of the blocks but their types, or of how a text is nested. `ContentInv` and
`StageInv` say what each stage has made of the event, and that no data source
before the one looked at counts.

*Blocks*. `BlocksAreIndependent` and `BestTextIsIndexed` compare a field with
what its blocks are meant to show, and are the only theorems that use
`ShownAssumption`: for blocks that claim anything they are false. They need more
than `Clean`, which says what is not in a field and not what is. The argument
goes block by block, from the end: in front of any text whatever, a block adds
its own words to a field and leaves those of the text as they are (`Adds`). The
steps to it:

1. Only words count. Trimming, embeds and spaces do not take any, and make no
   difference to what captions take (`HeadlineWords`, `BodyWords`).
2. Keeping is local. What is kept of two texts in a row is what is kept of each
   (`KeepAppend`), and what is kept of what is kept is found at one set of
   positions of the first text (`KeepKeep`), so that tags and captions, which
   are cut one after the other, can be told by positions of the block alone
   (`CaptionWords`).
3. A cut between two lexemes has a form without a loop (`SpansLeave`), which
   falls apart behind a text that leaves nothing open (`SpansApart`).
4. A cut between two tags does not have one. `MatchesApart` follows its loop: if
   no match starts in the block, or one takes all of it, the loop reaches the
   end of the block exactly, and goes on as it would on the rest alone.
   `InteractiveBehind`, `PullBehind` and `ScriptBehind` show that each kind of
   block is one of the two cases for each of the expressions: an opening tag
   does not begin at the end of a block (`Ends`), and the first closing tag
   stays the first whatever follows (`ClosesThere`).
5. `HeadlineAdds`, `ProseAdds` and `EnclosedAdds` take the blocks through the
   two lists, `ListAdds` goes along a list of them, and what is in front of the
   first lone `&lt;` is such a list, with any text behind it (`FrontOfText`):
   hence the prefix in `BlocksIndependent`.

A lone `&lt;` cannot be a block of its own right here, as what it costs depends
on what follows; `BlocksIndependent` says how much that is at most.

Model-checked only: liveness (`TopicConsumed`, `TopicCommitted`, `EndsWhenTold`,
`RequestsAnswered`), which is outside the prover's reach. Every other property
of a passing run is stated by a theorem.

## 6. Not modelled

* Fields that are copied as they are, and the formats of dates: no state, no
  order, well served by table tests.
* Signing of requests, JSON decoding, viper, the HTTP and Kafka libraries: code
  outside the repository, present in the models by what can come of it.
* The Rego policy: not part of the repository.
* Kafka, Elasticsearch, the policy agent and the Concordances API are
  environment: any answer, at any time, or none, as far as the code allows for
  it. In `ConsumerGroup` a rebalance is atomic: the client's own protocol, in
  which a partition has no owner for a while, is a library's.
* `Health` takes schema checks that do not overlap on `referenceIndex`, and
  `SchemaHealth` only those.

## 7. Plan

1. *Done*: routing, handler, ordered index, the two races, concordances,
   annotations; the handler's invariants and its refinement, and the properties
   of the two races, proved.
2. *Done*: the consumer group and its refinement, the process, the health
   endpoints, texts and content fields; the invariants of the group, of the
   process and of the health endpoints, and the group's refinement, proved.
3. *Done*: the routing properties for identifiers of any number, the annotation
   fields and the concordances, and the content fields, proved.
4. *Done*: the words of texts made of blocks of a stated grammar, proved for
   lists of any length.
