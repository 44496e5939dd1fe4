# imgx in TLA+

imgx is an image proxy: a request `/image/<options>/<path>` is parsed, looked
up in a cache, fetched from an origin on a miss, transformed by libvips on a
blocking thread, cached and answered. This directory models its control flow,
model-checks it with TLC and proves the core of it with TLAPS. Paths below are
relative to `crates/imgx/src/` unless they say otherwise.

## 1. The system

| Part | State it keeps | Operations | Interacts with |
|---|---|---|---|
| L1 `cache/memory.rs` | an LRU map and a running byte total, behind one `RwLock` | get, put, delete, clear, size | called by the handlers and by the tiered cache |
| L2 `cache/r2.rs`, `s3/client.rs` | the variants bucket, shared by all instances, surviving them | get, put, delete (clear does nothing) | presigned HTTP calls to R2, any of which may fail or never end |
| Tiers `cache/tiered.rs` | none of its own; one detached task per L2 write | get with promotion, put, delete, clear | awaits L2, writes L1 synchronously |
| No-op `cache/noop.rs` | none | every get misses | chosen when caching is off |
| Handler `server.rs` | per request: the parsed options, source bytes, overlays, a permit | one async function from route to response | cache, origins, blocking pool |
| Limiters `server.rs` | a concurrency limit with load shedding, a libvips semaphore | try-acquire, released on drop | the handler's future, the blocking task |
| Shutdown `main.rs` | - | signal, drain, `vips_shutdown` | axum waits for every open connection |
| Origins `origin/fetcher.rs`, `origin/r2.rs`, `origin/remote.rs` | HTTP clients | fetch | time out, stream with a size cap (not R2), check every redirect hop (remote) |
| Negotiation `transform/negotiate.rs` | none (pure) | Accept header and options to a format and a key segment | handler (key) and pipeline (format) |
| Options `transform/params.rs` | none (pure) | parse, validate, cache key, client hints | handler, pipeline |
| Pipeline `transform/pipeline.rs` | one image per call | geometry, effects, animation, encode | libvips through `imgx-vips` |
| Router, configuration, responses | none (pure) | resolve, load and validate, headers | handler |
| `imgx-vips` | reference-counted C images and the buffers they borrow | wrappers | libvips |
| `imgx-edge` | none | forward a request | - |

What is hard in it, and what makes each part correct:

* **L1**: the byte total is maintained by hand in four places. Correct when the
  total is the truth in every state, never exceeds the limit, eviction takes the
  least recently used entry and no more than needed, and no get answers with a
  superseded entry, oversized puts included.
* **Tiers**: every R2 call is an await at which other requests, uploads,
  disconnects and crashes happen; uploads of a key finish in any order, and what
  R2 was sent it may carry out after the sender is gone. Correct
  when an answer was put under the key asked for, error documents never become
  durable, nothing older comes back to an object once its writes are over, a key
  that is gone from everywhere stays gone, and a put that met no get under way is
  not undone.
* **Handler**: three kinds of failure (fetch, transform error, panic), a client
  that can leave at any await, and a blocking task that survives its handler.
  Correct when slots and permits are conserved, only complete renders are
  cached, fallback bytes appear only where they may, gates precede the network,
  every request ends and a drain waits for nothing but clients.
* **Negotiation, options and keys**: one client's answer is another client's hit,
  and what a text says goes straight into libvips. Correct when a cache never
  changes what a client gets, only finite numbers in range reach a render, and
  neither the order of options nor a path's segments make a difference they must
  not make.
* **Origins**: names resolve anew for each hop, servers redirect, lie about a
  length and stop half way. Correct when a remote fetch reaches public addresses
  only, an image is the whole of what was sent, within the limit, and every fetch
  ends. The settings these limits come from have two names each and may be unset,
  malformed or no text at all.
* **Pipeline**: thirteen stages hand on one lazy image with metadata that each may
  leave stale, and the resize decodes the source once more. Correct when budgets
  come before decoding, frames stay whole, no edit is lost to the second decode,
  sizes fit the box on both decode paths and the format is the one in the key.

`PROJECT.json` lists the hazards at their lines, with the properties that watch
them.

## 2. The modules

```
LossyStore    <--refines--  MemoryCache  <-- MCMemoryCache, MemoryCacheProofs
   | (the L1 behaviour TieredCache assumes)
CacheContract <--refines--  TieredCache --EXTENDS--> R2Cache
   |                            ^-- MCTieredCache, TieredCacheProofs
   | (INSTANCEd by)
Server        <-- MCServer, ServerProofs

Params <- Negotiate <--+-- VariantCache --EXTENDS--> Router
                       |       ^-- MCVariantCache, VariantCacheProofs -> ParamsProofs
                       +-- Pipeline --EXTENDS--> Resize -> VipsImage, ThumbHash
                               ^-- MCPipeline, PipelineProofs -> ImageProofs -> ParamsProofs
Config, Address <--EXTENDS-- Fetch  <-- MCFetch, FetchProofs
```

**LossyStore, CacheContract** are the two abstract specifications. A
LossyStore may forget anything but never answers with an entry that a later put,
delete or clear superseded. CacheContract is what remains of that over two tiers
and several machines: an answer was put under that key at some time.

**MemoryCache** cuts `put` at each step of its eviction loop; `writer` is the
write lock together with the put's local variables, so no other call can run
between the steps, while the invariants are stated of the states inside a put
too. `map` is the `LruCache` as a sequence, least recently used first. An entry
is a model value with a `Size`. `usedSince` is a history variable: for a key, the
keys used after its own last use.

**R2Cache** holds the bucket, what one S3 call may answer or do, and the mapping
of keys to object keys (`sanitize_key`): a write may be lost, a DELETE that worked
may be reported as failed, and (`OtherStatus`) a status that is none of 2xx, 403,
404, 5xx is taken for an object. `late` are the writes that R2 has and nobody waits
for: of a connection that failed, of a caller that was dropped, of an instance that
crashed. R2 carries each out at any later time, or drops it (`LateWrite`).

**TieredCache** has one step per stretch of code between two awaits of R2:
`GetL1`, `GetL2`, `Promote`, `Put`, `Upload`, `DeleteL1`, `DeleteL2`, `Clear`,
and around them `EvictL1`, `Disconnect` (the handler's future is dropped),
`Restart` (L1, calls and spawned writes are lost, the bucket is not, nor is any part of
the writes that R2 has been sent by then), and `R2CatchesUp` for those. GetL2 and
Promote are separate because the entry travels back while others run. Entries
are numbered in the order of their puts. `offered`, `promised` and `candidates` are
history variables; the last one holds, for an object, what it held when no write of it
was under way last, and whatever was sent to it since.

**Server** is the whole request handler, with the configuration it was started
with as a variable that never changes. `pc[r]` is the await (or stretch of
code) where request r stands, or what its client does before and after: it connects,
sends the request, reads the answer, hangs up (`Connect`, `Arrive`, `HangUp`); what it
asks for is a record `Kind` with one field
per thing the handler branches on. `slots` and `permits` are the two limiters,
`transform[r]` the blocking task, which goes on when its handler is dropped. The
cache is an INSTANCE of CacheContract: the handler is right with any backend.
`tries` is a history variable.

**Params** goes from the pairs of an options segment to the cache key: the parser
of each field, the aliases and words, the overlays addressed by index, every
bound of `validate()`, the pixel ratio, the client hints and the decimals that the
key keeps. An f32 is an integer in thousandths or `NonFinite`, and the text of a
value is the record of what each parser makes of it. **Negotiate** holds the
decisions about formats, **Router** the resolution of a path and its
sanitizing. **VariantCache** puts clients that share a cache on top of them, to
ask whether the key tells apart what the renders tell apart, and whether what
passes the checks is safe to hand on.

**Config** is the table of settings with their defaults, widths and legacy names,
`load_from_env` and `validate()`. **Address** holds the address rules of
`origin/remote.rs` over octets and 16-bit segments. **Fetch** starts a process in
an environment (`Load`, `Validate`) and runs its fetches one after the other, from
the gate over resolution, connection, redirects and the declared length to each
chunk of the body and the deadline. reqwest is external: what `src/` relies on is
written at the head of the module.

**VipsImage** says what each wrapper of `imgx-vips` that the pipeline calls does to
the size, bands, pages, orientation and frames of an image, and when it fails; the
`frames` of an image are the frames of the source that it shows, which is how a
frame that was cut or lost becomes visible. **Resize** is the geometry of the
resize stage for stills and animations and the choice of the second decode,
**ThumbHash** the sizes and checks of a hash. **Pipeline** has one action for each
stage of `transform()`, and `DrawOverlays` for what the server does with its result.

The mutants (operators commented `Mutant of ...`, each before the definition it
would replace) are plausible bugs of the code; none of them is part of a
specification.

## 3. What TLC checks

| Run | Instance | Shows |
|---|---|---|
| `MCMemoryCache.cfg` | 3 keys, entries of 1, 2, 3 and 4 bytes, limit 3 | accounts, limit, recency, minimal eviction, refinement of LossyStore |
| `TieredCache.cfg` | 1 instance, 2 interchangeable callers, 3 keys, one of them without an object, 2 puts | `KeepsWhatItPromised`, `GoneStaysGone`, refinement of CacheContract |
| `TieredShared.cfg` | 2 interchangeable instances, 1 caller, 2 keys that share their object, 2 puts, error documents | `BucketHoldsOnlyPuts`, `WritesSettle` |
| `Server.cfg` | 3 interchangeable requests, 2 slots, 1 permit, 3 kinds | permits and slots conserved, only complete renders cached |
| `ServerLive.cfg` | 2 requests of 14 kinds, 1 slot, 4 configurations (HTTP and R2, gates open and closed, both failure modes) | fallback rules, gates before the network, every request ends, and the drain if every client finishes |
| `VariantCache.cfg` | circles of clients over 4 sources and a few odd paths, options in pairs of every form, every Accept header over the entries that matter, hints, 1 variant | answers as if uncached, acceptable, animated when possible, safe numbers only, order irrelevant, no segment of a variant's path climbs |
| `Fetch.cfg` | 84 environments, HTTP, R2 and remote sources, 4 URLs to be redirected to, names that resolve to one thing and then another, the corners of every reserved network, bodies to 5 bytes in chunks of 1 and 2, limits of 2 and 3 | settings take effect or the process exits, public hosts only, whole bodies within the limit, rejections named, every fetch ends |
| `Pipeline.cfg` | 7322 calls: stills and animations of all loaders, orientations and bands, grey ones and ones that cannot be read included, 8 fits, 5 boxes, edits, trims, frames, hashes, overlays; 10000 pixels, 3 frames, 14000 animated pixels | `WithinBudget`, `FramesIntact`, `NoEditLost`, `ReducedKeepsSize`, `HashIsWhole`, `FailsOnlyForCause`, `SizeAsAsked`, `AsNegotiated` |

The other four runs end in a counterexample each, see section 4.

The bounds. *Memory cache*: three keys are the fewest with a pair in front of,
at and behind the position of an operation; sizes 1 to 4 against a limit of 3
give an eviction of none, one, several and all entries, an entry of exactly the
limit and an oversized one. *Tiers*: two puts suffice for every property that
relates an older to a newer entry; two callers for a promotion against a delete
or a put (`MaxPut` is the only counter; late writes are a set, so a lost DELETE stands
for any number of them). With two instances one caller is enough,
because the instances meet only in the bucket and spawned uploads are no callers.
Callers and instances are symmetric: no action or property tells one from another, and
the properties of these runs are safety properties.
*Server*: contention needs one request more than slots and two more than permits,
so an abandoned transform meets a new one; gates and fallbacks concern one
request at a time, and the second one provides the cache content. *Variants*: a
wrong hit needs one cached variant and one more client, and the circles hold every
pair of requests that differ in one thing; a bound of `validate()` is tried at, below
and above its value. Requests of `Server.cfg` are symmetric: its properties are state
predicates in which requests occur only bound, and no choice depends on their
identity. *Fetch*: a body of 5 bytes in chunks of 1 and 2 falls short of, meets and
exceeds the limits, on a chunk's edge and inside one; fetches share nothing, so one
at a time is enough, and any number follow each other; four redirect targets reach
the limit of redirects with every verdict of the policy at every hop. *Pipeline*:
every source is paired with every fit into boxes that are smaller, larger, one-sided
and of another shape; the sizes have remainders and one-pixel sides, page counts lie
on both sides of `max_frames` and products on both sides of the two budgets. Options
that touch different stages are paired, not multiplied out.

Deadlock is checked wherever the system goes on for ever. The server does not:
each request is answered once and the process stops, so its runs switch that check
off, and `ServerLive.cfg` shows instead that nothing is left waiting. A pipeline
ends with its result, and a process whose settings are refused exits; their
runs switch it off too.

**Fairness.** `Server!FairSpec`: weak fairness of a handler's steps, because tokio
polls every future that is ready; of `TransformEnds`: libvips calls come to an end
and blocking tasks are run; of `Stop`: `serve()` returns once every connection is
closed, which is what axum's graceful shutdown waits for. A client may hold its
connection for ever, by not sending the rest of its request or not reading its answer,
and main.rs:48-53 bounds neither; the drain half of `NothingWaitsForever` is therefore
conditional on `ClientsFinish`, and says that no handler, transform or limiter adds to
that wait. A handler that waits for an HTTP origin or a remote URL is fair because both clients
are built with a timeout. One that waits for R2 is not (`AwaitsR2`): the S3
client has none. `Connect`, `HangUp`, disconnects and the signal are never fair.
`Fetch!Spec`: weak fairness of the start of the process, which is straight-line code,
and of `TimesOut`, since the deadline of a reqwest client spans the whole request,
body included. Nothing is assumed of servers: they may answer, stall, or send a
byte now and then for ever.

## 4. Where the code and its documents part

Each of these runs checks one property that a document, comment or test states
and ends in a counterexample.

| Run | The code | The statement |
|---|---|---|
| `TieredS3Error.cfg` | a 400 or 429 document is a cache hit | r2.rs:1-3, "get returns None" |
| `ServerR2Hang.cfg` | R2 calls have no timeout | configuration.mdx:20 |
| `VariantDpr.cfg` | the key rounds dpr, the render does not | transforms.mdx:46, params.rs:1272 |
| `PipelineCover.cfg` | animated frames that cover the box one row too high are not cut, and the page height no longer divides the stack | INVARIANTS.md:20 |

Met while reading and modelling, without a run of their own. *Caches*:

* an oversized put empties the cache before it is given up, against
  configuration.mdx:57, "served but not cached"; an L2 object larger than L1 does
  so on each of its promotions;
* the bytes of keys are not counted, against memory.rs:31;
* a get under way can promote an entry between the two halves of a delete, so
  that architecture.mdx:82, "Delete from both L1 and L2", holds of the moment
  of each half only (`GoneStaysGone` states what does hold);
* two writes of one key that are under way at the same time reach R2 in any order, so
  the older may be the one that stays, and a put that R2 rejects leaves the older object
  without a word (r2.rs:70); no document promises more, and `WritesSettle` states what
  holds;
* `a//b` and `a/b` share an L2 object, because router.rs:130 rejects only a
  leading `//`, and the comment at router.rs:119-121 speaks of embedded ones.

*Keys and negotiation*:

* the text of a `format=json` answer names a format that depends on the Accept
  header, which is not in its key (pipeline.rs:570-576);
* a fraction of `trim.*` is in the key with one decimal, and -0.0 and 0.0 make two
  keys of one value (INV-1);
* `image/webp;q=0, */*` negotiates WebP (negotiate.rs:18-36, 39-41);
* answers depend on client hints while `Vary` names Accept only (server.rs:685);
* `parse_hex_color` accepts `+5`, as `u8::from_str_radix` does.

*Origins and settings*:

* S3 sources have no size limit, against architecture.mdx:183 and INV-12;
* a timeout in the middle of a body is answered with 502, not 504
  (fetcher.rs:107, remote.rs:196, architecture.mdx:181);
* two redirects are followed, not three: `previous()` counts the first URL
  (remote.rs:96);
* the body of a 4xx other than 404, or of a redirect that is not followed, is taken
  for an image at the origin;
* a remote 304, or a 302 without a Location, is answered with 403 as a barred scheme,
  against remote.rs:157-163, "a redirect target could not be safely followed": there was
  none (`RejectionsNamed` names it);
* `origin.max_retries`, `server.request_timeout_ms`, `default_quality` and
  `strip_metadata` are loaded and never read, against configuration.mdx:11 and 21;
* a variable that is no Unicode keeps the default and hides its legacy name, while
  config.rs:208 says that invalid values are errors; `max_pixels=0` is accepted;
* a gate answers 403, which INV-9 does not list.

*Pipeline*, where the properties of `Pipeline` name the exception they make:

* an animation with a height only is sized by the proportions of the stack, so that
  its frames shrink to a part of that height (pipeline.rs:306-316);
* `rotate`, `flip=v`, `fit=crop`, `fit=aspect-crop` and a one-sided cover act on the
  stack of an animation as on one image, and so does the orientation of the source, which
  a resize applies; turned by 90 or 270 degrees and covered, it fails (`ActsOnStack`,
  `CutsTurnedStack`);
* `frame=` loads all pages, whatever `max_frames` and `max_animated_pixels` are
  (pipeline.rs:213), and the frame keeps the page height of its stack
  (`MayLookPaged`): turned on its side, trimmed or resized to a multiple of it, it is
  thumbnailed as pages and may leave its box, its raster may be larger than the 100 by 100 of INVARIANTS.md:130, and the hash
  ends in a 500 (`LooksPaged`);
* the ground of `fit=pad` and of a border has three samples for a source of grey with
  alpha, which has two bands, and libvips refuses it (image.rs:686 of `imgx-vips`),
  against the comment at image.rs:669-671, "Automatically extends to RGBA when the source
  has alpha";
* a left or top trim as wide or as high as the image fails instead of leaving one pixel
  (`TrimsTooMuch`, pipeline.rs:257-263);
* what is stacked as the pages of one image has to be of pages of one size and whole
  headers, and overlays and sources must have a loader at all (`stackable`, `readable`):
  each is a cause only at the stages that decode it (`CauseAt`);
* the rows of a frame times the pages are computed in an i32 (pipeline.rs:361): for frames
  that are very much narrower or lower than the box the product wraps round, or is no
  height for libvips (`StackTooLong`); an overlay's box may be too wide in the same way
  (`OverlayTooWide`);
* the limit `max_frames` is cast to an i32 (pipeline.rs:172): from 2^31 on it is negative,
  and 2^32 - 1 stands for all pages. `FramesAssumption`
  leaves such settings out of the model;
* a border can exceed what an encoder takes (`TooLarge`), against the comment at
  params.rs:687-691;
* one-sided `fill` and `cover` give a square box; `saturation` drops the alpha band;
  `metadata=strip` without a resize drops the orientation before it was applied;
* more than 256 frames are cut per frame into a stack of 256 while the result says
  how many were asked for (`JoinsTooMany`).

## 5. What is proved

Everything here is proved for all values of the constants, under the named
assumptions of the modules, which TLC evaluates on every run.

| Module | Theorems | Further hypotheses |
|---|---|---|
| `MemoryCacheProofs` | all six properties of the memory-cache run, the refinement included | - |
| `TieredCacheProofs` | `TypeOK`, `BucketHoldsOnlyPuts`, `WritesSettle`, `KeepsWhatItPromised`, `GoneStaysGone`, `ImplementsContract` | `OwnObjects` for the last two, no `OtherStatus` for the last |
| `ServerProofs` | `TypeOK`, `LimitsConserved`, `OnlyRendersCached`, `RawOnlyAsFallback`, `NoGatedFetch` | - |
| `ParamsProofs` | `ParseTyped` and `SwapParses`, of every sequence of pairs | - |
| `VariantCacheProofs` | all seven properties of its run | `KeyIsExact` for `AnswersAsIfUncached` |
| `FetchProofs` | `TypeOK`, `ServesAsConfigured`, `OnlyPublicHosts`, `WholeBody`, `RejectionsNamed`; `RoutableIsPublic`, of all IPv4 and IPv6 addresses | - |
| `ImageProofs` | lemmas: what each libvips wrapper, the resize and a hash make of any image | - |
| `PipelineProofs` | `TypeOK`, `WithinBudget`, `FramesIntact`, `NoEditLost`, `AsNegotiated`, `HashIsWhole`, `FailsOnlyForCause`, `SizeAsAsked`, `ReducedKeepsSize` | - |

The assumptions on constants say what the values are, not what the program does:
that `None` and the like are none of the values that they stand beside
(`NumberAssumption`, `WordAssumption`, `ErrorAssumption`, `FormatAssumption`, and
`SizeAssumption` of `Resize`), that
limits and sizes are positive, that addresses are addresses (`AddressAssumption`),
that a call of the pipeline has a source of positive size, parameters of their
types that passed `validate()`, and a source for each overlay (`JobAssumption`), and that
`max_frames` fits an i32 (`FramesAssumption`).

**Memory cache.** `BytesAccounted` alone is not inductive. A put has removed the
old entry before it inserts the new one, and the insertion is right only if no pair
of that key appeared in between, hence `KeysDistinct`; that a removal does not
underflow follows from the total being the sum; and that the order is the order of
uses needs the keys distinct. The inductive invariant is therefore

    IInv == TypeOK /\ KeysDistinct /\ BytesAccounted /\ WithinLimit /\ OrderIsRecency

Sums over sequences would need induction over data, so the sum is stated by its
witness: `SumsTo(s, n)` says that there is a function of running totals from 0 to
n. Lemmas say what a removal and an append do to it (`SumWithout`, `SumAppend`)
and to the distinctness and order of the pairs (`SoundWithout`, `SoundAppend`).
`EvictionNecessary` adds the invariant that a put's last victim and its entry
together exceed the limit. `StoreImplemented` shows the refinement: `Held` maps the
sequence to a lookup function, and every step maps to a step of LossyStore or a
stutter.

**Tiers.** `IInv == TypeOK /\ Offers /\ BucketHoldsOnlyPuts /\ Standing /\ WritesSettle
/\ Promises`. What an upload or R2 itself will write must have been put (`Offers`), or
the next step would spoil the bucket; it must also be among the candidates of its object
(`Standing`), or a late write could bring back what was superseded when all was settled.
One lemma says of every step what it writes and what it leaves pending (`R2Step`): that
only a put or a delete makes anything pending, and nothing else is ever written, is the
core of all three. A promise is kept because no get of its key is
promoting (`Promises`). Two things the code does not give have to be assumed, and
they are the two that section 4 shows: that distinct keys have distinct objects
(`OwnObjects`), and that S3 answers with the statuses the code expects.

**Server.** `IInv` is `TypeOK`, `Controlled`, the two conservation laws of
`LimitsConserved`,
`OnlyRendersCached`, `PuttersAnswered` and `RawOnlyAsFallback`. The laws are
equations between a counter and the cardinality of a set of requests, carried
through every exit of the handler; `Controlled` says for each place in the handler
what the task and the overlays look like there. `GatesFirst` follows from what has
been tried at each place.

**Variants.** Every variant is the render of a request that was served under its
key, and so is the last answer: that invariant needs no hypothesis, and what holds
of every render that shares a key holds of every answer. `AnswersNamed` and
`AnimationsStay` then need that the format segment determines the supported formats
(`SegmentAgrees`, `OneKey`), `ValuesSafe` that options which pass `validate()` are in
its bounds after the slow-connection override as well (`ServedOptions`,
`SafeOptions`), and that no side trim was ever read as nan: a comparison with nan would
let it pass `validate()`, so that rests on the parser (`ParseTyped`). `CacheIsTransparent` says
more, that the answer is that of the request itself, under `KeyIsExact`: numbers have
only the decimals that the key keeps, and no request asks for `format=json`. Those are
the two places where the key says less than the render uses (section 4).

**Fetch.** `IInv` adds to the properties that the settings are those of the
environment (`Configured`), that the buffer never exceeds the limit by more than one
chunk (`Bounded`), that the URL a remote fetch stands at was let through and its
redirects were counted (`Checked`), and that nothing was barred so far
(`Explained`). `OnlyPublicHosts` rests on `RoutableIsPublic`: what the code tests octet
by octet covers the networks that INV-14 names, as ranges of addresses, for all of
them, mapped IPv4 addresses included.

**Options and order.** `parse` is a recursive function over the pairs, and the library's
induction takes an operator, which the provers cannot instantiate. Both are met
without it: induction is stated as a property of a set of numbers (`Induction`, from
the least number outside the set), and that the recursive function exists, so that it
may be unfolded, is shown by extending it one step at a time (`ParsedSteps`). What a
pair does is then a lemma (`PairParsed`: it fails by itself, or sets one field or one
option of one overlay), that two of them commute is another (`PairsCommute`, with holes
in the list of overlays filled on the way), and `SwapParses` carries it to the end of
the segment. `AnyOrder` is that, for each request. `UnderTheRoot` rests on
what the resolution leaves of a path that was let through (`Resolved`): the options
and the prefix are cut off in front of it, and no segment that climbs is among what is
left.

**Pipeline.** `IInv` says what `current` and `plan` hold at each of the early stages;
all later stages leave the call and the plan alone (`LateMoves`), and the decoder is told
the smaller of the page count and `max_frames`, or all pages where that is no more:
that is `BudgetFirst`. The others need to know what each stage finds, so `Held` says it:

    Held == Planned /\ Images /\ Answered

The plan is made of what the probe saw and of nothing later (`Planned`); every image is
a picture of positive size, shows the frame (`FrameAt`), the edits (`EditsAt`) and the
alpha band (`AlphaAt`) that are due at its stage, and is of a second decode only after the
resize and only if nothing was done before (`Images`); an answer has the format that the
cache computes (`Answered`). None of `NoEditLost`, `AsNegotiated` and `HashIsWhole` is
inductive: each is said of the last stage only and is made true by the first ones, and
the positive sizes are what makes every crop, division and encoder succeed or fail as it
should. `ImageProofs` says of each wrapper which of these it keeps (`CropKeeps`,
`ThumbnailKeeps`, `ResizedFits`, ...), with the roundings bounded by lemmas about
quotients, and counts the characters of a hash (`HashLength`): the number of its
coefficients depends on the size of a raster of at most 100 by 100.

`FramesIntact` and `FailsOnlyForCause` rest on what the stages agree about, `Shaped`: up
to the resize an animation is a column of all its frames, each as high as the source
(`Column`), and after it one of frames of some one height (`Framed`), unless the options
act on the stack; the data of a response is a picture of the size that it tells
(`Filed`), which the overlays decode once more; and an error has a cause that its own stage
can have (`Cause`). The
work is in the resize: that a column shrinks page by page (`ThumbnailPages`), that the two
ceilings which scale frames to a box leave them no smaller than it whatever libvips rounds
(`CoverShrink`), that each crop then lies within one frame (`PageCut`) and that joining
the cuts gives the frames in their order (`CropsWhole`, `SinglesFlat`). That a hash is
refused only for a frame that looks like pages follows from a thumbnail that only shrinks
and fits its box (`RasterFits`).

`SizeAsAsked` and `ReducedKeepsSize` relate the two decodes of the resize and rest on
`Measured`. Before the resize a still has no more pixels than its source, a frame that
was neither turned on its side nor trimmed is one page, not several (`Level`), and
wherever the source may be decoded again the image is still that of the source
(`Untouched`); after the resize it is within its box, before the padding at the latest
of exactly its size, and no larger than the source under a fit that only shrinks
(`AsAsked`), until a border is added. The lemmas say which side of the box a rounded
quotient can meet, for every fit (`Level` to `StillResized`, at the end of
`ImageProofs`). As the image at hand is that of the source wherever it is decoded
again, both decodes are of one picture and have the same choice of sizes. Looking for
the exact exception of `SizeAsAsked` showed that a frame of an animation with an
orientation tag is one too: a resize turns it before it looks at the page height.

Left to TLC: liveness only (`NothingWaitsForever`, `EveryFetchEnds`), which is out of
the prover's reach.

## 6. Not modelled

* Pixel values, colours, encoder settings and the coefficients of a ThumbHash:
  floating point without state, order or branches that the properties see.
* Reference counts and the buffers that libvips images borrow: a matter of Rust's
  types and of C code that is not here. For the same reason nothing is said of a
  libvips call that is still running during `vips_shutdown` (main.rs:53); Server
  shows that it is accounted for until then.
* Settings of `max_frames` from 2^31 on (section 4).
* Header texts, the hash of the ETag, logs and metrics, which nothing reads back.
* `imgx-edge`: stateless, it rewrites a URL and forwards the request.
* Presigning, the sniffing of content types, and `head_object`, which has no caller.
* The texts themselves: an Accept header is the set of its entries, an option its
  words and numbers, a path its segments.
* The allocator, tokio, axum, reqwest and libvips are external: what the code relies
  on is their fairness, that a dropped future releases what it owns, that a deadline
  spans a request, and what each libvips operation does to sizes and pages.

## 7. What is left

* `System`: Server over TieredCache instead of its contract, with two instances. The
  contract is proved of the tiers, so this would add nothing but the liveness of
  a server whose lookups wait for R2, which section 4 refutes.
* A single flight for concurrent misses of one key and retries of the origin, if the
  code gets them: neither exists today.
