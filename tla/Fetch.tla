-------------------------------- MODULE Fetch --------------------------------
(***************************************************************************)
(* The process from its environment to its fetches: main.rs loads and      *)
(* validates the settings, AppState::new gives them to the fetchers, and   *)
(* a fetch goes through resolver, connection, redirects and the stream of  *)
(* the body (origin/fetcher.rs, origin/remote.rs, origin/r2.rs).           *)
(*                                                                         *)
(* reqwest and hyper are not under src/: a client follows redirects as its *)
(* policy says, resolves a name once per connection and connects to one of *)
(* the addresses that its resolver returned, hands out exactly the bytes   *)
(* of a declared length or an error, and gives up on a deadline that spans *)
(* the whole request.  Fetches share no state; the model runs one at a     *)
(* time, any number in a row.                                              *)
(***************************************************************************)
EXTENDS Config, Address, FiniteSets

CONSTANTS
  Environment,  \* the environments a process may be started in
  Source,       \* URLs that clients name; Malformed is a text that is none
  Location,     \* URLs that servers redirect to
  Literal,      \* the address of each host that is an IP literal
  Resolutions,  \* for each other host, the sets of addresses it may resolve to
  Path,         \* image paths, as sequences of segments
  Dotted,       \* segments with two dots in a row, ".." among them
  Chunk,        \* sizes of the chunks a body arrives in
  MaxBody       \* no server sends more than this

\* The hosts there are, by literal or by name.
Hosts == DOMAIN Literal \union DOMAIN Resolutions

ASSUME ChunkAssumption == Chunk \subseteq Nat \ {0} /\ Chunk # {} /\ MaxBody \in Nat
ASSUME AddressAssumption ==
  /\ \A host \in DOMAIN Literal : Literal[host] \in IPv4 \union IPv6
  /\ \A host \in DOMAIN Resolutions : Resolutions[host] \subseteq SUBSET (IPv4 \union IPv6)
  /\ \A url \in (Source \ {Malformed}) \union Location : url.host \in Hosts
ASSUME EnvironmentAssumption ==
  /\ Defaults.ORIGIN_BASE_URL.host \in Hosts
  /\ \A env \in Environment, name \in {"primary", "legacy"} :
       /\ env.SERVER_MAX_REQUEST_SIZE[name] \in Nat \union {Unset, NotUnicode, Malformed}
       /\ env.ORIGIN_BASE_URL[name] \notin {Unset, NotUnicode, Malformed}
            => env.ORIGIN_BASE_URL[name].host \in Hosts

VARIABLES
  environment,
  config,       \* the defaults, then what load_from_env returned
  stage,        \* how far main has come
  fetch         \* the fetch that runs, or the last one

vars == <<environment, config, stage, fetch>>

None == "none"
MAX_REDIRECTS == 3
DefaultRedirects == 10

\* The client, the URL it is at, how many it visited before, where it stands, what
\* the server declared and sent. contacted, barred and sent_all are history.
Idle ==
  [client |-> None, url |-> Unset, previous |-> 0, state |-> "idle", declared |-> Unset,
   received |-> 0, result |-> None, contacted |-> {}, barred |-> None, sent_all |-> FALSE]

Init ==
  /\ environment \in Environment
  /\ config = Defaults /\ stage = "starting" /\ fetch = Idle

InFlight == fetch.state \in {"connecting", "waiting", "streaming"}
Guarded == fetch.client = "remote"
max_size == config.SERVER_MAX_REQUEST_SIZE
-----------------------------------------------------------------------------
Load ==
  /\ stage = "starting"
  /\ IF Loads(environment)
     THEN config' = load_from_env(environment) /\ stage' = "loaded"
     ELSE stage' = "exited" /\ UNCHANGED config
  /\ UNCHANGED <<environment, fetch>>

\* validate, then libvips and the listener, both of which end the process if they fail.
Validate ==
  /\ stage = "loaded"
  /\ stage' \in (IF validate(config) THEN {"serving", "exited"} ELSE {"exited"})
  /\ UNCHANGED <<environment, config, fetch>>
-----------------------------------------------------------------------------
Ends(result) == fetch' = [fetch EXCEPT !.state = "done", !.result = result]
EndsBarred(result, why) ==
  fetch' = [fetch EXCEPT !.state = "done", !.result = result, !.barred = why]

\* A send error: whether it is the deadline's, whether it is a redirect's, and what
\* its chain says.
Failure(timeout, redirect, says) == [timeout |-> timeout, redirect |-> redirect, says |-> says]

\* Mutant of classify_send_error: redirects are looked at first.
RedirectsFirst(e) ==
  CASE e.timeout -> "Timeout"
    [] ~e.timeout /\ e.redirect /\ e.says = "too many redirects" -> "TooManyRedirects"
    [] ~e.timeout /\ e.redirect /\ e.says # "too many redirects" -> "UnsupportedScheme"
    [] ~e.timeout /\ ~e.redirect /\ e.says = "not globally routable" -> "PrivateAddress"
    [] OTHER -> "ConnectionFailed"

classify_send_error(e) ==
  CASE e.timeout -> "Timeout"
    [] ~e.timeout /\ e.says = "not globally routable" -> "PrivateAddress"
    [] ~e.timeout /\ e.redirect /\ e.says = "too many redirects" -> "TooManyRedirects"
    [] ~e.timeout /\ e.redirect /\ e.says = "redirect to unsupported scheme" -> "UnsupportedScheme"
    [] OTHER -> "ConnectionFailed"

\* The configured origin knows deadlines from other failures only.
SendError(e) == IF Guarded THEN classify_send_error(e)
                ELSE IF e.timeout THEN "Timeout" ELSE "ConnectionFailed"

IsLiteral(url) == url.host \in DOMAIN Literal
literal_ip_host_is_private(url) == IsLiteral(url) /\ ~is_globally_routable(Literal[url.host])
-----------------------------------------------------------------------------
\* strip_path_prefix: the prefix goes if something follows it.
strip_path_prefix(prefix, path) ==
  IF prefix # <<>> /\ Len(path) > Len(prefix) /\ SubSeq(path, 1, Len(prefix)) = prefix
  THEN SubSeq(path, Len(prefix) + 1, Len(path)) ELSE path

\* OriginSource::build_url refuses an empty path and one with two dots in a row.
Builds(path) == path # <<"">> /\ \A i \in DOMAIN path : path[i] \notin Dotted
build_url(path) ==
  [scheme |-> config.ORIGIN_BASE_URL.scheme, host |-> config.ORIGIN_BASE_URL.host,
   path |-> IF Head(path) = "" THEN Tail(path) ELSE path]

Start(client, url) == fetch' = [Idle EXCEPT !.client = client, !.url = url, !.state = "connecting"]
Refuse(client, result, why) ==
  fetch' = [Idle EXCEPT !.client = client, !.state = "done", !.result = result, !.barred = why]

FetchOrigin ==
  /\ stage = "serving" /\ ~InFlight
  /\ config.ORIGIN_TYPE = "http"
  /\ \E image_path \in Path :
       LET path == strip_path_prefix(config.ORIGIN_PATH_PREFIX, image_path)
       IN IF Builds(path) THEN Start("origin", build_url(path))
          ELSE Refuse("origin", "InvalidUrl", None)
  /\ UNCHANGED <<environment, config, stage>>

\* R2Fetcher::fetch and what S3Client::get_object makes of the answer; how long that
\* may take, and its size, is Server's.
FetchObject ==
  /\ stage = "serving" /\ ~InFlight
  /\ config.ORIGIN_TYPE = "r2"
  /\ \E image_path \in Path :
       LET path == strip_path_prefix(config.ORIGIN_PATH_PREFIX, image_path)
           key == IF Head(path) = "" THEN Tail(path) ELSE path
       IN IF path = <<"">> THEN Refuse("bucket", "InvalidUrl", None)
          ELSE \E result \in {"Ok", "NotFound", "ServerError", "ConnectionFailed"} :
                 fetch' = [Idle EXCEPT !.client = "bucket", !.url = [path |-> key],
                                       !.state = "done", !.result = result, !.sent_all = TRUE]
  /\ UNCHANGED <<environment, config, stage>>

\* RemoteFetcher::fetch, for a source or an overlay, once the handler's gate let it by.
FetchRemote ==
  /\ stage = "serving" /\ ~InFlight
  /\ config.ALLOW_REMOTE_SOURCES \/ config.ALLOW_DRAW_OVERLAYS
  /\ \E url \in Source :
       IF url = Malformed THEN Refuse("remote", "InvalidUrl", None)
       ELSE IF ~has_http_scheme(url) THEN Refuse("remote", "UnsupportedScheme", "scheme")
       ELSE IF literal_ip_host_is_private(url) THEN Refuse("remote", "PrivateAddress", "address")
       ELSE Start("remote", url)
  /\ UNCHANGED <<environment, config, stage>>
-----------------------------------------------------------------------------
Reach(address) ==
  fetch' = [fetch EXCEPT !.state = "waiting", !.contacted = @ \union {address}]

\* Mutant of resolve: one address that may be reached lets all of them through.
AnySafe(addresses) ==
  IF \E a \in addresses : is_globally_routable(a) THEN addresses ELSE {}

\* SafeResolver: of what the name resolved to, the addresses that may be reached.
resolve(addresses) == {a \in addresses : is_globally_routable(a)}

\* Hyper resolves a name, but not a literal; each hop does so anew.
Connect ==
  /\ fetch.state = "connecting"
  /\ \/ Ends(SendError(Failure(FALSE, FALSE, "refused")))
     \/ IsLiteral(fetch.url) /\ Reach(Literal[fetch.url.host])
     \/ ~IsLiteral(fetch.url) /\ \E addresses \in Resolutions[fetch.url.host] :
          LET usable == IF Guarded THEN resolve(addresses) ELSE addresses
          IN IF usable = {}
             THEN EndsBarred(SendError(Failure(FALSE, FALSE, "not globally routable")), "address")
             ELSE \E address \in usable : Reach(address)
  /\ UNCHANGED <<environment, config, stage>>

\* The redirect policy of build: the URLs visited so far include the first one.
Barred(url) ==
  IF fetch.previous + 1 >= MAX_REDIRECTS THEN "too many redirects"
  ELSE IF ~has_http_scheme(url) THEN "redirect to unsupported scheme"
  ELSE IF literal_ip_host_is_private(url) THEN "not globally routable"
  ELSE None

Follow(url) == fetch' = [fetch EXCEPT !.url = url, !.previous = @ + 1, !.state = "connecting"]

\* The server redirects to an http(s) URL.
Redirect ==
  /\ fetch.state = "waiting"
  /\ \E url \in Location :
       IF Guarded
       THEN IF Barred(url) = None THEN Follow(url)
            ELSE EndsBarred(SendError(Failure(FALSE, TRUE, Barred(url))), Barred(url))
       ELSE IF fetch.previous + 1 > DefaultRedirects
            THEN Ends(SendError(Failure(FALSE, TRUE, "too many redirects")))
            ELSE Follow(url)
  /\ UNCHANGED <<environment, config, stage>>

\* What the status and the declared length of an answer end the fetch with. Other
\* 4xx than 404 are taken for images.
ResponseError(status, length) ==
  IF status = 404 THEN "NotFound"
  ELSE IF status >= 500 THEN "ServerError"
  ELSE IF length # Unset /\ length > max_size THEN "ResponseTooLarge"
  ELSE None

\* Where a 3xx that is not followed points: to a URL that is no http(s) one; or nowhere,
\* like a 304 or a 302 without a Location.
BarePointer == {"scheme", "nowhere"}

\* A 3xx that cannot be followed arrives as its own answer.
Respond ==
  /\ fetch.state = "waiting"
  /\ \E status \in {200, 302, 403, 404, 500}, length \in 0..MaxBody \union {Unset} :
       LET error == ResponseError(status, length)
       IN IF Guarded /\ status \in 300..399
          THEN \E why \in BarePointer : EndsBarred("UnsupportedScheme", why)
          ELSE IF error # None THEN Ends(error)
          ELSE fetch' = [fetch EXCEPT !.state = "streaming", !.declared = length]
  /\ UNCHANGED <<environment, config, stage>>

Remaining == (IF fetch.declared = Unset THEN MaxBody ELSE fetch.declared) - fetch.received

\* Mutant of ReadChunk: the limit is left to the end.
BuffersAll ==
  /\ fetch.state = "streaming"
  /\ \E size \in Chunk :
       /\ size <= Remaining
       /\ fetch' = [fetch EXCEPT !.received = @ + size]
  /\ UNCHANGED <<environment, config, stage>>

\* The limit is looked at after the chunk is in the buffer.
ReadChunk ==
  /\ fetch.state = "streaming"
  /\ \E size \in Chunk :
       /\ size <= Remaining
       /\ LET received == fetch.received + size
          IN fetch' = IF received > max_size
                      THEN [fetch EXCEPT !.received = received, !.state = "done",
                                         !.result = "ResponseTooLarge"]
                      ELSE [fetch EXCEPT !.received = received]
  /\ UNCHANGED <<environment, config, stage>>

EndOfBody ==
  /\ fetch.state = "streaming"
  /\ fetch.declared = Unset \/ Remaining = 0
  /\ fetch' = [fetch EXCEPT !.state = "done", !.result = "Ok", !.sent_all = TRUE]
  /\ UNCHANGED <<environment, config, stage>>

\* Mutant of BodyFails: a stream that breaks off is taken for one that ended.
BreakIsEnd ==
  /\ fetch.state = "streaming"
  /\ Ends("Ok")
  /\ UNCHANGED <<environment, config, stage>>

\* The connection is lost before the end: chunk() is an error.
BodyFails ==
  /\ fetch.state = "streaming"
  /\ Ends("ConnectionFailed")
  /\ UNCHANGED <<environment, config, stage>>

\* Mutant of TimesOut: the deadline is one for the answer to begin.
HeadersOnly ==
  /\ fetch.state \in {"connecting", "waiting"}
  /\ Ends(SendError(Failure(TRUE, FALSE, None)))
  /\ UNCHANGED <<environment, config, stage>>

\* The client's deadline; in the body it reads like any other broken stream.
TimesOut ==
  /\ InFlight
  /\ Ends(IF fetch.state = "streaming" THEN "ConnectionFailed"
          ELSE SendError(Failure(TRUE, FALSE, None)))
  /\ UNCHANGED <<environment, config, stage>>
-----------------------------------------------------------------------------
Next ==
  \/ Load \/ Validate
  \/ FetchOrigin \/ FetchObject \/ FetchRemote
  \/ Connect \/ Redirect \/ Respond
  \/ ReadChunk \/ EndOfBody \/ BodyFails \/ TimesOut

\* main goes on, and the deadline of a client passes; no server need ever answer.
Spec == Init /\ [][Next]_vars /\ WF_vars(Load \/ Validate) /\ WF_vars(TimesOut)
-----------------------------------------------------------------------------
Results ==
  {None, "Ok", "InvalidUrl", "UnsupportedScheme", "PrivateAddress", "TooManyRedirects",
   "ConnectionFailed", "Timeout", "NotFound", "ServerError", "ResponseTooLarge"}

Addresses == {Literal[h] : h \in DOMAIN Literal} \union
             UNION UNION {Resolutions[h] : h \in DOMAIN Resolutions}

\* INV-12: the buffer never holds more than the limit and the one chunk that passed
\* it (fetcher.rs:107-115, remote.rs:192-202).
TypeOK ==
  /\ stage \in {"starting", "loaded", "serving", "exited"}
  /\ DOMAIN config = Settings
  /\ fetch.client \in {None, "origin", "remote", "bucket"}
  /\ fetch.state \in {"idle", "connecting", "waiting", "streaming", "done"}
  /\ fetch.previous \in 0..(DefaultRedirects + 1)
  /\ fetch.result \in Results
  /\ (fetch.result # None) <=> (fetch.state = "done")
  /\ fetch.contacted \subseteq Addresses
  /\ \E chunk \in Chunk : fetch.received <= max_size + chunk

\* INV-8: settings that a process serves under are those of its environment, the
\* new name before the legacy one, and none of the limits is zero; main.rs:33-39.
ServesAsConfigured ==
  stage = "serving" =>
    /\ \A s \in Settings :
         LET given == environment[s]
         IN /\ given.primary \notin {Unset, NotUnicode} => config[s] = Parsed(s, given.primary)
            /\ (given.primary = Unset /\ given.legacy \notin {Unset, NotUnicode})
                 => config[s] = Parsed(s, given.legacy)
            /\ (given.primary = Unset /\ given.legacy = Unset) => config[s] = Defaults[s]
    /\ 0 \notin {config.SERVER_PORT, config.SERVER_REQUEST_TIMEOUT_MS, config.ORIGIN_TIMEOUT_MS,
                 config.SERVER_MAX_REQUEST_SIZE, config.SERVER_MAX_CONNECTIONS,
                 config.TRANSFORM_MAX_FRAMES, config.TRANSFORM_MAX_ANIMATED_PIXELS}
    /\ config.ORIGIN_TYPE = "r2" => config.R2_SECRET_ACCESS_KEY # ""

\* INV-14: whatever a name resolves to from one hop to the next and wherever servers
\* redirect to, a remote fetch reaches public addresses only, three hops at the most
\* (remote.rs:94-129, 146-153, 273-299).
OnlyPublicHosts ==
  fetch.client = "remote" =>
    /\ \A address \in fetch.contacted : IsPublic(address)
    /\ fetch.previous < MAX_REDIRECTS

\* What a fetch returns as an image is the whole of what the server sent, within the
\* limit (fetcher.rs:95-121, remote.rs:183-208).
WholeBody ==
  (fetch.result = "Ok" /\ fetch.client # "bucket") =>
    /\ fetch.received <= max_size
    /\ fetch.sent_all
    /\ fetch.declared # Unset => fetch.received = fetch.declared

\* A target that the policy bars is reported as that (403), never as a server that
\* failed (502, 504); no other target is, but for an answer that redirects nowhere, which
\* is taken for a barred scheme (remote.rs:157-166, 225-247, server.rs:722-744).
RejectionsNamed ==
  fetch.client = "remote" /\ fetch.state = "done" =>
    /\ fetch.result = "PrivateAddress" <=> fetch.barred \in {"address", "not globally routable"}
    /\ fetch.result = "TooManyRedirects" <=> fetch.barred = "too many redirects"
    /\ fetch.result = "UnsupportedScheme" <=>
         fetch.barred \in {"scheme", "redirect to unsupported scheme", "nowhere"}

\* A server may stay silent at any point: the fetch still ends (fetcher.rs:49-53,
\* remote.rs:113-116).
EveryFetchEnds == InFlight ~> fetch.state = "done"
=============================================================================
