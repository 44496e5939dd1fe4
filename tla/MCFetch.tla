-------------------------------- MODULE MCFetch ------------------------------
EXTENDS Fetch, TLC

\* The first and last address of every network that is kept out, and its neighbours.
Corners4 ==
  { <<0, 0, 0, 0>>, <<0, 255, 255, 255>>, <<1, 0, 0, 0>>, <<9, 255, 255, 255>>, <<10, 0, 0, 0>>,
    <<10, 255, 255, 255>>, <<11, 0, 0, 0>>, <<100, 63, 255, 255>>, <<100, 64, 0, 0>>,
    <<100, 127, 255, 255>>, <<100, 128, 0, 0>>, <<127, 0, 0, 0>>, <<127, 255, 255, 255>>,
    <<128, 0, 0, 0>>, <<169, 253, 255, 255>>, <<169, 254, 0, 0>>, <<169, 254, 255, 255>>,
    <<169, 255, 0, 0>>, <<172, 15, 255, 255>>, <<172, 16, 0, 0>>, <<172, 31, 255, 255>>,
    <<172, 32, 0, 0>>, <<192, 0, 2, 1>>, <<192, 167, 255, 255>>, <<192, 168, 0, 0>>,
    <<192, 168, 255, 255>>, <<192, 169, 0, 0>>, <<198, 51, 100, 7>>, <<203, 0, 113, 9>>,
    <<223, 255, 255, 255>>, <<224, 0, 0, 0>>, <<239, 255, 255, 255>>, <<240, 0, 0, 0>>,
    <<255, 255, 255, 255>> }
Corners6 ==
  { Mapped(o) : o \in Corners4 } \union
  { <<0, 0, 0, 0, 0, 0, 0, i>> : i \in 0..2 } \union
  { Filled(s, 65535) : s \in {8193, 64511, 65023, 65151, 65215, 65279} } \union
  { Filled(s, 0) : s \in {64512, 65024, 65152, 65216, 65280, 65535} }

Public == <<8, 8, 8, 8>>
Shared == <<100, 127, 255, 255>>
Loopback == <<127, 0, 0, 1>>

\* An IP literal is its own name.
MCLiteral == [a \in Corners4 \union Corners6 \union {Public, Shared, Loopback} |-> a]
MCResolutions ==
  [ h \in {<<"localhost">>, <<"rebinds">>, <<"steady">>} |->
      CASE h = <<"localhost">> -> {{Loopback}}
        [] h = <<"rebinds">> -> {{}, {Public}, {Loopback}, {Public, Shared}}
        [] h = <<"steady">> -> {{Public}} ]

Url(scheme, host) == [scheme |-> scheme, host |-> host]
MCLocation ==
  { Url("http", Public), Url("https", Loopback), Url("http", <<"rebinds">>), Url("ftp", <<"steady">>) }
MCSource ==
  MCLocation \union {Malformed} \union {Url("http", h) : h \in DOMAIN MCLiteral \union DOMAIN MCResolutions}

MCPath == { <<"">>, <<"a">>, <<"", "a">>, <<"p", "a">>, <<"..", "a">>, <<"a..b">> }
-----------------------------------------------------------------------------
\* Variables that are set; the others are not.
Set(values, legacy_values) ==
  [ s \in Settings |->
      [ primary |-> IF s \in DOMAIN values THEN values[s] ELSE Unset,
        legacy |-> IF s \in DOMAIN legacy_values THEN legacy_values[s] ELSE Unset ] ]
NoneSet == [s \in {} |-> Unset]

Small == [SERVER_MAX_REQUEST_SIZE |-> 2, ORIGIN_PATH_PREFIX |-> <<"p">>]
R2 == [ORIGIN_TYPE |-> "r2", R2_ENDPOINT |-> "e", R2_ACCESS_KEY_ID |-> "k",
       R2_SECRET_ACCESS_KEY |-> "s"]

\* Processes that fetch.
Fetching ==
  { Set(Small, NoneSet),
    Set([SERVER_MAX_REQUEST_SIZE |-> 2, ALLOW_REMOTE_SOURCES |-> "true"],
        [SERVER_MAX_REQUEST_SIZE |-> 3, ALLOW_REMOTE_SOURCES |-> "0"]),
    Set(R2, [ORIGIN_PATH_PREFIX |-> <<"p">>]) }

\* Processes that may refuse to start: one setting at an edge, under either name or
\* hidden by one that is no string.
Edge ==
  [ SERVER_PORT |-> {0, 65535, 65536}, SERVER_REQUEST_TIMEOUT_MS |-> {0},
    SERVER_MAX_REQUEST_SIZE |-> {0, 1}, SERVER_MAX_CONNECTIONS |-> {0, Malformed},
    ORIGIN_TIMEOUT_MS |-> {0}, ORIGIN_MAX_RETRIES |-> {255, 256}, ORIGIN_TYPE |-> {"r2", Malformed},
    ORIGIN_BASE_URL |-> {Url("https", <<"steady">>), Url("file", <<"steady">>)},
    TRANSFORM_MAX_WIDTH |-> {0, 1}, TRANSFORM_DEFAULT_QUALITY |-> {0, 100, 101},
    TRANSFORM_AVIF_EFFORT |-> {9, 10}, TRANSFORM_MAX_FRAMES |-> {0},
    TRANSFORM_MAX_ANIMATED_PIXELS |-> {0}, CACHE_ENABLED |-> {"1", "yes"} ]
Edges == UNION { {Set(s :> v, NoneSet), Set(NoneSet, s :> v), Set(s :> NotUnicode, s :> v)} :
                   <<s, v>> \in UNION {{s} \X Edge[s] : s \in DOMAIN Edge} }
Mixed ==
  { Set([CACHE_ENABLED |-> "0", CACHE_MAX_SIZE_BYTES |-> 0], NoneSet),
    Set([CACHE_DEFAULT_TTL_SECONDS |-> 0], NoneSet),
    Set([R2_BUCKET_VARIANTS |-> ""], R2) }

MCEnvironment == Fetching \union Edges \union Mixed
=============================================================================
