-------------------------------- MODULE Config -------------------------------
(***************************************************************************)
(* Loading and validating the settings: crates/imgx/src/config.rs.  A      *)
(* setting is named by the suffix of its environment variable.  The text   *)
(* of a variable is the value it spells, or Malformed; a URL is its scheme *)
(* and host, a host its labels or the address it spells; a path is the     *)
(* sequence of its segments.                                               *)
(***************************************************************************)
EXTENDS Integers

CONSTANTS
  Unset,        \* no such environment variable
  NotUnicode,   \* a variable whose bytes are not a string
  Malformed     \* a text that spells no value of the setting's type

\* Config::defaults.
Defaults ==
  [SERVER_PORT |-> 8080, SERVER_HOST |-> "0.0.0.0", SERVER_REQUEST_TIMEOUT_MS |-> 30000,
   SERVER_MAX_REQUEST_SIZE |-> 52428800, SERVER_MAX_CONNECTIONS |-> 256,
   ORIGIN_BASE_URL |-> [scheme |-> "http", host |-> <<"localhost">>], ORIGIN_TIMEOUT_MS |-> 10000,
   ORIGIN_MAX_RETRIES |-> 2, ORIGIN_TYPE |-> "http", ORIGIN_PATH_PREFIX |-> <<>>,
   ALLOW_REMOTE_SOURCES |-> FALSE, ALLOW_DRAW_OVERLAYS |-> FALSE,
   TRANSFORM_MAX_WIDTH |-> 8192, TRANSFORM_MAX_HEIGHT |-> 8192, TRANSFORM_DEFAULT_QUALITY |-> 80,
   TRANSFORM_MAX_PIXELS |-> 71000000, TRANSFORM_STRIP_METADATA |-> TRUE,
   TRANSFORM_MAX_FRAMES |-> 100, TRANSFORM_MAX_ANIMATED_PIXELS |-> 50000000,
   TRANSFORM_AVIF_EFFORT |-> 4, TRANSFORM_FAILURE |-> "passthrough",
   CACHE_ENABLED |-> TRUE, CACHE_MAX_SIZE_BYTES |-> 536870912, CACHE_DEFAULT_TTL_SECONDS |-> 3600,
   R2_ENDPOINT |-> "", R2_ACCESS_KEY_ID |-> "", R2_SECRET_ACCESS_KEY |-> "",
   R2_BUCKET_ORIGINALS |-> "originals", R2_BUCKET_VARIANTS |-> "variants"]

Settings == DOMAIN Defaults

Booleans == {"TRANSFORM_STRIP_METADATA", "CACHE_ENABLED", "ALLOW_REMOTE_SOURCES",
             "ALLOW_DRAW_OVERLAYS"}

\* The settings of 8, 16 and 32 bits; the other numbers have 64.
Bytes == {"ORIGIN_MAX_RETRIES", "TRANSFORM_DEFAULT_QUALITY", "TRANSFORM_AVIF_EFFORT"}
Shorts == {"SERVER_PORT", "SERVER_MAX_CONNECTIONS"}
Words == {"SERVER_REQUEST_TIMEOUT_MS", "ORIGIN_TIMEOUT_MS", "TRANSFORM_MAX_WIDTH",
          "TRANSFORM_MAX_HEIGHT", "TRANSFORM_MAX_FRAMES", "CACHE_DEFAULT_TTL_SECONDS"}

\* Mutant of env_var: the legacy name wins.
LegacyFirst(env, s) ==
  IF env[s].legacy \notin {Unset, NotUnicode} THEN env[s].legacy
  ELSE IF env[s].primary = NotUnicode THEN Unset ELSE env[s].primary

\* IMGX_, and ZIMGX_ when that is not there. A variable that is no string counts as
\* not set, and a primary one of that kind hides the legacy one.
env_var(env, s) ==
  LET chosen == IF env[s].primary = Unset THEN env[s].legacy ELSE env[s].primary
  IN IF chosen = NotUnicode THEN Unset ELSE chosen

parse_bool(text) == IF text \in {"true", "1"} THEN TRUE
                    ELSE IF text \in {"false", "0"} THEN FALSE ELSE Malformed

\* Half of the numbers of 32 bits.
HalfWord == 2147483647

TooWide(s, text) ==
  \/ s \in Bytes /\ text > 255
  \/ s \in Shorts /\ text > 65535
  \/ s \in Words /\ text - HalfWord - 1 > HalfWord

\* FromStr of an unsigned integer of the setting's width.
parse_num(s, text) == IF TooWide(s, text) THEN Malformed ELSE text

Parsed(s, text) ==
  IF text = Malformed THEN Malformed
  ELSE IF s \in Booleans THEN parse_bool(text)
  ELSE IF s \in Bytes \union Shorts \union Words THEN parse_num(s, text)
  ELSE text

Setting(env, s) ==
  IF env_var(env, s) = Unset THEN Defaults[s] ELSE Parsed(s, env_var(env, s))

load_from_env(env) == [s \in Settings |-> Setting(env, s)]
Loads(env) == \A s \in Settings : Setting(env, s) # Malformed

has_http_scheme(url) == url.scheme \in {"http", "https"}

ValidServer(c) ==
  /\ c.SERVER_PORT # 0 /\ c.SERVER_REQUEST_TIMEOUT_MS # 0
  /\ c.SERVER_MAX_CONNECTIONS # 0 /\ c.SERVER_MAX_REQUEST_SIZE # 0
ValidTransform(c) ==
  /\ c.TRANSFORM_MAX_WIDTH >= 1 /\ c.TRANSFORM_MAX_HEIGHT >= 1
  /\ c.TRANSFORM_DEFAULT_QUALITY \in 1..100 /\ c.TRANSFORM_AVIF_EFFORT <= 9
  /\ c.TRANSFORM_MAX_FRAMES # 0 /\ c.TRANSFORM_MAX_ANIMATED_PIXELS # 0
ValidCache(c) ==
  c.CACHE_ENABLED => c.CACHE_MAX_SIZE_BYTES # 0 /\ c.CACHE_DEFAULT_TTL_SECONDS # 0
ValidOrigin(c) ==
  /\ c.ORIGIN_TIMEOUT_MS # 0
  /\ c.ORIGIN_TYPE = "http" => has_http_scheme(c.ORIGIN_BASE_URL)
  /\ c.ORIGIN_TYPE = "r2" =>
       "" \notin {c.R2_ENDPOINT, c.R2_ACCESS_KEY_ID, c.R2_SECRET_ACCESS_KEY,
                  c.R2_BUCKET_ORIGINALS, c.R2_BUCKET_VARIANTS}

validate(c) == ValidServer(c) /\ ValidTransform(c) /\ ValidCache(c) /\ ValidOrigin(c)
=============================================================================
