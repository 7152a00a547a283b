----------------------------- MODULE ParamValue -----------------------------
(***************************************************************************)
(* The values of the parameters: nanoseconds on the pages and in the BIN   *)
(* files, 16-bit counts of Base nanoseconds on the board                   *)
(* (app_web_param_value.c), and what the pages accept, compare and send    *)
(* (admin_param_config.js, user_app.js).                                   *)
(*                                                                         *)
(* A parsed BIN file is a function on the addresses, which the parser has  *)
(* checked to be all there and each once.  A text of values, "addr:ns,..." *)
(* is a function on the addresses it names: the pages name each once.      *)
(***************************************************************************)
EXTENDS Integers

CONSTANTS
  Addresses,  \* 0 .. 71
  Base,       \* APP_WEB_PARAM_TIME_BASE_NS: 50
  MaxTick     \* UINT16_MAX

ASSUME ValueAssumption == Base \in Nat \ {0} /\ MaxTick \in Nat

Ticks == 0 .. MaxTick
MaxNs == MaxTick * Base          \* APP_WEB_PARAM_MAX_NS_VALUE, PARAM_MAX_NS
Parsed == [Addresses -> [default : Nat, visible : BOOLEAN]]

(* The server.                                                              *)

\* param_ns_to_board_tick: which values it takes, and what it makes of them.
Convertible(v) == v <= MaxNs /\ v % Base = 0
ToTick(v) == v \div Base
ToNs(t) == t * Base

AllConvertible(values) == \A a \in DOMAIN values : Convertible(values[a])
ToTicks(values) == [a \in DOMAIN values |-> ToTick(values[a])]

Defaults(file) == [a \in Addresses |-> file[a].default]
Visible(file) == {a \in Addresses : file[a].visible}

\* (Variant: hidden parameters are asked for as well.)
ParsesAll(values, file) == DOMAIN values = Addresses /\ AllConvertible(values)
\* parse_param_values: there is a value, all are valid and for visible
\* addresses, and no visible address is left out.
Parses(values, file) ==
  /\ DOMAIN values # {}
  /\ DOMAIN values = Visible(file)
  /\ AllConvertible(values)

\* param_download_handler: hidden parameters keep the file's defaults.
Merged(values, file) ==
  [a \in Addresses |-> IF a \in DOMAIN values THEN values[a] ELSE file[a].default]

\* send_param_board_status_json: the visible values, in nanoseconds.
\* (Variant: they are sent as the board counts them.)
ShownTicks(ticks, file) == [a \in Visible(file) |-> ticks[a]]
Shown(ticks, file) == [a \in Visible(file) |-> ToNs(ticks[a])]

(* The pages.                                                               *)

Blank == -1

\* What an input field makes of a number typed into it.
Clamp(v) == IF v < 0 THEN 0 ELSE IF v > MaxNs THEN MaxNs ELSE v

\* collectDownloadPayload.
Collectable(params) ==
  \A a \in DOMAIN params : params[a] # Blank /\ params[a] <= MaxNs /\ params[a] % Base = 0

\* buildDownloadDiffs: where the board differs from what is to be sent.
Diffs(readback, payload) ==
  {a \in DOMAIN payload : a \notin DOMAIN readback \/ readback[a] # payload[a]}
=============================================================================
