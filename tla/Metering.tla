------------------------------ MODULE Metering ------------------------------
(***************************************************************************)
(* What an answered call is charged: the usage parser of the provider's    *)
(* body (crates/gateway/src/provider.rs), the price of a usage             *)
(* (crates/core/src/pricing.rs) and the amount settled                     *)
(* (settle_amount, crates/gateway/src/settle.rs).                          *)
(*                                                                         *)
(* A body is the sequence of its events.  It may be cut by the parser's    *)
(* cap, broken by the provider at any event, or abandoned by the caller,   *)
(* and what is charged must not fall below what the provider bills.        *)
(*                                                                         *)
(* An event is [opens, usage, open, closes]: the usage object under        *)
(* message, the one at the top, whether a stop or finish reason is an      *)
(* explicit null, and whether it is message_stop or [DONE].  A usage       *)
(* object is a function from the keys it carries; <<>> carries none.       *)
(***************************************************************************)
EXTENDS Integers, Sequences, SequencesExt

CONSTANTS
  Bodies,      \* [events, document, ok, bill, split]: what a provider sends and bills
  Requests_,   \* [body_len, max_tokens, completions]; max_tokens 0 stands for None
  Price,       \* the model's base rate, per Mtok
  LongPrice,   \* its rate above LongAbove prompt tokens
  LongAbove,
  Mtok,        \* 1_000_000
  MaxMicrousd, \* i64::MAX
  CAP,         \* UsageParser::CAP, in events
  DEFAULT_MAX_TOKENS,
  CHARS_PER_TOKEN

VARIABLES
  body, req,   \* the call
  fed,         \* how many events have arrived
  parsing,     \* UsageParser: [buf, truncated]
  settled      \* -1, then what the call was settled at

metervars == <<body, req, fed, parsing, settled>>

NoUsage == [input |-> 0, output |-> 0, cache_read |-> 0, cache_write |-> 0, cache_write_1h |-> 0]
NoNetting == [prompt |-> 0, cached |-> 0, written |-> 0, completion |-> 0, total |-> 0]

Minus(a, b) == IF a < b THEN 0 ELSE a - b
AtLeast(a, b) == IF a < b THEN b ELSE a
AtMost(a, b) == IF a < b THEN a ELSE b

(* set_if_positive: the last figure that is not zero wins. *)
Latest(old, u, key) == IF key \in DOMAIN u /\ u[key] > 0 THEN u[key] ELSE old

apply_anthropic(m, u) ==
  [m EXCEPT !.usage =
     [input |-> Latest(@.input, u, "input_tokens"),
      output |-> Latest(@.output, u, "output_tokens"),
      cache_read |-> Latest(@.cache_read, u, "cache_read_input_tokens"),
      cache_write |-> Latest(@.cache_write, u, "cache_creation_input_tokens"),
      cache_write_1h |-> Latest(@.cache_write_1h, u, "ephemeral_1h_input_tokens")]]

Figures == {"prompt_tokens", "completion_tokens", "total_tokens"}
Details == {"cached_tokens", "cache_write_tokens"}

is_openai_shape(u) == DOMAIN u \cap (Figures \cup Details) # {}

(* OpenAI's prompt count holds the cached and the written subset, and its  *)
(* total may hold output its completion count leaves out: both are netted  *)
(* from the figures seen so far, in whatever order they came.              *)
apply_openai(m, u) ==
  LET n == [prompt |-> Latest(m.net.prompt, u, "prompt_tokens"),
            cached |-> Latest(m.net.cached, u, "cached_tokens"),
            written |-> Latest(m.net.written, u, "cache_write_tokens"),
            completion |-> Latest(m.net.completion, u, "completion_tokens"),
            total |-> Latest(m.net.total, u, "total_tokens")]
      output == AtLeast(n.completion, Minus(n.total, n.prompt))
  IN  [m EXCEPT !.net = n,
         !.usage = [@ EXCEPT
           !.output = IF DOMAIN u \cap Figures # {} /\ output > 0 THEN output ELSE @,
           !.input = IF n.prompt > 0 THEN Minus(Minus(n.prompt, n.cached), n.written) ELSE @,
           !.cache_read = IF n.cached > 0 THEN n.cached ELSE @,
           !.cache_write = IF n.written > 0 THEN n.written ELSE @]]

(* 0: no output figure; 1: a running one; 2: one on an event that does not *)
(* say the message is still open.                                          *)
UsageReport(e) ==
  LET keys == IF is_openai_shape(e.usage) THEN {"completion_tokens", "total_tokens"} ELSE {"output_tokens"}
  IN  IF DOMAIN e.usage \cap keys = {} THEN 0 ELSE IF e.open THEN 1 ELSE 2

merge_usage(m, e) ==
  LET opened == apply_anthropic(m, e.opens)
  IN  [IF is_openai_shape(e.usage) THEN apply_openai(opened, e.usage) ELSE apply_anthropic(opened, e.usage)
         EXCEPT !.report = AtLeast(@, UsageReport(e)), !.closed = @ \/ e.closes]

(* UsageParser::finish. *)
finish_parse(p) ==
  LET m == FoldLeft(merge_usage, [usage |-> NoUsage, net |-> NoNetting, report |-> 0, closed |-> FALSE], p.buf)
      whole == body.document /\ p.buf = body.events
  IN  [usage |-> IF body.document /\ ~whole THEN NoUsage ELSE m.usage,
       truncated |-> p.truncated,
       complete |-> whole \/ (~body.document /\ (m.report = 2 \/ (m.closed /\ m.report = 1)))]

carries_priced_tokens(u) == \E f \in DOMAIN u : u[f] > 0

prompt_tokens(u) == u.input + u.cache_read + u.cache_write

price_for(u) == IF prompt_tokens(u) > LongAbove THEN LongPrice ELSE Price

(* Mutant: each part is rounded down on its own. *)
cost_by_part(u) ==
  LET p == price_for(u)
  IN  AtMost((u.input * p.input) \div Mtok + (u.output * p.output) \div Mtok
             + (u.cache_read * p.cache_read) \div Mtok
             + (Minus(u.cache_write, u.cache_write_1h) * p.cache_write) \div Mtok
             + (u.cache_write_1h * p.cache_write_1h) \div Mtok, MaxMicrousd)

(* PriceBook::cost: one sum, rounded up once. *)
cost(u) ==
  LET p == price_for(u)
      sum == u.input * p.input + u.output * p.output + u.cache_read * p.cache_read
             + Minus(u.cache_write, u.cache_write_1h) * p.cache_write
             + u.cache_write_1h * p.cache_write_1h
  IN  AtMost((sum + Mtok - 1) \div Mtok, MaxMicrousd)

output_cap_tokens(r) ==
  (IF r.max_tokens = 0 THEN DEFAULT_MAX_TOKENS ELSE r.max_tokens) * AtLeast(r.completions, 1)

(* The pre-flight estimate, with its margin of 15%. *)
estimate_cost(r) ==
  (cost([NoUsage EXCEPT !.input = r.body_len \div CHARS_PER_TOKEN, !.output = output_cap_tokens(r)]) * 115 + 99)
    \div 100

(* Mutant: usage that stopped short is priced as it is. *)
settle_amount_as_parsed(parsed, unmeasured, unmeasured_output) ==
  IF parsed.truncated THEN unmeasured
  ELSE IF carries_priced_tokens(parsed.usage) THEN cost(parsed.usage)
  ELSE unmeasured

settle_amount_of(parsed, unmeasured, unmeasured_output) ==
  IF parsed.truncated THEN unmeasured
  ELSE IF ~carries_priced_tokens(parsed.usage) THEN unmeasured
  ELSE IF ~parsed.complete /\ unmeasured_output > 0
  THEN cost([parsed.usage EXCEPT !.output = AtLeast(@, unmeasured_output)])
  ELSE cost(parsed.usage)

(* SettleGuard::charge. *)
charge(parsed) ==
  settled' = IF body.ok THEN settle_amount_of(parsed, estimate_cost(req), output_cap_tokens(req))
             ELSE settle_amount_of(parsed, 0, 0)

-----------------------------------------------------------------------------
MeterInit ==
  /\ body \in Bodies
  /\ req \in Requests_
  /\ fed = 0
  /\ parsing = [buf |-> <<>>, truncated |-> FALSE]
  /\ settled = -1

feed ==
  /\ settled = -1
  /\ fed < Len(body.events)
  /\ fed' = fed + 1
  /\ parsing' = IF Len(parsing.buf) >= CAP
                THEN [parsing EXCEPT !.truncated = TRUE]
                ELSE [parsing EXCEPT !.buf = Append(@, body.events[fed + 1])]
  /\ UNCHANGED <<body, req, settled>>

(* The body ends, or the provider breaks it: the slot holds what was read. *)
BodyOver ==
  /\ settled = -1
  /\ charge(finish_parse(parsing))
  /\ UNCHANGED <<body, req, fed, parsing>>

(* The caller goes away with the body under way: the slot was not written. *)
Abandoned ==
  /\ settled = -1
  /\ fed < Len(body.events)
  /\ charge([usage |-> NoUsage, truncated |-> FALSE, complete |-> FALSE])
  /\ parsing' = [buf |-> <<>>, truncated |-> FALSE]
  /\ UNCHANGED <<body, req, fed>>

MeterNext == feed \/ BodyOver \/ Abandoned

MeterSpec == MeterInit /\ [][MeterNext]_metervars
-----------------------------------------------------------------------------
(* What the provider bills, before it is divided by Mtok: its own counts,  *)
(* which overlap nowhere, at the rate its prompt length decides.           *)
Billed ==
  LET b == body.bill
      p == IF b.input + b.cache_read + b.cache_write > LongAbove THEN LongPrice ELSE Price
  IN  b.input * p.input + b.output * p.output + b.cache_read * p.cache_read
        + (b.cache_write - b.cache_write_1h) * p.cache_write + b.cache_write_1h * p.cache_write_1h

Measured == parsing.buf # <<>> /\ carries_priced_tokens(finish_parse(parsing).usage)

(* A call whose usage was read at all is never settled below the bill,     *)
(* wherever the body broke: "this is the upper bound of the bill".  Up to  *)
(* the parser's cap, for a provider whose output stays within the cap the  *)
(* request names and that reports its prompt side in one object.           *)
NeverBelowTheBill ==
  (settled # -1 /\ body.ok /\ Measured /\ ~parsing.truncated /\ body.bill.output =< output_cap_tokens(req)
     /\ (body.split => fed = Len(body.events)))
    => settled * Mtok >= Billed \/ settled = MaxMicrousd

(* And a body read to its end is settled at the bill, rounded up, however  *)
(* the provider spread its figures.                                        *)
WholeBodyIsTheBill ==
  (settled # -1 /\ fed = Len(body.events) /\ Measured /\ ~parsing.truncated)
    => /\ settled * Mtok >= Billed \/ settled = MaxMicrousd
       /\ (settled - 1) * Mtok < Billed

(* A body past the cap is settled at the estimate, never at what happened  *)
(* to stand before or after the cut.                                       *)
CutIsEstimated ==
  (settled # -1 /\ Len(body.events) > CAP /\ fed > CAP) => settled = IF body.ok THEN estimate_cost(req) ELSE 0

(* What a call is settled at, whole: not below the provider's bill, at the *)
(* bill when the body was read to its end, at the estimate when its usage  *)
(* was past the parser's cap.                                              *)
BilledRight == NeverBelowTheBill /\ WholeBodyIsTheBill /\ CutIsEstimated
=============================================================================
