------------------------------- MODULE MCRank -------------------------------
(* Configurations for TLC: small pages, windows and tails of several kinds. *)
EXTENDS RankState

Spec0 ==
  [name |-> "a", kind |-> "full", prefix |-> "silent", single |-> FALSE,
   window |-> 0, tail |-> 0, block |-> 1, bytes |-> 3]

Sliding(name, window) ==
  [Spec0 EXCEPT !.name = name, !.kind = "sliding", !.window = window, !.bytes = 2]

Mamba(tail) ==
  [Spec0 EXCEPT !.name = "m", !.kind = "mamba", !.tail = tail, !.block = 4,
                !.bytes = 2]

Scratch ==
  [Spec0 EXCEPT !.name = "s", !.kind = "unknown", !.prefix = "private",
                !.single = TRUE, !.block = 3, !.bytes = 1]

\* A group of one specification, with or without its layer.  Those without tokens
\* are replicated.
Plain(spec, owned) ==
  [kind |-> spec.kind, prefix |-> spec.prefix, single |-> spec.single,
   packed |-> FALSE, block |-> spec.block, page |-> spec.bytes,
   replicated |-> spec.kind \in {"mamba", "unknown"}, eagle |-> FALSE,
   layers |-> IF owned THEN <<spec>> ELSE <<>>, members |-> <<spec>>]

\* A packed group of several.
Packed(kind, specs) ==
  [kind |-> kind, prefix |-> "silent", single |-> FALSE, packed |-> TRUE,
   block |-> specs[1].block, page |-> Length(specs),
   replicated |-> FALSE, eagle |-> FALSE, layers |-> specs, members |-> specs]

Full == Plain(Spec0, TRUE)

\* Two windows with pages of two sizes; a packed group of two windows, which is
\* refused, and one of a single window; recurrent states with scratch pages, with
\* a tail or on a pipeline stage that owns none.
MCConfigs == [
  plain |-> <<Full, Plain(Sliding("w", 4), TRUE)>>,
  wide |-> <<Plain([Spec0 EXCEPT !.bytes = 4], TRUE), Plain(Sliding("w", 4), TRUE)>>,
  packed |-> <<Full, Packed("unknown", <<Sliding("v", 3), Sliding("w", 6)>>)>>,
  joint |-> <<Full, Packed("sliding", <<Sliding("v", 4), Sliding("w", 4)>>)>>,
  state |-> <<Full, Plain(Mamba(0), TRUE), Plain(Scratch, TRUE)>>,
  ahead |-> <<Full, Plain(Mamba(1), TRUE), Plain(Scratch, TRUE)>>,
  stage |-> <<Plain([Spec0 EXCEPT !.name = "b"], TRUE), Plain(Mamba(0), FALSE),
              Plain(Scratch, TRUE)>>]
=============================================================================
