----------------------------- MODULE MCNativeAddon -----------------------------
(***************************************************************************)
(* One ask per way through the code: each verdict of the engine, both      *)
(* spellings of the option alone and against each other, both modes, the   *)
(* plugin with and without its chain.  The heap holds one string fewer     *)
(* than the calls that can be in the shim at once.                         *)
(***************************************************************************)
EXTENDS NativeAddon

MCVerdict == [good |-> "holds", old |-> "expired", bad |-> "fails", odd |-> "foreign", junk |-> "garbled", bare |-> "nameless"]

Ask(via, input) ==
  [via |-> via, returns |-> "document", chain |-> "given", input |-> input,
   ignoreTime |-> None, skipValidityPeriodCheck |-> None]

MCAsked ==
  { Ask("async", "good"), Ask("sync", "bad"), Ask("async", "odd"),
    [Ask("async", "junk") EXCEPT !.returns = "jwk"], Ask("sync", "bare"),
    [Ask("sync", "old") EXCEPT !.ignoreTime = TRUE],
    [Ask("async", "old") EXCEPT !.skipValidityPeriodCheck = TRUE],
    [Ask("async", "old") EXCEPT !.ignoreTime = FALSE, !.skipValidityPeriodCheck = TRUE],
    [Ask("plugin", "old") EXCEPT !.skipValidityPeriodCheck = TRUE],
    [Ask("plugin", "good") EXCEPT !.chain = "hollow"],
    [Ask("plugin", "good") EXCEPT !.chain = "absent"],
    [Ask("sync", "good") EXCEPT !.chain = "absent"] }
=============================================================================
