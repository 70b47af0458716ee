------------------------------ MODULE MCClientSide -----------------------------
(***************************************************************************)
(* ClientSide for TLC.  A nanosecond counter of 6 bits, four to the second,*)
(* and a default lifetime of two seconds: no lifetime asked for, one below  *)
(* the default, one above, and three that overflow, to a negative duration, *)
(* to less than the default and to nothing.                                *)
(***************************************************************************)
EXTENDS ClientSide, FiniteSets

CONSTANT s1

MCModes == {"signed", "unsigned", "both"}
MCLifetimes == {-1, 0, 1, 3, 9, 16, 17}

MCFields ==
    [client : {"absent", "given"}, correlation : {"absent", "given"},
     flow : {"same_device", "cross_device", "dcapi", "unknown"},
     query : {"absent", "unparsable", "invalid", "valid"},
     origins : {"absent", "bad", "good"}, redirect : {"absent", "bad", "good"},
     registration : {"zero", "incomplete", "complete"},
     policy : {"absent", "malformed", "signed", "unsigned"},
     webhook : BOOLEAN, ttl : MCLifetimes]

\* What a well-behaved caller fills a field with.
MCIsPlain(b, field) ==
    CASE field \in {"client", "correlation"} -> b[field] = "given"
      [] field = "flow" -> b.flow # "unknown"
      [] field = "query" -> b.query = "valid"
      [] field = "origins" -> b.origins = IF b.flow = "dcapi" THEN "good" ELSE "absent"
      [] field = "redirect" -> b.redirect = IF b.flow = "same_device" THEN "good" ELSE "absent"
      [] field = "registration" -> b.registration = "complete"
      [] field = "policy" -> b.policy = "absent"
      [] field = "ttl" -> b.ttl = 0
      [] OTHER -> TRUE

\* Bound: at most two fields of a body are out of the ordinary.
MCIrregular == 2
MCBodies == {b \in MCFields : Cardinality({f \in DOMAIN b : ~MCIsPlain(b, f)}) <= MCIrregular}
=============================================================================
