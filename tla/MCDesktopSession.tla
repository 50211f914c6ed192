-------------------------- MODULE MCDesktopSession -------------------------
(* Two identities, two leases, two observations, two device generations.   *)
EXTENDS DesktopSession, TLC

CONSTANTS s1, s2, l1, l2

MCSessionIds == {s1, s2}
MCLeases == {l1, l2}

Consent(confirmed, foreground, strict) ==
    [confirmed |-> confirmed, foreground |-> foreground, strict |-> strict]

MCConsents ==
    { Consent("yes", "yes", "no"),
      Consent("omitted", "omitted", "omitted"),
      Consent("yes", "no", "omitted") }

Symmetry == Permutations(MCSessionIds) \cup Permutations(MCLeases)
============================================================================
