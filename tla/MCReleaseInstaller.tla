------------------------- MODULE MCReleaseInstaller -------------------------
(* Instances of ReleaseInstaller for TLC. *)
EXTENDS ReleaseInstaller

CONSTANTS r1, r2, p1, p2, v1, v2

MCReleases == {r1, r2}
MCProcs == {p1, p2}
OneProc == {p1}
MCVersions == {v1, v2}
MCVersionOf == [r \in MCReleases |-> v1]
MCNewModes == {"loose", "fresh"}

(* One metadata journal for the whole file system. *)
OneDomain == {Dirs}

=============================================================================
