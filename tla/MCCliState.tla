----------------------------- MODULE MCCliState -----------------------------
(* Two packages.  Version 1.0 of the first has two assets with the same file name, so *)
(* one of their symlinks needs its hash; "1" and "1.0" tie in the version order.      *)
EXTENDS CliState

CONSTANTS p, q, here, there

Asset(package, key, path, sha) ==
    [package |-> package, key |-> key, path |-> path, base |-> "f.otf", sha |-> sha]

Fonts == {Asset(p, "1.0", 1, "h1"), Asset(p, "1.0", 2, "h2"), Asset(p, "2.0", 1, "h3"),
          Asset(q, "1", 1, "h1"), Asset(q, "2.0", 1, "h3")}

Order == [k \in {"1", "1.0", "2.0"} |-> IF k = "2.0" THEN 2 ELSE 1]

Command(kind, package, version, dir) ==
    [kind |-> kind, package |-> package, version |-> version, dir |-> dir]

\* Every command for one of the packages, a few for the other, and those for all.
ManyRequests ==
    {Command("install", p, "1.0", None), Command("install", p, "1.0", here),
     Command("install", p, "2.0", here), Command("install", q, "1", there)}
    \cup {Command("activate", p, k, here) : k \in {None, "1"}}
    \cup {Command("activate", p, None, there)}
    \cup {Command("deactivate", p, None, d) : d \in {None, here}}
    \cup {Command("uninstall", p, None, None), Command("uninstall", p, All, None),
          Command("uninstall", p, "1.0", there), Command("uninstall", p, "2.0", here)}
    \cup {Command("repair", None, None, d) : d \in {None, here}}
    \cup {Command("update", None, None, d) : d \in {None, here}}

\* What shows an update that is refused at its second package.
FewRequests ==
    {Command("install", p, "1.0", here), Command("install", q, "1", there),
     Command("update", None, None, here)}
=============================================================================
