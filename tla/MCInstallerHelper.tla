-------------------------- MODULE MCInstallerHelper --------------------------
(* A small instance of InstallerHelper for TLC. *)
EXTENDS InstallerHelper

CONSTANTS new, older, image, chromeId, edgeId, devId

\* The installed copy, one of an earlier release in the user's own folder
\* whose installer knows no Edge ID, and the disk image.
MCLocation ==
    [c \in Copies |-> [extension |-> ".app", linked |-> FALSE, readOnly |-> c = image,
                       inside |-> CASE c = new -> "system" [] c = older -> "user"
                                    [] c = image -> "elsewhere"]]

MCProductionIDs ==
    [c \in Copies |-> IF c = older THEN {chromeId} ELSE {chromeId, edgeId}]

Fresh == [leaf |-> [b \in Browsers |-> Leaf("none")], legacy |-> "none",
          bundle |-> [c \in Copies |-> "ready"]]

\* Nothing; an earlier release; the contributor's installation; and a link in
\* the place of a manifest.
MCInitialDisks ==
    {Fresh, Registered(Fresh, older),
     [Fresh EXCEPT !.leaf = [b \in Browsers |-> Copied(b, new)], !.legacy = "file"],
     [Fresh EXCEPT !.leaf["edge"] = Leaf("foreign")]}

\* While something runs, the first manifest is damaged or the last one becomes
\* a link.
MCTouchedLeaves == {<<"firefox", "damaged">>, <<"edge", "foreign">>}
=============================================================================
