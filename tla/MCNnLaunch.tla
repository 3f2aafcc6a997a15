----------------------------- MODULE MCNnLaunch -----------------------------
(* NnLaunch for TLC: a machine of three cores, and one where the launcher    *)
(* may use the last two of them only.                                        *)
EXTENDS NnLaunch

CONSTANTS port, out

AllThree == <<0, 1, 2>>
LastTwo == <<1, 2>>
FullMasks == {AllThree}
AnyMasks == {AllThree, LastTwo}

PortOnly == {port}
TwoWords == {port, out}

CoreLists == {<<0, 2>>, <<2, 1>>, <<1, 1, 0>>}
SeedTexts == {AutoSeed, <<<<7>>, <<7>>, <<3>>>>, <<<<1, 3>>>>, <<<<5>>, <<2, 1>>, <<1, 2, 3>>>>}
ArgLists == {<<port, 7, out>>, <<port, out>>}

Sessions == [cores: CoreLists, seed: SeedTexts, args: ArgLists,
             noBroker: BOOLEAN, spawnClient: BOOLEAN]
=============================================================================
