------------------------------- MODULE Cores --------------------------------
(***************************************************************************)
(* What DRVFuzz knows of the simulators it drives (riscv_impls.rs and the  *)
(* config.rs of each): the base ISAs, the alignment modes, the extensions  *)
(* and the memory left to test programs; and what a set of them has in     *)
(* common (riscv_impls_vec.rs).                                            *)
(***************************************************************************)
EXTENDS Naturals, FiniteSets, FiniteSetsExt

Core == {"Spike", "Rocket", "BoomV3", "BoomV4", "PicoRV32", "CVA6",
         "XiangShan", "Ibex", "Vex", "Kronos", "Srv32"}
Bases == {32, 64}

SupportedBases == [i \in Core |->
  CASE i \in {"Spike", "Rocket", "CVA6"}         -> {32, 64}
    [] i \in {"BoomV3", "BoomV4", "XiangShan"}   -> {64}
    [] OTHER                                     -> {32}]

\* supported_unaligned_access_modes, and its first element.
Modes == [i \in Core |->
  CASE i \in {"Spike", "XiangShan"} -> BOOLEAN
    [] i = "Ibex"                   -> {TRUE}
    [] OTHER                        -> {FALSE}]
DefaultMode == [i \in Core |-> i \in {"XiangShan", "Ibex"}]

\* The cores that have a required mode; every caller passes an empty map of overrides.
Filtered(G, requirement) == { i \in G : requirement \subseteq Modes[i] }

SpikeBoth == {
  "b", "c", "d", "f", "h", "i", "m", "svinval", "v", "zaamo", "zabha", "zacas",
  "zalrsc", "zawrs", "zba", "zbb", "zbc", "zbkb", "zbkx", "zbs", "zcb", "zcd",
  "zfbfmin", "zfh", "zicbom", "zicboz", "zicfilp", "zicond", "zicsr", "zifencei",
  "zimop", "zknd", "zkne", "zknh", "zks", "zvbb", "zvbc", "zvfbfmin", "zvfbfwma",
  "zvkg", "zvkned", "zvknha", "zvks"}
RocketBoth == {
  "i", "m", "f", "d", "c", "zicsr", "zifencei", "zba", "zbb", "zbs", "zfh",
  "zaamo", "zalrsc", "zicond"}
Cva6Both == {
  "i", "m", "f", "c", "zaamo", "zalrsc", "b", "zba", "zbb", "zbc", "zbs", "zcb",
  "zbkb", "zbkx", "zknd", "zkne", "zknh", "zicond", "zicsr", "zifencei"}

BoomBoth == RocketBoth \ {"zfh", "zicond"}
PicoExtensions == {"i", "m", "c"}
IbexExtensions == {"i", "m", "c", "zicsr", "zifencei", "b", "zbc"}
VexExtensions == {"i", "m", "f", "c", "zicsr", "zifencei", "zaamo", "zalrsc"}
KronosExtensions == {"i", "zicsr", "zifencei"}
Srv32Extensions == {"i", "m", "c", "zicsr", "zifencei", "zba", "zbb", "zbc", "zbs"}
XiangShanExtensions == RocketBoth \cup {"h"}

Extensions32 == [i \in Core |->
  CASE i = "Spike"    -> SpikeBoth
    [] i = "Rocket"   -> RocketBoth
    [] i \in {"BoomV3", "BoomV4"} -> BoomBoth \cup {"zfh"}
    [] i = "CVA6"     -> Cva6Both \cup {"zcf"}
    [] i = "PicoRV32" -> PicoExtensions
    [] i = "Ibex"     -> IbexExtensions
    [] i = "Vex"      -> VexExtensions
    [] i = "Kronos"   -> KronosExtensions
    [] i = "Srv32"    -> Srv32Extensions
    [] OTHER          -> {}]
Extensions64 == [i \in Core |->
  CASE i = "Spike"     -> SpikeBoth \cup {"zkn"}
    [] i = "Rocket"    -> RocketBoth
    [] i \in {"BoomV3", "BoomV4"} -> BoomBoth
    [] i = "CVA6"      -> Cva6Both \cup {"d", "h", "zcd", "zfh", "zkn"}
    [] i = "XiangShan" -> XiangShanExtensions
    [] OTHER           -> {}]
Extensions(i, base) == IF base = 32 THEN Extensions32[i] ELSE Extensions64[i]

\* The extensions a testcase for the cores G is made of.
Common(G, base) ==
  IF G = {} THEN {} ELSE { x \in UNION { Extensions(i, base) : i \in G } :
                             \A i \in G : x \in Extensions(i, base) }

\* The others drop the extension map of the testcase and build with their own.
TakesOverride == {"Spike", "Rocket", "BoomV3", "BoomV4", "XiangShan", "Vex"}
BuiltWith(i, base, common) == IF i \in TakesOverride THEN common ELSE Extensions(i, base)
=============================================================================
