----------------------------- MODULE IsaStrings -----------------------------
(***************************************************************************)
(* The strings that tell the toolchain and Spike what a program may use:   *)
(* -march (march.rs), -mabi (mabi.rs) and --isa (impls/spike/march.rs).    *)
(* A string is modelled by the set of the extensions it names; the order   *)
(* of the names is layout.                                                 *)
(*                                                                         *)
(* An extension is the lower-case name of a variant of RV32Extensions or   *)
(* RV64Extensions, which is what both builders start from.                 *)
(***************************************************************************)
EXTENDS Naturals, FiniteSets

\* Variants of the two enumerations that SUPPORTED_EXTENSIONS leaves out.
Unsupported == {"q", "s", "sdext", "smdbltrp", "smrnmi", "zalasr", "zilsd"}

\* IMPLIED_EXTENSIONS, its unconditional rows.
ImpliedByLetters == [
  m |-> {"zmmul"}, d |-> {"f", "zicsr"}, f |-> {"zfa", "zicsr"},
  a |-> {"zaamo", "zalrsc"}, c |-> {"zca"}, b |-> {"zba", "zbb", "zbs"},
  zabha |-> {"zaamo"}, zacas |-> {"zaamo"}, zawrs |-> {"zalrsc"},
  zcmop |-> {"zca"}, zdinx |-> {"zfinx", "zicsr"}, zfinx |-> {"zicsr"},
  zicfiss |-> {"zicsr", "zimop"}, zicfilp |-> {"zicsr"} ]
ImpliedByScalarCrypto == [
  zk |-> {"zkn", "zkr", "zkt"},
  zkn |-> {"zbkb", "zbkc", "zbkx", "zkne", "zknd", "zknh"},
  zks |-> {"zbkb", "zbkc", "zbkx", "zksed", "zksh"} ]
ImpliedByVectors == [
  v |-> {"zvl128b", "zve64d"},
  zve32x |-> {"zvl32b"}, zve32f |-> {"f", "zve32x", "zvl32b"},
  zve64x |-> {"zve32x", "zvl64b"},
  zve64f |-> {"f", "zve32f", "zve64x", "zvl64b"},
  zve64d |-> {"d", "zve64f", "zvl64b"},
  zvl64b |-> {"zvl32b"}, zvl128b |-> {"zvl64b"}, zvl256b |-> {"zvl128b"},
  zvl512b |-> {"zvl256b"}, zvl1024b |-> {"zvl512b"},
  zvl2048b |-> {"zvl1024b"}, zvl4096b |-> {"zvl2048b"},
  zvl8192b |-> {"zvl4096b"}, zvl16384b |-> {"zvl8192b"},
  zvl32768b |-> {"zvl16384b"}, zvl65536b |-> {"zvl32768b"} ]
ImpliedByVectorCrypto == [
  zvkn |-> {"zvkned", "zvknhb", "zvkb", "zvkt"},
  zvknc |-> {"zvkn", "zvbc"}, zvkng |-> {"zvkn", "zvkg"},
  zvks |-> {"zvksed", "zvksh", "zvkb", "zvkt"},
  zvksc |-> {"zvks", "zvbc"}, zvksg |-> {"zvks", "zvkg"},
  zvbb |-> {"zvkb"}, zvbc |-> {"zve64x"}, zvkb |-> {"zve32x"},
  zvkg |-> {"zve32x"}, zvkned |-> {"zve32x"}, zvknha |-> {"zve32x"},
  zvknhb |-> {"zve64x"}, zvksed |-> {"zve32x"}, zvksh |-> {"zve32x"} ]
ImpliedByOthers == [
  zfbfmin |-> {"zfhmin"}, zfh |-> {"zfhmin"}, zfhmin |-> {"f"}, zfa |-> {"f"},
  zvfbfmin |-> {"zve32f"}, zvfbfwma |-> {"zvfbfmin", "zfbfmin"},
  zvfhmin |-> {"zve32f"}, zvfh |-> {"zve32f", "zfhmin"},
  zhinx |-> {"zhinxmin"}, zhinxmin |-> {"zfinx"},
  zce |-> {"zca", "zcb", "zcmp", "zcmt"}, zcd |-> {"zca"}, zcb |-> {"zca"},
  zcmp |-> {"zca"}, zcmt |-> {"zca", "zicsr"},
  smaia |-> {"ssaia"}, smstateen |-> {"ssstateen"}, smepmp |-> {"zicsr"},
  ssaia |-> {"zicsr"}, sscofpmf |-> {"zicsr"}, ssstateen |-> {"zicsr"},
  sstc |-> {"zicsr"}, xsfvcp |-> {"zve32x"} ]
Tables == {ImpliedByLetters, ImpliedByScalarCrypto, ImpliedByVectors,
           ImpliedByVectorCrypto, ImpliedByOthers}
Implied == [x \in UNION { DOMAIN t : t \in Tables } |->
              UNION { t[x] : t \in { u \in Tables : x \in DOMAIN u } }]

\* IMPLIED_EXTENSIONS, the rows with a condition.
ImpliedIf(xlen, s) ==
  { "zcf" : x \in { y \in {"c", "zce"} : y \in s /\ xlen = 32 /\ "f" \in s } }
    \cup { "zcd" : x \in { y \in {"c"} : y \in s /\ "d" \in s } }

\* COMBINED_EXTENSIONS: the extensions that several others make up.
Combined == [
  a |-> {"zaamo", "zalrsc"}, b |-> {"zba", "zbb", "zbs"},
  zk |-> {"zkn", "zkr", "zkt"},
  zkn |-> {"zbkb", "zbkc", "zbkx", "zkne", "zknd", "zknh"},
  zks |-> {"zbkb", "zbkc", "zbkx", "zksed", "zksh"},
  zvkn |-> {"zvkned", "zvknhb", "zvkb", "zvkt"},
  zvknc |-> {"zvkn", "zvbc"}, zvkng |-> {"zvkn", "zvkg"},
  zvks |-> {"zvksed", "zvksh", "zvkb", "zvkt"},
  zvksc |-> {"zvks", "zvbc"}, zvksg |-> {"zvks", "zvkg"} ]

\* One pass over each table. The passes are repeated until one changes nothing.
Imply(xlen, s) ==
  s \cup (UNION { Implied[x] : x \in s \cap DOMAIN Implied }) \cup ImpliedIf(xlen, s)

Combine(s) == s \cup { x \in DOMAIN Combined : Combined[x] \subseteq s }

\* No chain of the tables is longer than 16 (from zvl65536b down to zvl32b).
Imply4(xlen, s) == Imply(xlen, Imply(xlen, Imply(xlen, Imply(xlen, s))))

(* Mutant: the table is passed over once.                                  *)
ApplyOnce(xlen, s) == Imply(xlen, s)

ApplyImplied(xlen, s) == Imply4(xlen, Imply4(xlen, Imply4(xlen, Imply4(xlen, s))))

Combine2(s) == Combine(Combine(s))
ApplyCombined(s) == Combine2(Combine2(s))

\* The extensions named by the -march string.
March(xlen, exts) == ApplyCombined(ApplyImplied(xlen, exts \cup {"zicsr"}))

VectorFamily == {"v", "zve32x", "zve64x", "zve32f", "zve64f", "zve64d",
                 "zvl32b", "zvl64b", "zvl128b", "zvfh"}

Invalid(xlen, s) ==
  \/ "h" \in s /\ "i" \notin s
  \/ "q" \in s /\ ~ {"d", "f"} \subseteq s
  \/ xlen = 64 /\ "zcf" \in s
  \/ /\ "c" \in s
     /\ \/ "zca" \notin s
        \/ xlen = 32 /\ "f" \in s /\ "zcf" \notin s
        \/ "d" \in s /\ "zcd" \notin s
  \/ "zcd" \in s /\ {"zcmp", "zcmt"} \cap s # {}
  \/ "zfinx" \in s /\ "f" \in s
  \/ "xtheadvector" \in s /\ VectorFamily \cap s # {}

\* Neither enumeration has a variant E, the other base of the builder.
MarchFails(xlen, exts) ==
  \/ exts = {}
  \/ exts \cap Unsupported # {}
  \/ "i" \notin exts
  \/ Invalid(xlen, March(xlen, exts))

(***************************************************************************)
(* -mabi looks only at the extensions that were asked for.                 *)
(***************************************************************************)
MabiFails(exts) ==
  \/ "i" \notin exts
  \/ "q" \in exts /\ "d" \notin exts
  \/ "d" \in exts /\ "f" \notin exts

(***************************************************************************)
(* Spike's ISA string.                                                     *)
(***************************************************************************)
SpikeImplied == [
  b |-> {"zba", "zbb", "zbs"}, d |-> {"f"}, f |-> {"zfa"}, q |-> {"d", "f"},
  zfh |-> {"f"}, zks |-> {"zbkb", "zbkx"},
  zkn |-> {"zbkb", "zbkx", "zknd", "zkne", "zknh"}, zvks |-> {"zvbb"},
  zacas |-> {"zaamo"}, zabha |-> {"zaamo"}, zawrs |-> {"zalrsc"},
  zicfiss |-> {"zimop"} ]

SpikeImply(s) ==
  s \cup (UNION { SpikeImplied[x] : x \in s \cap DOMAIN SpikeImplied })
    \cup (IF {"zba", "zbb", "zbs"} \subseteq s THEN {"b"} ELSE {})

SpikeImply2(s) == SpikeImply(SpikeImply(s))
SpikeApplyImplications(s) == SpikeImply2(SpikeImply2(s))

\* D stays only if it was asked for, or if something needs it.
SpikeIsa(exts) ==
  LET s == SpikeApplyImplications(exts \cup {"zicsr"})
  IN  (IF "d" \notin exts /\ {"q", "zve64d"} \cap s = {} THEN s \ {"d"} ELSE s)
        \cup {"zicntr"}

SpikeInvalid(xlen, s) ==
  \/ xlen = 64 /\ {"zcf", "zilsd"} \cap s # {}
  \/ {"zfbfmin", "zcf"} \cap s # {} /\ "f" \notin s
  \/ {"zvfbfmin", "zvfbfwma"} \cap s # {} /\ "v" \notin s
  \/ "zcd" \in s /\ ("d" \notin s \/ "zcmp" \in s)
  \/ {"zacas", "zabha"} \cap s # {} /\ "zaamo" \notin s
  \/ "zawrs" \in s /\ "zalrsc" \notin s

SpikeIsaFails(xlen, exts) ==
  "i" \notin exts \/ SpikeInvalid(xlen, SpikeIsa(exts))
=============================================================================
