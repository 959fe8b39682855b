----------------------------- MODULE SmuTables -----------------------------
(***************************************************************************)
(* What the Ryzen SMU driver knows of each processor: its codename from    *)
(* CPUID, the mailboxes it has, the commands that fetch its power-metrics  *)
(* (PM) table and the size of that table (smu.c).                          *)
(***************************************************************************)
EXTENDS Integers

UNDEFINED == "UNDEFINED"

\* Family 0x17: Zen, Zen+ and Zen2; the package tells some of them apart.
ZenClass(model, pkg) ==
  CASE model = \h01 -> (IF pkg = 7 THEN "THREADRIPPER"
                        ELSE IF pkg = 4 THEN "NAPLES" ELSE "SUMMITRIDGE")
    [] model = \h08 -> (IF pkg \in {4, 7} THEN "COLFAX" ELSE "PINNACLERIDGE")
    [] model = \h11 -> "RAVENRIDGE"
    [] model = \h18 -> (IF pkg = 2 THEN "RAVENRIDGE2" ELSE "PICASSO")
    [] model = \h20 -> "DALI"
    [] model = \h31 -> "CASTLEPEAK"
    [] model = \h60 -> "RENOIR"
    [] model = \h68 -> "LUCIENNE"
    [] model = \h71 -> "MATISSE"
    [] model = \h90 -> "VANGOGH"
    [] OTHER -> UNDEFINED

\* Family 0x19: Zen3 and Zen4.
Zen3Class(model) ==
  CASE model = \h01 -> "MILAN"
    [] model = \h08 -> "CHAGALL"
    [] model = \h18 -> "STORMPEAK"
    [] model \in {\h20, \h21} -> "VERMEER"
    [] model \in {\h40, \h44} -> "REMBRANDT"
    [] model = \h50 -> "CEZANNE"
    [] model = \h61 -> "RAPHAEL"
    [] model = \h74 -> "PHOENIX"
    [] model = \h75 -> "HAWKPOINT"
    [] OTHER -> UNDEFINED

\* Family 0x1a: Zen5.
Zen5Class(model) ==
  CASE model = \h24 -> "STRIXPOINT"
    [] model = \h44 -> "GRANITERIDGE"
    [] model = \h70 -> "STRIXHALO"
    [] OTHER -> UNDEFINED

ResolveCpuClass(cpu) ==
  CASE cpu.family = \h17 -> ZenClass(cpu.model, cpu.pkg)
    [] cpu.family = \h19 -> Zen3Class(cpu.model)
    [] cpu.family = \h1a -> Zen5Class(cpu.model)
    [] OTHER -> UNDEFINED

----------------------------------------------------------------------------
(* Groups of codenames that the switches of smu.c treat alike.             *)

Zen1Desktop == {"NAPLES", "SUMMITRIDGE", "THREADRIPPER"}
ZenPlusDesktop == {"COLFAX", "PINNACLERIDGE"}
Raven == {"PICASSO", "RAVENRIDGE", "RAVENRIDGE2"}
Zen2Desktop == {"CASTLEPEAK", "MATISSE", "VERMEER", "MILAN", "CHAGALL"}
Zen4Desktop == {"RAPHAEL", "GRANITERIDGE", "STORMPEAK"}
Zen2Mobile == {"RENOIR", "LUCIENNE", "CEZANNE"}
Zen4Mobile == {"REMBRANDT", "PHOENIX", "STRIXPOINT", "STRIXHALO", "HAWKPOINT"}

\* The switches of smu_init, in their order: which mailboxes are defined.
HasRSMU(c) ==
  c \in Zen2Desktop \cup Zen4Desktop \cup Zen1Desktop \cup ZenPlusDesktop
        \cup Zen2Mobile \cup Zen4Mobile \cup Raven \cup {"DALI"}

HasHSMP(c) == c \in Zen2Desktop \cup Zen4Desktop

\* The MP1 interface version is IF_VERSION_<n>.
Mp1IfVersion(c) ==
  CASE c \in Zen1Desktop \cup ZenPlusDesktop -> 9
    [] c \in Raven \cup {"DALI"} -> 10
    [] c \in Zen2Desktop \cup Zen4Desktop -> 11
    [] c \in Zen2Mobile -> 12
    [] c \in {"VANGOGH"} \cup Zen4Mobile -> 13
    [] OTHER -> 0

Defined(c) ==
  (IF HasRSMU(c) THEN {"RSMU"} ELSE {}) \cup (IF HasHSMP(c) THEN {"HSMP"} ELSE {})
    \cup (IF Mp1IfVersion(c) # 0 THEN {"MP1"} ELSE {})

\* The commands that ask for the address of the PM table; the last one that
\* runs gives it.  None: the processor is not supported.
DramBaseCmds(c) ==
  CASE c \in Zen1Desktop -> <<\h0a>>
    [] c \in Zen2Desktop -> <<\h06>>
    [] c \in Zen4Desktop -> <<\h04>>
    [] c \in Zen2Mobile \cup Zen4Mobile -> <<\h66>>
    [] c \in ZenPlusDesktop -> <<\h0b, \h0c>>
    [] c \in Raven \cup {"DALI"} -> <<\h0a, \h0b, \h3d, \h0a, \h0b>>
    [] OTHER -> <<>>

NoCmd == 0

\* smu_transfer_table_to_dram.
TransferCmd(c) ==
  CASE c \in Zen1Desktop -> \h0a
    [] c \in Zen2Desktop -> \h05
    [] c \in Zen4Desktop -> \h03
    [] c \in Zen2Mobile \cup Zen4Mobile -> \h65
    [] c \in ZenPlusDesktop \cup Raven -> \h3d
    [] OTHER -> NoCmd

\* smu_transfer_2nd_table_to_dram.
Transfer2ndCmd(c) == IF c \in ZenPlusDesktop \cup Raven THEN \h3d ELSE NoCmd

\* smu_get_pm_table_version.
VersionCmd(c) ==
  CASE c \in {"RAVENRIDGE", "PICASSO"} -> \h0c
    [] c \in Zen2Desktop -> \h08
    [] c \in Zen4Desktop -> \h05
    [] c \in Zen2Mobile \cup Zen4Mobile -> \h06
    [] OTHER -> NoCmd

\* The processors whose table has a size that depends on its version, for
\* smu_read_pm_table: CASTLEPEAK is missing.
AsksVersion(c) ==
  c \in (Zen2Desktop \ {"CASTLEPEAK"}) \cup Zen4Desktop \cup Zen2Mobile \cup Zen4Mobile

----------------------------------------------------------------------------
(* smu_update_pmtable_size: pairs of a version and a size in bytes.        *)

PM_TABLE_MAX_SIZE == \h1AB0

MatisseSizes ==
  { <<\h240003, \h18AC>>, <<\h240503, \hD7C>>, <<\h240603, \hAB0>>, <<\h240703, \h7E4>>,
    <<\h240802, \h7E0>>, <<\h240803, \h7E4>>, <<\h240902, \h514>>, <<\h240903, \h518>> }

VermeerSizes ==
  { <<\h2D0803, \h894>>, <<\h2D0903, \h594>>, <<\h380005, \h1BB0>>, <<\h380505, \hF30>>,
    <<\h380605, \hC10>>, <<\h380705, \h8F0>>, <<\h380804, \h8A4>>, <<\h380805, \h8F0>>,
    <<\h380904, \h5A4>>, <<\h380905, \h5D0>> }

RenoirSizes ==
  { <<\h370000, \h794>>, <<\h370001, \h884>>, <<\h370002, \h88C>>, <<\h370003, \h8AC>>,
    <<\h370005, \h8C8>> }

RaphaelSizes ==
  { <<\h000400, \h948>>, <<\h540000, \h828>>, <<\h540001, \h82C>>, <<\h540002, \h87C>>,
    <<\h540003, \h89C>>, <<\h540004, \h8BC>>, <<\h540005, \h8C8>>, <<\h540100, \h618>>,
    <<\h540101, \h61C>>, <<\h540102, \h66C>>, <<\h540103, \h68C>>, <<\h540104, \h6A8>>,
    <<\h540105, \h6B4>>, <<\h540108, \h6BC>>, <<\h540208, \h8D0>> }

PhoenixSizes ==
  { <<\h4C0003, \hB18>>, <<\h4C0004, \hB1C>>, <<\h4C0005, \hAF8>>, <<\h4C0006, \hAFC>>,
    <<\h4C0007, \hB00>>, <<\h4C0008, \hAF0>>, <<\h4C0009, \hB00>> }

StormpeakSizes ==
  { <<\h5C0002, \h1E3C>>, <<\h5C0003, \h1E48>>, <<\h5C0102, \h1A14>>, <<\h5C0103, \h1A20>>,
    <<\h5C0202, \h15EC>>, <<\h5C0203, \h15F8>>, <<\h5C0302, \hD9C>>, <<\h5C0303, \hDA8>>,
    <<\h5C0402, \h974>>, <<\h5C0403, \h980>> }

PmTableSizes(c) ==
  CASE c \in {"CASTLEPEAK", "MATISSE"} -> MatisseSizes
    [] c \in {"VERMEER", "CHAGALL"} -> VermeerSizes
    [] c = "MILAN" -> {<<\h2D0008, \h1AB0>>}
    [] c \in {"RENOIR", "LUCIENNE"} -> RenoirSizes
    [] c = "CEZANNE" -> {<<\h400005, \h944>>}
    [] c = "REMBRANDT" -> {<<\h450004, \hAA4>>, <<\h450005, \hAB0>>}
    [] c = "RAPHAEL" -> RaphaelSizes
    [] c = "GRANITERIDGE" -> {<<\h620105, \h724>>, <<\h620205, \h994>>}
    [] c \in {"PHOENIX", "HAWKPOINT"} -> PhoenixSizes
    [] c = "STRIXPOINT" -> {<<\h5D0008, \hD54>>, <<\h5D0009, \hD54>>}
    [] c = "STRIXHALO" -> {<<\h64020C, \hE50>>}
    [] c = "STORMPEAK" -> StormpeakSizes
    [] OTHER -> {}

\* The smaller table that Picasso and both Raven Ridges have besides.
AltSize(c) == IF c \in Raven THEN \hA4 ELSE 0

\* The whole size; 0 for a version that the table does not list.
PmTableSize(c, version) ==
  IF c \in Raven THEN \h608 + AltSize(c)
  ELSE IF \E e \in PmTableSizes(c) : e[1] = version
  THEN (CHOOSE e \in PmTableSizes(c) : e[1] = version)[2] ELSE 0
============================================================================
