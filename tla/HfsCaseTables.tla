--------------------------- MODULE HfsCaseTables ---------------------------
(***************************************************************************)
(* The tables for comparing names (include/hfs_CaseTables.h), as they are  *)
(* compiled in: runs <<type, count, data>>, unpacked on first use          *)
(* (lib/hfs/hfs_compare.c).                                                *)
(***************************************************************************)
EXTENDS Integers, SequencesExt

kTypeAscending == 1
kTypeAscending256 == 2

gLowerCaseTableCompressed == <<
    <<0, 1, 256>>, <<0, 1, 512>>, <<0, 1, 0>>, <<0, 1, 768>>, <<0, 1, 1024>>, <<0, 1, 1280>>,
    <<0, 10, 0>>, <<0, 1, 1536>>, <<0, 15, 0>>, <<0, 1, 1792>>, <<0, 1, 2048>>, <<0, 220, 0>>,
    <<0, 1, 2304>>, <<0, 1, 2560>>, <<0, 1, 65535>>, <<1, 64, 1>>, <<1, 26, 97>>, <<1, 107, 91>>,
    <<0, 1, 230>>, <<1, 9, 199>>, <<0, 1, 240>>, <<1, 7, 209>>, <<0, 1, 248>>, <<1, 5, 217>>,
    <<0, 1, 254>>, <<1, 49, 223>>, <<0, 2, 273>>, <<1, 20, 274>>, <<0, 2, 295>>, <<1, 10, 296>>,
    <<0, 2, 307>>, <<1, 11, 308>>, <<0, 2, 320>>, <<0, 2, 322>>, <<1, 7, 323>>, <<0, 2, 331>>,
    <<1, 6, 332>>, <<0, 2, 339>>, <<1, 18, 340>>, <<0, 2, 359>>, <<1, 25, 360>>, <<0, 1, 595>>,
    <<0, 2, 387>>, <<0, 2, 389>>, <<0, 1, 596>>, <<0, 2, 392>>, <<1, 2, 598>>, <<0, 2, 396>>,
    <<0, 1, 397>>, <<0, 1, 477>>, <<0, 1, 601>>, <<0, 1, 603>>, <<0, 2, 402>>, <<0, 1, 608>>,
    <<0, 1, 611>>, <<0, 1, 405>>, <<0, 1, 617>>, <<0, 1, 616>>, <<0, 2, 409>>, <<1, 2, 410>>,
    <<0, 1, 623>>, <<0, 1, 626>>, <<0, 1, 414>>, <<0, 1, 629>>, <<1, 2, 416>>, <<0, 2, 419>>,
    <<0, 2, 421>>, <<0, 1, 422>>, <<0, 2, 424>>, <<0, 1, 643>>, <<1, 2, 426>>, <<0, 2, 429>>,
    <<0, 1, 648>>, <<1, 2, 431>>, <<1, 2, 650>>, <<0, 2, 436>>, <<0, 2, 438>>, <<0, 1, 658>>,
    <<0, 2, 441>>, <<1, 2, 442>>, <<0, 2, 445>>, <<1, 6, 446>>, <<0, 3, 454>>, <<0, 3, 457>>,
    <<0, 3, 460>>, <<1, 23, 461>>, <<0, 2, 485>>, <<1, 11, 486>>, <<0, 3, 499>>, <<1, 12, 500>>,
    <<1, 145, 768>>, <<1, 17, 945>>, <<0, 1, 930>>, <<1, 7, 963>>, <<1, 56, 938>>, <<0, 2, 995>>,
    <<0, 2, 997>>, <<0, 2, 999>>, <<0, 2, 1001>>, <<0, 2, 1003>>, <<0, 2, 1005>>, <<0, 2, 1007>>,
    <<1, 18, 1008>>, <<0, 1, 1106>>, <<0, 1, 1027>>, <<1, 3, 1108>>, <<0, 1, 1031>>,
    <<1, 4, 1112>>, <<1, 3, 1036>>, <<0, 1, 1119>>, <<1, 9, 1072>>, <<0, 1, 1049>>,
    <<1, 22, 1082>>, <<1, 48, 1072>>, <<0, 2, 1121>>, <<0, 2, 1123>>, <<0, 2, 1125>>,
    <<0, 2, 1127>>, <<0, 2, 1129>>, <<0, 2, 1131>>, <<0, 2, 1133>>, <<0, 2, 1135>>, <<0, 2, 1137>>,
    <<0, 2, 1139>>, <<0, 2, 1141>>, <<1, 2, 1142>>, <<0, 2, 1145>>, <<0, 2, 1147>>, <<0, 2, 1149>>,
    <<0, 2, 1151>>, <<0, 2, 1153>>, <<1, 14, 1154>>, <<0, 2, 1169>>, <<0, 2, 1171>>,
    <<0, 2, 1173>>, <<0, 2, 1175>>, <<0, 2, 1177>>, <<0, 2, 1179>>, <<0, 2, 1181>>, <<0, 2, 1183>>,
    <<0, 2, 1185>>, <<0, 2, 1187>>, <<0, 2, 1189>>, <<0, 2, 1191>>, <<0, 2, 1193>>, <<0, 2, 1195>>,
    <<0, 2, 1197>>, <<0, 2, 1199>>, <<0, 2, 1201>>, <<0, 2, 1203>>, <<0, 2, 1205>>, <<0, 2, 1207>>,
    <<0, 2, 1209>>, <<0, 2, 1211>>, <<0, 2, 1213>>, <<0, 2, 1215>>, <<1, 3, 1216>>, <<0, 2, 1220>>,
    <<1, 2, 1221>>, <<0, 2, 1224>>, <<1, 2, 1225>>, <<0, 2, 1228>>, <<1, 100, 1229>>,
    <<1, 38, 1377>>, <<1, 169, 1367>>, <<1, 160, 4096>>, <<1, 38, 4304>>, <<1, 58, 4294>>,
    <<1, 12, 8192>>, <<0, 4, 0>>, <<1, 26, 8208>>, <<0, 5, 0>>, <<1, 59, 8239>>, <<0, 6, 0>>,
    <<1, 240, 8304>>, <<1, 16, 8560>>, <<1, 144, 8560>>, <<1, 255, 65024>>, <<0, 1, 0>>,
    <<1, 33, 65280>>, <<1, 26, 65345>>, <<1, 197, 65339>> >>

kLowerCaseTableNBlocks == 182

gCompareTableCompressed == <<
    <<2, 96, 0>>, <<0, 1, 16768>>, <<2, 26, 16640>>, <<2, 5, 31488>>, <<0, 1, 16648>>,
    <<0, 1, 16652>>, <<0, 1, 17168>>, <<0, 1, 17666>>, <<0, 1, 19978>>, <<0, 1, 20232>>,
    <<0, 1, 21768>>, <<0, 1, 16770>>, <<0, 1, 16644>>, <<0, 1, 16774>>, <<0, 1, 16648>>,
    <<0, 1, 16650>>, <<0, 1, 16652>>, <<0, 1, 17168>>, <<0, 1, 17666>>, <<0, 1, 17796>>,
    <<0, 1, 17798>>, <<0, 1, 17800>>, <<0, 1, 18818>>, <<0, 1, 18820>>, <<0, 1, 18822>>,
    <<0, 1, 18824>>, <<0, 1, 19978>>, <<0, 1, 20354>>, <<0, 1, 20356>>, <<0, 1, 20358>>,
    <<0, 1, 20232>>, <<0, 1, 20234>>, <<0, 1, 21890>>, <<0, 1, 21892>>, <<0, 1, 21894>>,
    <<0, 1, 21768>>, <<2, 7, 40960>>, <<0, 1, 21378>>, <<2, 6, 43008>>, <<0, 1, 16660>>,
    <<0, 1, 20238>>, <<2, 11, 45056>>, <<0, 1, 16786>>, <<0, 1, 20370>>, <<0, 1, 48384>>,
    <<0, 1, 16660>>, <<0, 1, 20238>>, <<2, 7, 49152>>, <<0, 1, 8710>>, <<0, 1, 8712>>,
    <<0, 1, 51456>>, <<0, 1, 8192>>, <<0, 1, 16644>>, <<0, 1, 16650>>, <<0, 1, 20234>>,
    <<0, 2, 20244>>, <<2, 2, 53248>>, <<0, 1, 8706>>, <<0, 1, 8708>>, <<0, 1, 9986>>,
    <<0, 1, 9988>>, <<2, 2, 54784>>, <<0, 1, 22920>>, <<2, 39, 55552>> >>

kCompareTableNBlocks == 255

Run(b) ==
    LET step == CASE b[1] = kTypeAscending -> 1
                  [] b[1] = kTypeAscending256 -> 256
                  [] OTHER -> 0
    IN  [j \in 1 .. b[2] |-> (b[3] + (j - 1) * step) % 2 ^ 16]

\* The runs one after the other; joined by halves, which TLC nests less deeply.
UncompressStructure(blocks) ==
    LET out[i \in 1 .. Len(blocks), j \in 1 .. Len(blocks)] ==
            LET m == (i + j) \div 2
            IN  IF i = j THEN Run(blocks[i]) ELSE out[i, m] \o out[m + 1, j]
    IN  out[1, Len(blocks)]

gLowerCaseTable == UncompressStructure(SubSeq(gLowerCaseTableCompressed, 1, kLowerCaseTableNBlocks))

\* Reading on after the last block finds what the linker put there: runs that
\* are empty, say, or that have a word each.
CompareTables ==
    LET rest == 1 .. kCompareTableNBlocks - Len(gCompareTableCompressed)
    IN  <<UncompressStructure(gCompareTableCompressed \o [i \in rest |-> <<0, 0, 0>>]),
          UncompressStructure(gCompareTableCompressed \o [i \in rest |-> <<0, 1, 66>>])>>
=============================================================================
