--------------------------- MODULE HaproxyLiterals ---------------------------
(***************************************************************************)
(* The IP literal states of struct_haproxy_protocol_parser_execute        *)
(* (src/ext/utils/haproxy_protocol.c): every state the machine enters     *)
(* between "PROXY TCP4 " and the space after the destination address.     *)
(* Each definition holds the transitions of the states the generated file *)
(* lays out in one stretch of lines (its name gives their numbers); a     *)
(* state's tests on *p are the byte sets of its transitions, and a byte *)
(* no test matches leads to st0 (RagelDfa).                               *)
(*                                                                         *)
(* The source literal starts at st12, whose six targets all run the ip_s  *)
(* action (tr12..tr17); it ends at the space that runs tr35 (IPv4: only   *)
(* st19 and the last octet states st206..st209 take it) or tr281 (IPv6).  *)
(* The destination literal starts at st20 and runs no action.  The        *)
(* machine tracks, while it reads a group of digits, whether the group    *)
(* can still be an h16 of an IPv6 address, an octet of an embedded IPv4   *)
(* address, or both, and how many groups the address may still have.     *)
(***************************************************************************)
EXTENDS RagelDfa

SP == 32

SourceLiteralSt12to19 ==
  {EA(12, Dig(0, 0), 13, {"ip_s"}), EA(12, Dig(1, 1), 352, {"ip_s"}), EA(12, Dig(2, 2), 355, {"ip_s"}), EA(12, Dig(3, 9), 358, {"ip_s"}), EA(12, {COLON}, 359, {"ip_s"}), EA(12, HEXALPHA, 374, {"ip_s"}),
   E(13, {DOT}, 14), E(13, HEXDIG, 218), E(13, {COLON}, 221),
   E(14, Dig(0, 0), 15), E(14, Dig(1, 1), 214), E(14, Dig(2, 2), 216), E(14, Dig(3, 9), 215),
   E(15, {DOT}, 16),
   E(16, Dig(0, 0), 17), E(16, Dig(1, 1), 210), E(16, Dig(2, 2), 212), E(16, Dig(3, 9), 211),
   E(17, {DOT}, 18),
   E(18, Dig(0, 0), 19), E(18, Dig(1, 1), 206), E(18, Dig(2, 2), 208), E(18, Dig(3, 9), 207),
   EA(19, {SP}, 20, {"ipv4"})}

DestinationLiteralSt20to27 ==
  {E(20, Dig(0, 0), 21), E(20, Dig(1, 1), 183), E(20, Dig(2, 2), 186), E(20, Dig(3, 9), 189), E(20, {COLON}, 190), E(20, HEXALPHA, 205),
   E(21, {DOT}, 22), E(21, HEXDIG, 67), E(21, {COLON}, 70),
   E(22, Dig(0, 0), 23), E(22, Dig(1, 1), 63), E(22, Dig(2, 2), 65), E(22, Dig(3, 9), 64),
   E(23, {DOT}, 24),
   E(24, Dig(0, 0), 25), E(24, Dig(1, 1), 59), E(24, Dig(2, 2), 61), E(24, Dig(3, 9), 60),
   E(25, {DOT}, 26),
   E(26, Dig(0, 0), 27), E(26, Dig(1, 1), 55), E(26, Dig(2, 2), 57), E(26, Dig(3, 9), 56),
   E(27, {SP}, 28)}

DestinationLiteralSt55to67 ==
  {E(55, {SP}, 28), E(55, Dig(0, 9), 56),
   E(56, {SP}, 28), E(56, Dig(0, 9), 27),
   E(57, {SP}, 28), E(57, Dig(0, 4), 56), E(57, Dig(5, 5), 58), E(57, Dig(6, 9), 27),
   E(58, {SP}, 28), E(58, Dig(0, 5), 27),
   E(59, {DOT}, 26), E(59, Dig(0, 9), 60),
   E(60, {DOT}, 26), E(60, Dig(0, 9), 25),
   E(61, {DOT}, 26), E(61, Dig(0, 4), 60), E(61, Dig(5, 5), 62), E(61, Dig(6, 9), 25),
   E(62, {DOT}, 26), E(62, Dig(0, 5), 25),
   E(63, {DOT}, 24), E(63, Dig(0, 9), 64),
   E(64, {DOT}, 24), E(64, Dig(0, 9), 23),
   E(65, {DOT}, 24), E(65, Dig(0, 4), 64), E(65, Dig(5, 5), 66), E(65, Dig(6, 9), 23),
   E(66, {DOT}, 24), E(66, Dig(0, 5), 23),
   E(67, HEXDIG, 68), E(67, {COLON}, 70)}

DestinationLiteralSt68to78 ==
  {E(68, HEXDIG, 69), E(68, {COLON}, 70),
   E(69, {COLON}, 70),
   E(70, HEXDIG, 71), E(70, {COLON}, 169),
   E(71, HEXDIG, 72), E(71, {COLON}, 75),
   E(72, HEXDIG, 73), E(72, {COLON}, 75),
   E(73, HEXDIG, 74), E(73, {COLON}, 75),
   E(74, {COLON}, 75),
   E(75, HEXDIG, 76), E(75, {COLON}, 155),
   E(76, HEXDIG, 77), E(76, {COLON}, 80),
   E(77, HEXDIG, 78), E(77, {COLON}, 80),
   E(78, HEXDIG, 79), E(78, {COLON}, 80)}

DestinationLiteralSt79to89 ==
  {E(79, {COLON}, 80),
   E(80, HEXDIG, 81), E(80, {COLON}, 141),
   E(81, HEXDIG, 82), E(81, {COLON}, 85),
   E(82, HEXDIG, 83), E(82, {COLON}, 85),
   E(83, HEXDIG, 84), E(83, {COLON}, 85),
   E(84, {COLON}, 85),
   E(85, HEXDIG, 86), E(85, {COLON}, 127),
   E(86, HEXDIG, 87), E(86, {COLON}, 90),
   E(87, HEXDIG, 88), E(87, {COLON}, 90),
   E(88, HEXDIG, 89), E(88, {COLON}, 90),
   E(89, {COLON}, 90)}

DestinationLiteralSt90to99 ==
  {E(90, HEXDIG, 91), E(90, {COLON}, 113),
   E(91, HEXDIG, 92), E(91, {COLON}, 95),
   E(92, HEXDIG, 93), E(92, {COLON}, 95),
   E(93, HEXDIG, 94), E(93, {COLON}, 95),
   E(94, {COLON}, 95),
   E(95, Dig(0, 0), 96), E(95, Dig(1, 1), 104), E(95, Dig(2, 2), 107), E(95, Dig(3, 9), 110), E(95, {COLON}, 111), E(95, HEXALPHA, 112),
   E(96, {DOT}, 22), E(96, HEXDIG, 97), E(96, {COLON}, 100),
   E(97, HEXDIG, 98), E(97, {COLON}, 100),
   E(98, HEXDIG, 99), E(98, {COLON}, 100),
   E(99, {COLON}, 100)}

DestinationLiteralSt100to107 ==
  {E(100, HEXDIG, 101), E(100, {COLON}, 27),
   E(101, {SP}, 28), E(101, HEXDIG, 102),
   E(102, {SP}, 28), E(102, HEXDIG, 103),
   E(103, {SP}, 28), E(103, HEXDIG, 27),
   E(104, {DOT}, 22), E(104, Dig(0, 9), 105), E(104, {COLON}, 100), E(104, HEXALPHA, 97),
   E(105, {DOT}, 22), E(105, Dig(0, 9), 106), E(105, {COLON}, 100), E(105, HEXALPHA, 98),
   E(106, {DOT}, 22), E(106, HEXDIG, 99), E(106, {COLON}, 100),
   E(107, {DOT}, 22), E(107, Dig(0, 4), 105), E(107, Dig(5, 5), 108), E(107, Dig(6, 9), 109), E(107, {COLON}, 100), E(107, HEXALPHA, 97)}

DestinationLiteralSt108to115 ==
  {E(108, {DOT}, 22), E(108, Dig(0, 5), 106), E(108, Dig(6, 9) \cup HEXALPHA, 98), E(108, {COLON}, 100),
   E(109, {DOT}, 22), E(109, HEXDIG, 98), E(109, {COLON}, 100),
   E(110, {DOT}, 22), E(110, Dig(0, 9), 109), E(110, {COLON}, 100), E(110, HEXALPHA, 97),
   E(111, {SP}, 28), E(111, HEXDIG, 101),
   E(112, HEXDIG, 97), E(112, {COLON}, 100),
   E(113, {SP}, 28), E(113, Dig(0, 0), 114), E(113, Dig(1, 1), 119), E(113, Dig(2, 2), 122), E(113, Dig(3, 9), 125), E(113, HEXALPHA, 126),
   E(114, {SP}, 28), E(114, {DOT}, 22), E(114, HEXDIG, 115), E(114, {COLON}, 118),
   E(115, {SP}, 28), E(115, HEXDIG, 116), E(115, {COLON}, 118)}

DestinationLiteralSt116to123 ==
  {E(116, {SP}, 28), E(116, HEXDIG, 117), E(116, {COLON}, 118),
   E(117, {SP}, 28), E(117, {COLON}, 118),
   E(118, HEXDIG, 101),
   E(119, {SP}, 28), E(119, {DOT}, 22), E(119, Dig(0, 9), 120), E(119, {COLON}, 118), E(119, HEXALPHA, 115),
   E(120, {SP}, 28), E(120, {DOT}, 22), E(120, Dig(0, 9), 121), E(120, {COLON}, 118), E(120, HEXALPHA, 116),
   E(121, {SP}, 28), E(121, {DOT}, 22), E(121, HEXDIG, 117), E(121, {COLON}, 118),
   E(122, {SP}, 28), E(122, {DOT}, 22), E(122, Dig(0, 4), 120), E(122, Dig(5, 5), 123), E(122, Dig(6, 9), 124), E(122, {COLON}, 118), E(122, HEXALPHA, 115),
   E(123, {SP}, 28), E(123, {DOT}, 22), E(123, Dig(0, 5), 121), E(123, Dig(6, 9) \cup HEXALPHA, 116), E(123, {COLON}, 118)}

DestinationLiteralSt124to131 ==
  {E(124, {SP}, 28), E(124, {DOT}, 22), E(124, HEXDIG, 116), E(124, {COLON}, 118),
   E(125, {SP}, 28), E(125, {DOT}, 22), E(125, Dig(0, 9), 124), E(125, {COLON}, 118), E(125, HEXALPHA, 115),
   E(126, {SP}, 28), E(126, HEXDIG, 115), E(126, {COLON}, 118),
   E(127, {SP}, 28), E(127, Dig(0, 0), 128), E(127, Dig(1, 1), 133), E(127, Dig(2, 2), 136), E(127, Dig(3, 9), 139), E(127, HEXALPHA, 140),
   E(128, {SP}, 28), E(128, {DOT}, 22), E(128, HEXDIG, 129), E(128, {COLON}, 132),
   E(129, {SP}, 28), E(129, HEXDIG, 130), E(129, {COLON}, 132),
   E(130, {SP}, 28), E(130, HEXDIG, 131), E(130, {COLON}, 132),
   E(131, {SP}, 28), E(131, {COLON}, 132)}

DestinationLiteralSt132to138 ==
  {E(132, Dig(0, 0), 114), E(132, Dig(1, 1), 119), E(132, Dig(2, 2), 122), E(132, Dig(3, 9), 125), E(132, HEXALPHA, 126),
   E(133, {SP}, 28), E(133, {DOT}, 22), E(133, Dig(0, 9), 134), E(133, {COLON}, 132), E(133, HEXALPHA, 129),
   E(134, {SP}, 28), E(134, {DOT}, 22), E(134, Dig(0, 9), 135), E(134, {COLON}, 132), E(134, HEXALPHA, 130),
   E(135, {SP}, 28), E(135, {DOT}, 22), E(135, HEXDIG, 131), E(135, {COLON}, 132),
   E(136, {SP}, 28), E(136, {DOT}, 22), E(136, Dig(0, 4), 134), E(136, Dig(5, 5), 137), E(136, Dig(6, 9), 138), E(136, {COLON}, 132), E(136, HEXALPHA, 129),
   E(137, {SP}, 28), E(137, {DOT}, 22), E(137, Dig(0, 5), 135), E(137, Dig(6, 9) \cup HEXALPHA, 130), E(137, {COLON}, 132),
   E(138, {SP}, 28), E(138, {DOT}, 22), E(138, HEXDIG, 130), E(138, {COLON}, 132)}

DestinationLiteralSt139to146 ==
  {E(139, {SP}, 28), E(139, {DOT}, 22), E(139, Dig(0, 9), 138), E(139, {COLON}, 132), E(139, HEXALPHA, 129),
   E(140, {SP}, 28), E(140, HEXDIG, 129), E(140, {COLON}, 132),
   E(141, {SP}, 28), E(141, Dig(0, 0), 142), E(141, Dig(1, 1), 147), E(141, Dig(2, 2), 150), E(141, Dig(3, 9), 153), E(141, HEXALPHA, 154),
   E(142, {SP}, 28), E(142, {DOT}, 22), E(142, HEXDIG, 143), E(142, {COLON}, 146),
   E(143, {SP}, 28), E(143, HEXDIG, 144), E(143, {COLON}, 146),
   E(144, {SP}, 28), E(144, HEXDIG, 145), E(144, {COLON}, 146),
   E(145, {SP}, 28), E(145, {COLON}, 146),
   E(146, Dig(0, 0), 128), E(146, Dig(1, 1), 133), E(146, Dig(2, 2), 136), E(146, Dig(3, 9), 139), E(146, HEXALPHA, 140)}

DestinationLiteralSt147to154 ==
  {E(147, {SP}, 28), E(147, {DOT}, 22), E(147, Dig(0, 9), 148), E(147, {COLON}, 146), E(147, HEXALPHA, 143),
   E(148, {SP}, 28), E(148, {DOT}, 22), E(148, Dig(0, 9), 149), E(148, {COLON}, 146), E(148, HEXALPHA, 144),
   E(149, {SP}, 28), E(149, {DOT}, 22), E(149, HEXDIG, 145), E(149, {COLON}, 146),
   E(150, {SP}, 28), E(150, {DOT}, 22), E(150, Dig(0, 4), 148), E(150, Dig(5, 5), 151), E(150, Dig(6, 9), 152), E(150, {COLON}, 146), E(150, HEXALPHA, 143),
   E(151, {SP}, 28), E(151, {DOT}, 22), E(151, Dig(0, 5), 149), E(151, Dig(6, 9) \cup HEXALPHA, 144), E(151, {COLON}, 146),
   E(152, {SP}, 28), E(152, {DOT}, 22), E(152, HEXDIG, 144), E(152, {COLON}, 146),
   E(153, {SP}, 28), E(153, {DOT}, 22), E(153, Dig(0, 9), 152), E(153, {COLON}, 146), E(153, HEXALPHA, 143),
   E(154, {SP}, 28), E(154, HEXDIG, 143), E(154, {COLON}, 146)}

DestinationLiteralSt155to162 ==
  {E(155, {SP}, 28), E(155, Dig(0, 0), 156), E(155, Dig(1, 1), 161), E(155, Dig(2, 2), 164), E(155, Dig(3, 9), 167), E(155, HEXALPHA, 168),
   E(156, {SP}, 28), E(156, {DOT}, 22), E(156, HEXDIG, 157), E(156, {COLON}, 160),
   E(157, {SP}, 28), E(157, HEXDIG, 158), E(157, {COLON}, 160),
   E(158, {SP}, 28), E(158, HEXDIG, 159), E(158, {COLON}, 160),
   E(159, {SP}, 28), E(159, {COLON}, 160),
   E(160, Dig(0, 0), 142), E(160, Dig(1, 1), 147), E(160, Dig(2, 2), 150), E(160, Dig(3, 9), 153), E(160, HEXALPHA, 154),
   E(161, {SP}, 28), E(161, {DOT}, 22), E(161, Dig(0, 9), 162), E(161, {COLON}, 160), E(161, HEXALPHA, 157),
   E(162, {SP}, 28), E(162, {DOT}, 22), E(162, Dig(0, 9), 163), E(162, {COLON}, 160), E(162, HEXALPHA, 158)}

DestinationLiteralSt163to169 ==
  {E(163, {SP}, 28), E(163, {DOT}, 22), E(163, HEXDIG, 159), E(163, {COLON}, 160),
   E(164, {SP}, 28), E(164, {DOT}, 22), E(164, Dig(0, 4), 162), E(164, Dig(5, 5), 165), E(164, Dig(6, 9), 166), E(164, {COLON}, 160), E(164, HEXALPHA, 157),
   E(165, {SP}, 28), E(165, {DOT}, 22), E(165, Dig(0, 5), 163), E(165, Dig(6, 9) \cup HEXALPHA, 158), E(165, {COLON}, 160),
   E(166, {SP}, 28), E(166, {DOT}, 22), E(166, HEXDIG, 158), E(166, {COLON}, 160),
   E(167, {SP}, 28), E(167, {DOT}, 22), E(167, Dig(0, 9), 166), E(167, {COLON}, 160), E(167, HEXALPHA, 157),
   E(168, {SP}, 28), E(168, HEXDIG, 157), E(168, {COLON}, 160),
   E(169, {SP}, 28), E(169, Dig(0, 0), 170), E(169, Dig(1, 1), 175), E(169, Dig(2, 2), 178), E(169, Dig(3, 9), 181), E(169, HEXALPHA, 182)}

DestinationLiteralSt170to177 ==
  {E(170, {SP}, 28), E(170, {DOT}, 22), E(170, HEXDIG, 171), E(170, {COLON}, 174),
   E(171, {SP}, 28), E(171, HEXDIG, 172), E(171, {COLON}, 174),
   E(172, {SP}, 28), E(172, HEXDIG, 173), E(172, {COLON}, 174),
   E(173, {SP}, 28), E(173, {COLON}, 174),
   E(174, Dig(0, 0), 156), E(174, Dig(1, 1), 161), E(174, Dig(2, 2), 164), E(174, Dig(3, 9), 167), E(174, HEXALPHA, 168),
   E(175, {SP}, 28), E(175, {DOT}, 22), E(175, Dig(0, 9), 176), E(175, {COLON}, 174), E(175, HEXALPHA, 171),
   E(176, {SP}, 28), E(176, {DOT}, 22), E(176, Dig(0, 9), 177), E(176, {COLON}, 174), E(176, HEXALPHA, 172),
   E(177, {SP}, 28), E(177, {DOT}, 22), E(177, HEXDIG, 173), E(177, {COLON}, 174)}

DestinationLiteralSt178to185 ==
  {E(178, {SP}, 28), E(178, {DOT}, 22), E(178, Dig(0, 4), 176), E(178, Dig(5, 5), 179), E(178, Dig(6, 9), 180), E(178, {COLON}, 174), E(178, HEXALPHA, 171),
   E(179, {SP}, 28), E(179, {DOT}, 22), E(179, Dig(0, 5), 177), E(179, Dig(6, 9) \cup HEXALPHA, 172), E(179, {COLON}, 174),
   E(180, {SP}, 28), E(180, {DOT}, 22), E(180, HEXDIG, 172), E(180, {COLON}, 174),
   E(181, {SP}, 28), E(181, {DOT}, 22), E(181, Dig(0, 9), 180), E(181, {COLON}, 174), E(181, HEXALPHA, 171),
   E(182, {SP}, 28), E(182, HEXDIG, 171), E(182, {COLON}, 174),
   E(183, {DOT}, 22), E(183, Dig(0, 9), 184), E(183, {COLON}, 70), E(183, HEXALPHA, 67),
   E(184, {DOT}, 22), E(184, Dig(0, 9), 185), E(184, {COLON}, 70), E(184, HEXALPHA, 68),
   E(185, {DOT}, 22), E(185, HEXDIG, 69), E(185, {COLON}, 70)}

DestinationLiteralSt186to193 ==
  {E(186, {DOT}, 22), E(186, Dig(0, 4), 184), E(186, Dig(5, 5), 187), E(186, Dig(6, 9), 188), E(186, {COLON}, 70), E(186, HEXALPHA, 67),
   E(187, {DOT}, 22), E(187, Dig(0, 5), 185), E(187, Dig(6, 9) \cup HEXALPHA, 68), E(187, {COLON}, 70),
   E(188, {DOT}, 22), E(188, HEXDIG, 68), E(188, {COLON}, 70),
   E(189, {DOT}, 22), E(189, Dig(0, 9), 188), E(189, {COLON}, 70), E(189, HEXALPHA, 67),
   E(190, {COLON}, 191),
   E(191, {SP}, 28), E(191, Dig(0, 0), 192), E(191, Dig(1, 1), 197), E(191, Dig(2, 2), 200), E(191, Dig(3, 9), 203), E(191, HEXALPHA, 204),
   E(192, {SP}, 28), E(192, {DOT}, 22), E(192, HEXDIG, 193), E(192, {COLON}, 196),
   E(193, {SP}, 28), E(193, HEXDIG, 194), E(193, {COLON}, 196)}

DestinationLiteralSt194to201 ==
  {E(194, {SP}, 28), E(194, HEXDIG, 195), E(194, {COLON}, 196),
   E(195, {SP}, 28), E(195, {COLON}, 196),
   E(196, Dig(0, 0), 170), E(196, Dig(1, 1), 175), E(196, Dig(2, 2), 178), E(196, Dig(3, 9), 181), E(196, HEXALPHA, 182),
   E(197, {SP}, 28), E(197, {DOT}, 22), E(197, Dig(0, 9), 198), E(197, {COLON}, 196), E(197, HEXALPHA, 193),
   E(198, {SP}, 28), E(198, {DOT}, 22), E(198, Dig(0, 9), 199), E(198, {COLON}, 196), E(198, HEXALPHA, 194),
   E(199, {SP}, 28), E(199, {DOT}, 22), E(199, HEXDIG, 195), E(199, {COLON}, 196),
   E(200, {SP}, 28), E(200, {DOT}, 22), E(200, Dig(0, 4), 198), E(200, Dig(5, 5), 201), E(200, Dig(6, 9), 202), E(200, {COLON}, 196), E(200, HEXALPHA, 193),
   E(201, {SP}, 28), E(201, {DOT}, 22), E(201, Dig(0, 5), 199), E(201, Dig(6, 9) \cup HEXALPHA, 194), E(201, {COLON}, 196)}

DestinationLiteralSt202to205 ==
  {E(202, {SP}, 28), E(202, {DOT}, 22), E(202, HEXDIG, 194), E(202, {COLON}, 196),
   E(203, {SP}, 28), E(203, {DOT}, 22), E(203, Dig(0, 9), 202), E(203, {COLON}, 196), E(203, HEXALPHA, 193),
   E(204, {SP}, 28), E(204, HEXDIG, 193), E(204, {COLON}, 196),
   E(205, HEXDIG, 67), E(205, {COLON}, 70)}

SourceLiteralSt206to218 ==
  {EA(206, {SP}, 20, {"ipv4"}), E(206, Dig(0, 9), 207),
   EA(207, {SP}, 20, {"ipv4"}), E(207, Dig(0, 9), 19),
   EA(208, {SP}, 20, {"ipv4"}), E(208, Dig(0, 4), 207), E(208, Dig(5, 5), 209), E(208, Dig(6, 9), 19),
   EA(209, {SP}, 20, {"ipv4"}), E(209, Dig(0, 5), 19),
   E(210, {DOT}, 18), E(210, Dig(0, 9), 211),
   E(211, {DOT}, 18), E(211, Dig(0, 9), 17),
   E(212, {DOT}, 18), E(212, Dig(0, 4), 211), E(212, Dig(5, 5), 213), E(212, Dig(6, 9), 17),
   E(213, {DOT}, 18), E(213, Dig(0, 5), 17),
   E(214, {DOT}, 16), E(214, Dig(0, 9), 215),
   E(215, {DOT}, 16), E(215, Dig(0, 9), 15),
   E(216, {DOT}, 16), E(216, Dig(0, 4), 215), E(216, Dig(5, 5), 217), E(216, Dig(6, 9), 15),
   E(217, {DOT}, 16), E(217, Dig(0, 5), 15),
   E(218, HEXDIG, 219), E(218, {COLON}, 221)}

SourceLiteralSt219to229 ==
  {E(219, HEXDIG, 220), E(219, {COLON}, 221),
   E(220, {COLON}, 221),
   E(221, HEXDIG, 222), E(221, {COLON}, 338),
   E(222, HEXDIG, 223), E(222, {COLON}, 226),
   E(223, HEXDIG, 224), E(223, {COLON}, 226),
   E(224, HEXDIG, 225), E(224, {COLON}, 226),
   E(225, {COLON}, 226),
   E(226, HEXDIG, 227), E(226, {COLON}, 324),
   E(227, HEXDIG, 228), E(227, {COLON}, 231),
   E(228, HEXDIG, 229), E(228, {COLON}, 231),
   E(229, HEXDIG, 230), E(229, {COLON}, 231)}

SourceLiteralSt230to240 ==
  {E(230, {COLON}, 231),
   E(231, HEXDIG, 232), E(231, {COLON}, 310),
   E(232, HEXDIG, 233), E(232, {COLON}, 236),
   E(233, HEXDIG, 234), E(233, {COLON}, 236),
   E(234, HEXDIG, 235), E(234, {COLON}, 236),
   E(235, {COLON}, 236),
   E(236, HEXDIG, 237), E(236, {COLON}, 296),
   E(237, HEXDIG, 238), E(237, {COLON}, 241),
   E(238, HEXDIG, 239), E(238, {COLON}, 241),
   E(239, HEXDIG, 240), E(239, {COLON}, 241),
   E(240, {COLON}, 241)}

SourceLiteralSt241to251 ==
  {E(241, HEXDIG, 242), E(241, {COLON}, 282),
   E(242, HEXDIG, 243), E(242, {COLON}, 246),
   E(243, HEXDIG, 244), E(243, {COLON}, 246),
   E(244, HEXDIG, 245), E(244, {COLON}, 246),
   E(245, {COLON}, 246),
   E(246, Dig(0, 0), 247), E(246, Dig(1, 1), 273), E(246, Dig(2, 2), 276), E(246, Dig(3, 9), 279), E(246, {COLON}, 280), E(246, HEXALPHA, 281),
   E(247, {DOT}, 248), E(247, HEXDIG, 266), E(247, {COLON}, 269),
   E(248, Dig(0, 0), 249), E(248, Dig(1, 1), 262), E(248, Dig(2, 2), 264), E(248, Dig(3, 9), 263),
   E(249, {DOT}, 250),
   E(250, Dig(0, 0), 251), E(250, Dig(1, 1), 258), E(250, Dig(2, 2), 260), E(250, Dig(3, 9), 259),
   E(251, {DOT}, 252)}

SourceLiteralSt252to265 ==
  {E(252, Dig(0, 0), 253), E(252, Dig(1, 1), 254), E(252, Dig(2, 2), 256), E(252, Dig(3, 9), 255),
   EA(253, {SP}, 20, {"ipv6"}),
   EA(254, {SP}, 20, {"ipv6"}), E(254, Dig(0, 9), 255),
   EA(255, {SP}, 20, {"ipv6"}), E(255, Dig(0, 9), 253),
   EA(256, {SP}, 20, {"ipv6"}), E(256, Dig(0, 4), 255), E(256, Dig(5, 5), 257), E(256, Dig(6, 9), 253),
   EA(257, {SP}, 20, {"ipv6"}), E(257, Dig(0, 5), 253),
   E(258, {DOT}, 252), E(258, Dig(0, 9), 259),
   E(259, {DOT}, 252), E(259, Dig(0, 9), 251),
   E(260, {DOT}, 252), E(260, Dig(0, 4), 259), E(260, Dig(5, 5), 261), E(260, Dig(6, 9), 251),
   E(261, {DOT}, 252), E(261, Dig(0, 5), 251),
   E(262, {DOT}, 250), E(262, Dig(0, 9), 263),
   E(263, {DOT}, 250), E(263, Dig(0, 9), 249),
   E(264, {DOT}, 250), E(264, Dig(0, 4), 263), E(264, Dig(5, 5), 265), E(264, Dig(6, 9), 249),
   E(265, {DOT}, 250), E(265, Dig(0, 5), 249)}

SourceLiteralSt266to275 ==
  {E(266, HEXDIG, 267), E(266, {COLON}, 269),
   E(267, HEXDIG, 268), E(267, {COLON}, 269),
   E(268, {COLON}, 269),
   E(269, HEXDIG, 270), E(269, {COLON}, 253),
   EA(270, {SP}, 20, {"ipv6"}), E(270, HEXDIG, 271),
   EA(271, {SP}, 20, {"ipv6"}), E(271, HEXDIG, 272),
   EA(272, {SP}, 20, {"ipv6"}), E(272, HEXDIG, 253),
   E(273, {DOT}, 248), E(273, Dig(0, 9), 274), E(273, {COLON}, 269), E(273, HEXALPHA, 266),
   E(274, {DOT}, 248), E(274, Dig(0, 9), 275), E(274, {COLON}, 269), E(274, HEXALPHA, 267),
   E(275, {DOT}, 248), E(275, HEXDIG, 268), E(275, {COLON}, 269)}

SourceLiteralSt276to283 ==
  {E(276, {DOT}, 248), E(276, Dig(0, 4), 274), E(276, Dig(5, 5), 277), E(276, Dig(6, 9), 278), E(276, {COLON}, 269), E(276, HEXALPHA, 266),
   E(277, {DOT}, 248), E(277, Dig(0, 5), 275), E(277, Dig(6, 9) \cup HEXALPHA, 267), E(277, {COLON}, 269),
   E(278, {DOT}, 248), E(278, HEXDIG, 267), E(278, {COLON}, 269),
   E(279, {DOT}, 248), E(279, Dig(0, 9), 278), E(279, {COLON}, 269), E(279, HEXALPHA, 266),
   EA(280, {SP}, 20, {"ipv6"}), E(280, HEXDIG, 270),
   E(281, HEXDIG, 266), E(281, {COLON}, 269),
   EA(282, {SP}, 20, {"ipv6"}), E(282, Dig(0, 0), 283), E(282, Dig(1, 1), 288), E(282, Dig(2, 2), 291), E(282, Dig(3, 9), 294), E(282, HEXALPHA, 295),
   EA(283, {SP}, 20, {"ipv6"}), E(283, {DOT}, 248), E(283, HEXDIG, 284), E(283, {COLON}, 287)}

SourceLiteralSt284to291 ==
  {EA(284, {SP}, 20, {"ipv6"}), E(284, HEXDIG, 285), E(284, {COLON}, 287),
   EA(285, {SP}, 20, {"ipv6"}), E(285, HEXDIG, 286), E(285, {COLON}, 287),
   EA(286, {SP}, 20, {"ipv6"}), E(286, {COLON}, 287),
   E(287, HEXDIG, 270),
   EA(288, {SP}, 20, {"ipv6"}), E(288, {DOT}, 248), E(288, Dig(0, 9), 289), E(288, {COLON}, 287), E(288, HEXALPHA, 284),
   EA(289, {SP}, 20, {"ipv6"}), E(289, {DOT}, 248), E(289, Dig(0, 9), 290), E(289, {COLON}, 287), E(289, HEXALPHA, 285),
   EA(290, {SP}, 20, {"ipv6"}), E(290, {DOT}, 248), E(290, HEXDIG, 286), E(290, {COLON}, 287),
   EA(291, {SP}, 20, {"ipv6"}), E(291, {DOT}, 248), E(291, Dig(0, 4), 289), E(291, Dig(5, 5), 292), E(291, Dig(6, 9), 293), E(291, {COLON}, 287), E(291, HEXALPHA, 284)}

SourceLiteralSt292to299 ==
  {EA(292, {SP}, 20, {"ipv6"}), E(292, {DOT}, 248), E(292, Dig(0, 5), 290), E(292, Dig(6, 9) \cup HEXALPHA, 285), E(292, {COLON}, 287),
   EA(293, {SP}, 20, {"ipv6"}), E(293, {DOT}, 248), E(293, HEXDIG, 285), E(293, {COLON}, 287),
   EA(294, {SP}, 20, {"ipv6"}), E(294, {DOT}, 248), E(294, Dig(0, 9), 293), E(294, {COLON}, 287), E(294, HEXALPHA, 284),
   EA(295, {SP}, 20, {"ipv6"}), E(295, HEXDIG, 284), E(295, {COLON}, 287),
   EA(296, {SP}, 20, {"ipv6"}), E(296, Dig(0, 0), 297), E(296, Dig(1, 1), 302), E(296, Dig(2, 2), 305), E(296, Dig(3, 9), 308), E(296, HEXALPHA, 309),
   EA(297, {SP}, 20, {"ipv6"}), E(297, {DOT}, 248), E(297, HEXDIG, 298), E(297, {COLON}, 301),
   EA(298, {SP}, 20, {"ipv6"}), E(298, HEXDIG, 299), E(298, {COLON}, 301),
   EA(299, {SP}, 20, {"ipv6"}), E(299, HEXDIG, 300), E(299, {COLON}, 301)}

SourceLiteralSt300to307 ==
  {EA(300, {SP}, 20, {"ipv6"}), E(300, {COLON}, 301),
   E(301, Dig(0, 0), 283), E(301, Dig(1, 1), 288), E(301, Dig(2, 2), 291), E(301, Dig(3, 9), 294), E(301, HEXALPHA, 295),
   EA(302, {SP}, 20, {"ipv6"}), E(302, {DOT}, 248), E(302, Dig(0, 9), 303), E(302, {COLON}, 301), E(302, HEXALPHA, 298),
   EA(303, {SP}, 20, {"ipv6"}), E(303, {DOT}, 248), E(303, Dig(0, 9), 304), E(303, {COLON}, 301), E(303, HEXALPHA, 299),
   EA(304, {SP}, 20, {"ipv6"}), E(304, {DOT}, 248), E(304, HEXDIG, 300), E(304, {COLON}, 301),
   EA(305, {SP}, 20, {"ipv6"}), E(305, {DOT}, 248), E(305, Dig(0, 4), 303), E(305, Dig(5, 5), 306), E(305, Dig(6, 9), 307), E(305, {COLON}, 301), E(305, HEXALPHA, 298),
   EA(306, {SP}, 20, {"ipv6"}), E(306, {DOT}, 248), E(306, Dig(0, 5), 304), E(306, Dig(6, 9) \cup HEXALPHA, 299), E(306, {COLON}, 301),
   EA(307, {SP}, 20, {"ipv6"}), E(307, {DOT}, 248), E(307, HEXDIG, 299), E(307, {COLON}, 301)}

SourceLiteralSt308to315 ==
  {EA(308, {SP}, 20, {"ipv6"}), E(308, {DOT}, 248), E(308, Dig(0, 9), 307), E(308, {COLON}, 301), E(308, HEXALPHA, 298),
   EA(309, {SP}, 20, {"ipv6"}), E(309, HEXDIG, 298), E(309, {COLON}, 301),
   EA(310, {SP}, 20, {"ipv6"}), E(310, Dig(0, 0), 311), E(310, Dig(1, 1), 316), E(310, Dig(2, 2), 319), E(310, Dig(3, 9), 322), E(310, HEXALPHA, 323),
   EA(311, {SP}, 20, {"ipv6"}), E(311, {DOT}, 248), E(311, HEXDIG, 312), E(311, {COLON}, 315),
   EA(312, {SP}, 20, {"ipv6"}), E(312, HEXDIG, 313), E(312, {COLON}, 315),
   EA(313, {SP}, 20, {"ipv6"}), E(313, HEXDIG, 314), E(313, {COLON}, 315),
   EA(314, {SP}, 20, {"ipv6"}), E(314, {COLON}, 315),
   E(315, Dig(0, 0), 297), E(315, Dig(1, 1), 302), E(315, Dig(2, 2), 305), E(315, Dig(3, 9), 308), E(315, HEXALPHA, 309)}

SourceLiteralSt316to323 ==
  {EA(316, {SP}, 20, {"ipv6"}), E(316, {DOT}, 248), E(316, Dig(0, 9), 317), E(316, {COLON}, 315), E(316, HEXALPHA, 312),
   EA(317, {SP}, 20, {"ipv6"}), E(317, {DOT}, 248), E(317, Dig(0, 9), 318), E(317, {COLON}, 315), E(317, HEXALPHA, 313),
   EA(318, {SP}, 20, {"ipv6"}), E(318, {DOT}, 248), E(318, HEXDIG, 314), E(318, {COLON}, 315),
   EA(319, {SP}, 20, {"ipv6"}), E(319, {DOT}, 248), E(319, Dig(0, 4), 317), E(319, Dig(5, 5), 320), E(319, Dig(6, 9), 321), E(319, {COLON}, 315), E(319, HEXALPHA, 312),
   EA(320, {SP}, 20, {"ipv6"}), E(320, {DOT}, 248), E(320, Dig(0, 5), 318), E(320, Dig(6, 9) \cup HEXALPHA, 313), E(320, {COLON}, 315),
   EA(321, {SP}, 20, {"ipv6"}), E(321, {DOT}, 248), E(321, HEXDIG, 313), E(321, {COLON}, 315),
   EA(322, {SP}, 20, {"ipv6"}), E(322, {DOT}, 248), E(322, Dig(0, 9), 321), E(322, {COLON}, 315), E(322, HEXALPHA, 312),
   EA(323, {SP}, 20, {"ipv6"}), E(323, HEXDIG, 312), E(323, {COLON}, 315)}

SourceLiteralSt324to331 ==
  {EA(324, {SP}, 20, {"ipv6"}), E(324, Dig(0, 0), 325), E(324, Dig(1, 1), 330), E(324, Dig(2, 2), 333), E(324, Dig(3, 9), 336), E(324, HEXALPHA, 337),
   EA(325, {SP}, 20, {"ipv6"}), E(325, {DOT}, 248), E(325, HEXDIG, 326), E(325, {COLON}, 329),
   EA(326, {SP}, 20, {"ipv6"}), E(326, HEXDIG, 327), E(326, {COLON}, 329),
   EA(327, {SP}, 20, {"ipv6"}), E(327, HEXDIG, 328), E(327, {COLON}, 329),
   EA(328, {SP}, 20, {"ipv6"}), E(328, {COLON}, 329),
   E(329, Dig(0, 0), 311), E(329, Dig(1, 1), 316), E(329, Dig(2, 2), 319), E(329, Dig(3, 9), 322), E(329, HEXALPHA, 323),
   EA(330, {SP}, 20, {"ipv6"}), E(330, {DOT}, 248), E(330, Dig(0, 9), 331), E(330, {COLON}, 329), E(330, HEXALPHA, 326),
   EA(331, {SP}, 20, {"ipv6"}), E(331, {DOT}, 248), E(331, Dig(0, 9), 332), E(331, {COLON}, 329), E(331, HEXALPHA, 327)}

SourceLiteralSt332to338 ==
  {EA(332, {SP}, 20, {"ipv6"}), E(332, {DOT}, 248), E(332, HEXDIG, 328), E(332, {COLON}, 329),
   EA(333, {SP}, 20, {"ipv6"}), E(333, {DOT}, 248), E(333, Dig(0, 4), 331), E(333, Dig(5, 5), 334), E(333, Dig(6, 9), 335), E(333, {COLON}, 329), E(333, HEXALPHA, 326),
   EA(334, {SP}, 20, {"ipv6"}), E(334, {DOT}, 248), E(334, Dig(0, 5), 332), E(334, Dig(6, 9) \cup HEXALPHA, 327), E(334, {COLON}, 329),
   EA(335, {SP}, 20, {"ipv6"}), E(335, {DOT}, 248), E(335, HEXDIG, 327), E(335, {COLON}, 329),
   EA(336, {SP}, 20, {"ipv6"}), E(336, {DOT}, 248), E(336, Dig(0, 9), 335), E(336, {COLON}, 329), E(336, HEXALPHA, 326),
   EA(337, {SP}, 20, {"ipv6"}), E(337, HEXDIG, 326), E(337, {COLON}, 329),
   EA(338, {SP}, 20, {"ipv6"}), E(338, Dig(0, 0), 339), E(338, Dig(1, 1), 344), E(338, Dig(2, 2), 347), E(338, Dig(3, 9), 350), E(338, HEXALPHA, 351)}

SourceLiteralSt339to346 ==
  {EA(339, {SP}, 20, {"ipv6"}), E(339, {DOT}, 248), E(339, HEXDIG, 340), E(339, {COLON}, 343),
   EA(340, {SP}, 20, {"ipv6"}), E(340, HEXDIG, 341), E(340, {COLON}, 343),
   EA(341, {SP}, 20, {"ipv6"}), E(341, HEXDIG, 342), E(341, {COLON}, 343),
   EA(342, {SP}, 20, {"ipv6"}), E(342, {COLON}, 343),
   E(343, Dig(0, 0), 325), E(343, Dig(1, 1), 330), E(343, Dig(2, 2), 333), E(343, Dig(3, 9), 336), E(343, HEXALPHA, 337),
   EA(344, {SP}, 20, {"ipv6"}), E(344, {DOT}, 248), E(344, Dig(0, 9), 345), E(344, {COLON}, 343), E(344, HEXALPHA, 340),
   EA(345, {SP}, 20, {"ipv6"}), E(345, {DOT}, 248), E(345, Dig(0, 9), 346), E(345, {COLON}, 343), E(345, HEXALPHA, 341),
   EA(346, {SP}, 20, {"ipv6"}), E(346, {DOT}, 248), E(346, HEXDIG, 342), E(346, {COLON}, 343)}

SourceLiteralSt347to353 ==
  {EA(347, {SP}, 20, {"ipv6"}), E(347, {DOT}, 248), E(347, Dig(0, 4), 345), E(347, Dig(5, 5), 348), E(347, Dig(6, 9), 349), E(347, {COLON}, 343), E(347, HEXALPHA, 340),
   EA(348, {SP}, 20, {"ipv6"}), E(348, {DOT}, 248), E(348, Dig(0, 5), 346), E(348, Dig(6, 9) \cup HEXALPHA, 341), E(348, {COLON}, 343),
   EA(349, {SP}, 20, {"ipv6"}), E(349, {DOT}, 248), E(349, HEXDIG, 341), E(349, {COLON}, 343),
   EA(350, {SP}, 20, {"ipv6"}), E(350, {DOT}, 248), E(350, Dig(0, 9), 349), E(350, {COLON}, 343), E(350, HEXALPHA, 340),
   EA(351, {SP}, 20, {"ipv6"}), E(351, HEXDIG, 340), E(351, {COLON}, 343),
   E(352, {DOT}, 14), E(352, Dig(0, 9), 353), E(352, {COLON}, 221), E(352, HEXALPHA, 218),
   E(353, {DOT}, 14), E(353, Dig(0, 9), 354), E(353, {COLON}, 221), E(353, HEXALPHA, 219)}

SourceLiteralSt354to360 ==
  {E(354, {DOT}, 14), E(354, HEXDIG, 220), E(354, {COLON}, 221),
   E(355, {DOT}, 14), E(355, Dig(0, 4), 353), E(355, Dig(5, 5), 356), E(355, Dig(6, 9), 357), E(355, {COLON}, 221), E(355, HEXALPHA, 218),
   E(356, {DOT}, 14), E(356, Dig(0, 5), 354), E(356, Dig(6, 9) \cup HEXALPHA, 219), E(356, {COLON}, 221),
   E(357, {DOT}, 14), E(357, HEXDIG, 219), E(357, {COLON}, 221),
   E(358, {DOT}, 14), E(358, Dig(0, 9), 357), E(358, {COLON}, 221), E(358, HEXALPHA, 218),
   E(359, {COLON}, 360),
   EA(360, {SP}, 20, {"ipv6"}), E(360, Dig(0, 0), 361), E(360, Dig(1, 1), 366), E(360, Dig(2, 2), 369), E(360, Dig(3, 9), 372), E(360, HEXALPHA, 373)}

SourceLiteralSt361to368 ==
  {EA(361, {SP}, 20, {"ipv6"}), E(361, {DOT}, 248), E(361, HEXDIG, 362), E(361, {COLON}, 365),
   EA(362, {SP}, 20, {"ipv6"}), E(362, HEXDIG, 363), E(362, {COLON}, 365),
   EA(363, {SP}, 20, {"ipv6"}), E(363, HEXDIG, 364), E(363, {COLON}, 365),
   EA(364, {SP}, 20, {"ipv6"}), E(364, {COLON}, 365),
   E(365, Dig(0, 0), 339), E(365, Dig(1, 1), 344), E(365, Dig(2, 2), 347), E(365, Dig(3, 9), 350), E(365, HEXALPHA, 351),
   EA(366, {SP}, 20, {"ipv6"}), E(366, {DOT}, 248), E(366, Dig(0, 9), 367), E(366, {COLON}, 365), E(366, HEXALPHA, 362),
   EA(367, {SP}, 20, {"ipv6"}), E(367, {DOT}, 248), E(367, Dig(0, 9), 368), E(367, {COLON}, 365), E(367, HEXALPHA, 363),
   EA(368, {SP}, 20, {"ipv6"}), E(368, {DOT}, 248), E(368, HEXDIG, 364), E(368, {COLON}, 365)}

SourceLiteralSt369to374 ==
  {EA(369, {SP}, 20, {"ipv6"}), E(369, {DOT}, 248), E(369, Dig(0, 4), 367), E(369, Dig(5, 5), 370), E(369, Dig(6, 9), 371), E(369, {COLON}, 365), E(369, HEXALPHA, 362),
   EA(370, {SP}, 20, {"ipv6"}), E(370, {DOT}, 248), E(370, Dig(0, 5), 368), E(370, Dig(6, 9) \cup HEXALPHA, 363), E(370, {COLON}, 365),
   EA(371, {SP}, 20, {"ipv6"}), E(371, {DOT}, 248), E(371, HEXDIG, 363), E(371, {COLON}, 365),
   EA(372, {SP}, 20, {"ipv6"}), E(372, {DOT}, 248), E(372, Dig(0, 9), 371), E(372, {COLON}, 365), E(372, HEXALPHA, 362),
   EA(373, {SP}, 20, {"ipv6"}), E(373, HEXDIG, 362), E(373, {COLON}, 365),
   E(374, HEXDIG, 218), E(374, {COLON}, 221)}

SourceLiteral ==
  UNION {SourceLiteralSt12to19, SourceLiteralSt206to218, SourceLiteralSt219to229,
         SourceLiteralSt230to240, SourceLiteralSt241to251, SourceLiteralSt252to265,
         SourceLiteralSt266to275, SourceLiteralSt276to283, SourceLiteralSt284to291,
         SourceLiteralSt292to299, SourceLiteralSt300to307, SourceLiteralSt308to315,
         SourceLiteralSt316to323, SourceLiteralSt324to331, SourceLiteralSt332to338,
         SourceLiteralSt339to346, SourceLiteralSt347to353, SourceLiteralSt354to360,
         SourceLiteralSt361to368, SourceLiteralSt369to374}

DestinationLiteral ==
  UNION {DestinationLiteralSt20to27, DestinationLiteralSt55to67, DestinationLiteralSt68to78,
         DestinationLiteralSt79to89, DestinationLiteralSt90to99, DestinationLiteralSt100to107,
         DestinationLiteralSt108to115, DestinationLiteralSt116to123, DestinationLiteralSt124to131,
         DestinationLiteralSt132to138, DestinationLiteralSt139to146, DestinationLiteralSt147to154,
         DestinationLiteralSt155to162, DestinationLiteralSt163to169, DestinationLiteralSt170to177,
         DestinationLiteralSt178to185, DestinationLiteralSt186to193, DestinationLiteralSt194to201,
         DestinationLiteralSt202to205}
====
