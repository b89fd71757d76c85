-------------------------- MODULE OutboundLiterals --------------------------
(***************************************************************************)
(* The IP literal states of outbound_udp_flow_token_parser_execute        *)
(* (src/ext/utils/outbound_utils.c): every state the machine enters from  *)
(* its start state st1 to the '_' before the port.  Each definition holds *)
(* the transitions of the states the generated file lays out in one       *)
(* stretch of lines (its name gives their numbers); a byte no test of a   *)
(* state matches leads to st0 (RagelDfa).                                 *)
(*                                                                         *)
(* The six targets of st1 run the ip_s action; the '_' after the literal  *)
(* runs the ipv4 action (from st8 and the last octet states) or the ipv6  *)
(* action, and enters the port states st9.. (OutboundToken).              *)
(***************************************************************************)
EXTENDS RagelDfa

US == 95   \* '_'

LiteralSt1to8 ==
  {EA(1, Dig(0, 0), 2, {"ip_s"}), EA(1, Dig(1, 1), 159, {"ip_s"}), EA(1, Dig(2, 2), 162, {"ip_s"}), EA(1, Dig(3, 9), 165, {"ip_s"}), EA(1, {COLON}, 166, {"ip_s"}), EA(1, HEXALPHA, 181, {"ip_s"}),
   E(2, {DOT}, 3), E(2, HEXDIG, 25), E(2, {COLON}, 28),
   E(3, Dig(0, 0), 4), E(3, Dig(1, 1), 21), E(3, Dig(2, 2), 23), E(3, Dig(3, 9), 22),
   E(4, {DOT}, 5),
   E(5, Dig(0, 0), 6), E(5, Dig(1, 1), 17), E(5, Dig(2, 2), 19), E(5, Dig(3, 9), 18),
   E(6, {DOT}, 7),
   E(7, Dig(0, 0), 8), E(7, Dig(1, 1), 13), E(7, Dig(2, 2), 15), E(7, Dig(3, 9), 14),
   EA(8, {US}, 9, {"ipv4"})}

LiteralSt13to25 ==
  {E(13, Dig(0, 9), 14), EA(13, {US}, 9, {"ipv4"}),
   E(14, Dig(0, 9), 8), EA(14, {US}, 9, {"ipv4"}),
   E(15, Dig(0, 4), 14), E(15, Dig(5, 5), 16), E(15, Dig(6, 9), 8), EA(15, {US}, 9, {"ipv4"}),
   E(16, Dig(0, 5), 8), EA(16, {US}, 9, {"ipv4"}),
   E(17, {DOT}, 7), E(17, Dig(0, 9), 18),
   E(18, {DOT}, 7), E(18, Dig(0, 9), 6),
   E(19, {DOT}, 7), E(19, Dig(0, 4), 18), E(19, Dig(5, 5), 20), E(19, Dig(6, 9), 6),
   E(20, {DOT}, 7), E(20, Dig(0, 5), 6),
   E(21, {DOT}, 5), E(21, Dig(0, 9), 22),
   E(22, {DOT}, 5), E(22, Dig(0, 9), 4),
   E(23, {DOT}, 5), E(23, Dig(0, 4), 22), E(23, Dig(5, 5), 24), E(23, Dig(6, 9), 4),
   E(24, {DOT}, 5), E(24, Dig(0, 5), 4),
   E(25, HEXDIG, 26), E(25, {COLON}, 28)}

LiteralSt26to36 ==
  {E(26, HEXDIG, 27), E(26, {COLON}, 28),
   E(27, {COLON}, 28),
   E(28, HEXDIG, 29), E(28, {COLON}, 145),
   E(29, HEXDIG, 30), E(29, {COLON}, 33),
   E(30, HEXDIG, 31), E(30, {COLON}, 33),
   E(31, HEXDIG, 32), E(31, {COLON}, 33),
   E(32, {COLON}, 33),
   E(33, HEXDIG, 34), E(33, {COLON}, 131),
   E(34, HEXDIG, 35), E(34, {COLON}, 38),
   E(35, HEXDIG, 36), E(35, {COLON}, 38),
   E(36, HEXDIG, 37), E(36, {COLON}, 38)}

LiteralSt37to47 ==
  {E(37, {COLON}, 38),
   E(38, HEXDIG, 39), E(38, {COLON}, 117),
   E(39, HEXDIG, 40), E(39, {COLON}, 43),
   E(40, HEXDIG, 41), E(40, {COLON}, 43),
   E(41, HEXDIG, 42), E(41, {COLON}, 43),
   E(42, {COLON}, 43),
   E(43, HEXDIG, 44), E(43, {COLON}, 103),
   E(44, HEXDIG, 45), E(44, {COLON}, 48),
   E(45, HEXDIG, 46), E(45, {COLON}, 48),
   E(46, HEXDIG, 47), E(46, {COLON}, 48),
   E(47, {COLON}, 48)}

LiteralSt48to58 ==
  {E(48, HEXDIG, 49), E(48, {COLON}, 89),
   E(49, HEXDIG, 50), E(49, {COLON}, 53),
   E(50, HEXDIG, 51), E(50, {COLON}, 53),
   E(51, HEXDIG, 52), E(51, {COLON}, 53),
   E(52, {COLON}, 53),
   E(53, Dig(0, 0), 54), E(53, Dig(1, 1), 80), E(53, Dig(2, 2), 83), E(53, Dig(3, 9), 86), E(53, {COLON}, 87), E(53, HEXALPHA, 88),
   E(54, {DOT}, 55), E(54, HEXDIG, 73), E(54, {COLON}, 76),
   E(55, Dig(0, 0), 56), E(55, Dig(1, 1), 69), E(55, Dig(2, 2), 71), E(55, Dig(3, 9), 70),
   E(56, {DOT}, 57),
   E(57, Dig(0, 0), 58), E(57, Dig(1, 1), 65), E(57, Dig(2, 2), 67), E(57, Dig(3, 9), 66),
   E(58, {DOT}, 59)}

LiteralSt59to72 ==
  {E(59, Dig(0, 0), 60), E(59, Dig(1, 1), 61), E(59, Dig(2, 2), 63), E(59, Dig(3, 9), 62),
   EA(60, {US}, 9, {"ipv6"}),
   E(61, Dig(0, 9), 62), EA(61, {US}, 9, {"ipv6"}),
   E(62, Dig(0, 9), 60), EA(62, {US}, 9, {"ipv6"}),
   E(63, Dig(0, 4), 62), E(63, Dig(5, 5), 64), E(63, Dig(6, 9), 60), EA(63, {US}, 9, {"ipv6"}),
   E(64, Dig(0, 5), 60), EA(64, {US}, 9, {"ipv6"}),
   E(65, {DOT}, 59), E(65, Dig(0, 9), 66),
   E(66, {DOT}, 59), E(66, Dig(0, 9), 58),
   E(67, {DOT}, 59), E(67, Dig(0, 4), 66), E(67, Dig(5, 5), 68), E(67, Dig(6, 9), 58),
   E(68, {DOT}, 59), E(68, Dig(0, 5), 58),
   E(69, {DOT}, 57), E(69, Dig(0, 9), 70),
   E(70, {DOT}, 57), E(70, Dig(0, 9), 56),
   E(71, {DOT}, 57), E(71, Dig(0, 4), 70), E(71, Dig(5, 5), 72), E(71, Dig(6, 9), 56),
   E(72, {DOT}, 57), E(72, Dig(0, 5), 56)}

LiteralSt73to82 ==
  {E(73, HEXDIG, 74), E(73, {COLON}, 76),
   E(74, HEXDIG, 75), E(74, {COLON}, 76),
   E(75, {COLON}, 76),
   E(76, HEXDIG, 77), E(76, {COLON}, 60),
   E(77, HEXDIG, 78), EA(77, {US}, 9, {"ipv6"}),
   E(78, HEXDIG, 79), EA(78, {US}, 9, {"ipv6"}),
   E(79, HEXDIG, 60), EA(79, {US}, 9, {"ipv6"}),
   E(80, {DOT}, 55), E(80, Dig(0, 9), 81), E(80, {COLON}, 76), E(80, HEXALPHA, 73),
   E(81, {DOT}, 55), E(81, Dig(0, 9), 82), E(81, {COLON}, 76), E(81, HEXALPHA, 74),
   E(82, {DOT}, 55), E(82, HEXDIG, 75), E(82, {COLON}, 76)}

LiteralSt83to90 ==
  {E(83, {DOT}, 55), E(83, Dig(0, 4), 81), E(83, Dig(5, 5), 84), E(83, Dig(6, 9), 85), E(83, {COLON}, 76), E(83, HEXALPHA, 73),
   E(84, {DOT}, 55), E(84, Dig(0, 5), 82), E(84, Dig(6, 9) \cup HEXALPHA, 74), E(84, {COLON}, 76),
   E(85, {DOT}, 55), E(85, HEXDIG, 74), E(85, {COLON}, 76),
   E(86, {DOT}, 55), E(86, Dig(0, 9), 85), E(86, {COLON}, 76), E(86, HEXALPHA, 73),
   E(87, HEXDIG, 77), EA(87, {US}, 9, {"ipv6"}),
   E(88, HEXDIG, 73), E(88, {COLON}, 76),
   E(89, Dig(0, 0), 90), E(89, Dig(1, 1), 95), E(89, Dig(2, 2), 98), E(89, Dig(3, 9), 101), E(89, HEXALPHA, 102), EA(89, {US}, 9, {"ipv6"}),
   E(90, {DOT}, 55), E(90, HEXDIG, 91), E(90, {COLON}, 94), EA(90, {US}, 9, {"ipv6"})}

LiteralSt91to98 ==
  {E(91, HEXDIG, 92), E(91, {COLON}, 94), EA(91, {US}, 9, {"ipv6"}),
   E(92, HEXDIG, 93), E(92, {COLON}, 94), EA(92, {US}, 9, {"ipv6"}),
   E(93, {COLON}, 94), EA(93, {US}, 9, {"ipv6"}),
   E(94, HEXDIG, 77),
   E(95, {DOT}, 55), E(95, Dig(0, 9), 96), E(95, {COLON}, 94), E(95, HEXALPHA, 91), EA(95, {US}, 9, {"ipv6"}),
   E(96, {DOT}, 55), E(96, Dig(0, 9), 97), E(96, {COLON}, 94), E(96, HEXALPHA, 92), EA(96, {US}, 9, {"ipv6"}),
   E(97, {DOT}, 55), E(97, HEXDIG, 93), E(97, {COLON}, 94), EA(97, {US}, 9, {"ipv6"}),
   E(98, {DOT}, 55), E(98, Dig(0, 4), 96), E(98, Dig(5, 5), 99), E(98, Dig(6, 9), 100), E(98, {COLON}, 94), E(98, HEXALPHA, 91), EA(98, {US}, 9, {"ipv6"})}

LiteralSt99to106 ==
  {E(99, {DOT}, 55), E(99, Dig(0, 5), 97), E(99, Dig(6, 9) \cup HEXALPHA, 92), E(99, {COLON}, 94), EA(99, {US}, 9, {"ipv6"}),
   E(100, {DOT}, 55), E(100, HEXDIG, 92), E(100, {COLON}, 94), EA(100, {US}, 9, {"ipv6"}),
   E(101, {DOT}, 55), E(101, Dig(0, 9), 100), E(101, {COLON}, 94), E(101, HEXALPHA, 91), EA(101, {US}, 9, {"ipv6"}),
   E(102, HEXDIG, 91), E(102, {COLON}, 94), EA(102, {US}, 9, {"ipv6"}),
   E(103, Dig(0, 0), 104), E(103, Dig(1, 1), 109), E(103, Dig(2, 2), 112), E(103, Dig(3, 9), 115), E(103, HEXALPHA, 116), EA(103, {US}, 9, {"ipv6"}),
   E(104, {DOT}, 55), E(104, HEXDIG, 105), E(104, {COLON}, 108), EA(104, {US}, 9, {"ipv6"}),
   E(105, HEXDIG, 106), E(105, {COLON}, 108), EA(105, {US}, 9, {"ipv6"}),
   E(106, HEXDIG, 107), E(106, {COLON}, 108), EA(106, {US}, 9, {"ipv6"})}

LiteralSt107to114 ==
  {E(107, {COLON}, 108), EA(107, {US}, 9, {"ipv6"}),
   E(108, Dig(0, 0), 90), E(108, Dig(1, 1), 95), E(108, Dig(2, 2), 98), E(108, Dig(3, 9), 101), E(108, HEXALPHA, 102),
   E(109, {DOT}, 55), E(109, Dig(0, 9), 110), E(109, {COLON}, 108), E(109, HEXALPHA, 105), EA(109, {US}, 9, {"ipv6"}),
   E(110, {DOT}, 55), E(110, Dig(0, 9), 111), E(110, {COLON}, 108), E(110, HEXALPHA, 106), EA(110, {US}, 9, {"ipv6"}),
   E(111, {DOT}, 55), E(111, HEXDIG, 107), E(111, {COLON}, 108), EA(111, {US}, 9, {"ipv6"}),
   E(112, {DOT}, 55), E(112, Dig(0, 4), 110), E(112, Dig(5, 5), 113), E(112, Dig(6, 9), 114), E(112, {COLON}, 108), E(112, HEXALPHA, 105), EA(112, {US}, 9, {"ipv6"}),
   E(113, {DOT}, 55), E(113, Dig(0, 5), 111), E(113, Dig(6, 9) \cup HEXALPHA, 106), E(113, {COLON}, 108), EA(113, {US}, 9, {"ipv6"}),
   E(114, {DOT}, 55), E(114, HEXDIG, 106), E(114, {COLON}, 108), EA(114, {US}, 9, {"ipv6"})}

LiteralSt115to122 ==
  {E(115, {DOT}, 55), E(115, Dig(0, 9), 114), E(115, {COLON}, 108), E(115, HEXALPHA, 105), EA(115, {US}, 9, {"ipv6"}),
   E(116, HEXDIG, 105), E(116, {COLON}, 108), EA(116, {US}, 9, {"ipv6"}),
   E(117, Dig(0, 0), 118), E(117, Dig(1, 1), 123), E(117, Dig(2, 2), 126), E(117, Dig(3, 9), 129), E(117, HEXALPHA, 130), EA(117, {US}, 9, {"ipv6"}),
   E(118, {DOT}, 55), E(118, HEXDIG, 119), E(118, {COLON}, 122), EA(118, {US}, 9, {"ipv6"}),
   E(119, HEXDIG, 120), E(119, {COLON}, 122), EA(119, {US}, 9, {"ipv6"}),
   E(120, HEXDIG, 121), E(120, {COLON}, 122), EA(120, {US}, 9, {"ipv6"}),
   E(121, {COLON}, 122), EA(121, {US}, 9, {"ipv6"}),
   E(122, Dig(0, 0), 104), E(122, Dig(1, 1), 109), E(122, Dig(2, 2), 112), E(122, Dig(3, 9), 115), E(122, HEXALPHA, 116)}

LiteralSt123to130 ==
  {E(123, {DOT}, 55), E(123, Dig(0, 9), 124), E(123, {COLON}, 122), E(123, HEXALPHA, 119), EA(123, {US}, 9, {"ipv6"}),
   E(124, {DOT}, 55), E(124, Dig(0, 9), 125), E(124, {COLON}, 122), E(124, HEXALPHA, 120), EA(124, {US}, 9, {"ipv6"}),
   E(125, {DOT}, 55), E(125, HEXDIG, 121), E(125, {COLON}, 122), EA(125, {US}, 9, {"ipv6"}),
   E(126, {DOT}, 55), E(126, Dig(0, 4), 124), E(126, Dig(5, 5), 127), E(126, Dig(6, 9), 128), E(126, {COLON}, 122), E(126, HEXALPHA, 119), EA(126, {US}, 9, {"ipv6"}),
   E(127, {DOT}, 55), E(127, Dig(0, 5), 125), E(127, Dig(6, 9) \cup HEXALPHA, 120), E(127, {COLON}, 122), EA(127, {US}, 9, {"ipv6"}),
   E(128, {DOT}, 55), E(128, HEXDIG, 120), E(128, {COLON}, 122), EA(128, {US}, 9, {"ipv6"}),
   E(129, {DOT}, 55), E(129, Dig(0, 9), 128), E(129, {COLON}, 122), E(129, HEXALPHA, 119), EA(129, {US}, 9, {"ipv6"}),
   E(130, HEXDIG, 119), E(130, {COLON}, 122), EA(130, {US}, 9, {"ipv6"})}

LiteralSt131to138 ==
  {E(131, Dig(0, 0), 132), E(131, Dig(1, 1), 137), E(131, Dig(2, 2), 140), E(131, Dig(3, 9), 143), E(131, HEXALPHA, 144), EA(131, {US}, 9, {"ipv6"}),
   E(132, {DOT}, 55), E(132, HEXDIG, 133), E(132, {COLON}, 136), EA(132, {US}, 9, {"ipv6"}),
   E(133, HEXDIG, 134), E(133, {COLON}, 136), EA(133, {US}, 9, {"ipv6"}),
   E(134, HEXDIG, 135), E(134, {COLON}, 136), EA(134, {US}, 9, {"ipv6"}),
   E(135, {COLON}, 136), EA(135, {US}, 9, {"ipv6"}),
   E(136, Dig(0, 0), 118), E(136, Dig(1, 1), 123), E(136, Dig(2, 2), 126), E(136, Dig(3, 9), 129), E(136, HEXALPHA, 130),
   E(137, {DOT}, 55), E(137, Dig(0, 9), 138), E(137, {COLON}, 136), E(137, HEXALPHA, 133), EA(137, {US}, 9, {"ipv6"}),
   E(138, {DOT}, 55), E(138, Dig(0, 9), 139), E(138, {COLON}, 136), E(138, HEXALPHA, 134), EA(138, {US}, 9, {"ipv6"})}

LiteralSt139to145 ==
  {E(139, {DOT}, 55), E(139, HEXDIG, 135), E(139, {COLON}, 136), EA(139, {US}, 9, {"ipv6"}),
   E(140, {DOT}, 55), E(140, Dig(0, 4), 138), E(140, Dig(5, 5), 141), E(140, Dig(6, 9), 142), E(140, {COLON}, 136), E(140, HEXALPHA, 133), EA(140, {US}, 9, {"ipv6"}),
   E(141, {DOT}, 55), E(141, Dig(0, 5), 139), E(141, Dig(6, 9) \cup HEXALPHA, 134), E(141, {COLON}, 136), EA(141, {US}, 9, {"ipv6"}),
   E(142, {DOT}, 55), E(142, HEXDIG, 134), E(142, {COLON}, 136), EA(142, {US}, 9, {"ipv6"}),
   E(143, {DOT}, 55), E(143, Dig(0, 9), 142), E(143, {COLON}, 136), E(143, HEXALPHA, 133), EA(143, {US}, 9, {"ipv6"}),
   E(144, HEXDIG, 133), E(144, {COLON}, 136), EA(144, {US}, 9, {"ipv6"}),
   E(145, Dig(0, 0), 146), E(145, Dig(1, 1), 151), E(145, Dig(2, 2), 154), E(145, Dig(3, 9), 157), E(145, HEXALPHA, 158), EA(145, {US}, 9, {"ipv6"})}

LiteralSt146to153 ==
  {E(146, {DOT}, 55), E(146, HEXDIG, 147), E(146, {COLON}, 150), EA(146, {US}, 9, {"ipv6"}),
   E(147, HEXDIG, 148), E(147, {COLON}, 150), EA(147, {US}, 9, {"ipv6"}),
   E(148, HEXDIG, 149), E(148, {COLON}, 150), EA(148, {US}, 9, {"ipv6"}),
   E(149, {COLON}, 150), EA(149, {US}, 9, {"ipv6"}),
   E(150, Dig(0, 0), 132), E(150, Dig(1, 1), 137), E(150, Dig(2, 2), 140), E(150, Dig(3, 9), 143), E(150, HEXALPHA, 144),
   E(151, {DOT}, 55), E(151, Dig(0, 9), 152), E(151, {COLON}, 150), E(151, HEXALPHA, 147), EA(151, {US}, 9, {"ipv6"}),
   E(152, {DOT}, 55), E(152, Dig(0, 9), 153), E(152, {COLON}, 150), E(152, HEXALPHA, 148), EA(152, {US}, 9, {"ipv6"}),
   E(153, {DOT}, 55), E(153, HEXDIG, 149), E(153, {COLON}, 150), EA(153, {US}, 9, {"ipv6"})}

LiteralSt154to160 ==
  {E(154, {DOT}, 55), E(154, Dig(0, 4), 152), E(154, Dig(5, 5), 155), E(154, Dig(6, 9), 156), E(154, {COLON}, 150), E(154, HEXALPHA, 147), EA(154, {US}, 9, {"ipv6"}),
   E(155, {DOT}, 55), E(155, Dig(0, 5), 153), E(155, Dig(6, 9) \cup HEXALPHA, 148), E(155, {COLON}, 150), EA(155, {US}, 9, {"ipv6"}),
   E(156, {DOT}, 55), E(156, HEXDIG, 148), E(156, {COLON}, 150), EA(156, {US}, 9, {"ipv6"}),
   E(157, {DOT}, 55), E(157, Dig(0, 9), 156), E(157, {COLON}, 150), E(157, HEXALPHA, 147), EA(157, {US}, 9, {"ipv6"}),
   E(158, HEXDIG, 147), E(158, {COLON}, 150), EA(158, {US}, 9, {"ipv6"}),
   E(159, {DOT}, 3), E(159, Dig(0, 9), 160), E(159, {COLON}, 28), E(159, HEXALPHA, 25),
   E(160, {DOT}, 3), E(160, Dig(0, 9), 161), E(160, {COLON}, 28), E(160, HEXALPHA, 26)}

LiteralSt161to167 ==
  {E(161, {DOT}, 3), E(161, HEXDIG, 27), E(161, {COLON}, 28),
   E(162, {DOT}, 3), E(162, Dig(0, 4), 160), E(162, Dig(5, 5), 163), E(162, Dig(6, 9), 164), E(162, {COLON}, 28), E(162, HEXALPHA, 25),
   E(163, {DOT}, 3), E(163, Dig(0, 5), 161), E(163, Dig(6, 9) \cup HEXALPHA, 26), E(163, {COLON}, 28),
   E(164, {DOT}, 3), E(164, HEXDIG, 26), E(164, {COLON}, 28),
   E(165, {DOT}, 3), E(165, Dig(0, 9), 164), E(165, {COLON}, 28), E(165, HEXALPHA, 25),
   E(166, {COLON}, 167),
   E(167, Dig(0, 0), 168), E(167, Dig(1, 1), 173), E(167, Dig(2, 2), 176), E(167, Dig(3, 9), 179), E(167, HEXALPHA, 180), EA(167, {US}, 9, {"ipv6"})}

LiteralSt168to175 ==
  {E(168, {DOT}, 55), E(168, HEXDIG, 169), E(168, {COLON}, 172), EA(168, {US}, 9, {"ipv6"}),
   E(169, HEXDIG, 170), E(169, {COLON}, 172), EA(169, {US}, 9, {"ipv6"}),
   E(170, HEXDIG, 171), E(170, {COLON}, 172), EA(170, {US}, 9, {"ipv6"}),
   E(171, {COLON}, 172), EA(171, {US}, 9, {"ipv6"}),
   E(172, Dig(0, 0), 146), E(172, Dig(1, 1), 151), E(172, Dig(2, 2), 154), E(172, Dig(3, 9), 157), E(172, HEXALPHA, 158),
   E(173, {DOT}, 55), E(173, Dig(0, 9), 174), E(173, {COLON}, 172), E(173, HEXALPHA, 169), EA(173, {US}, 9, {"ipv6"}),
   E(174, {DOT}, 55), E(174, Dig(0, 9), 175), E(174, {COLON}, 172), E(174, HEXALPHA, 170), EA(174, {US}, 9, {"ipv6"}),
   E(175, {DOT}, 55), E(175, HEXDIG, 171), E(175, {COLON}, 172), EA(175, {US}, 9, {"ipv6"})}

LiteralSt176to181 ==
  {E(176, {DOT}, 55), E(176, Dig(0, 4), 174), E(176, Dig(5, 5), 177), E(176, Dig(6, 9), 178), E(176, {COLON}, 172), E(176, HEXALPHA, 169), EA(176, {US}, 9, {"ipv6"}),
   E(177, {DOT}, 55), E(177, Dig(0, 5), 175), E(177, Dig(6, 9) \cup HEXALPHA, 170), E(177, {COLON}, 172), EA(177, {US}, 9, {"ipv6"}),
   E(178, {DOT}, 55), E(178, HEXDIG, 170), E(178, {COLON}, 172), EA(178, {US}, 9, {"ipv6"}),
   E(179, {DOT}, 55), E(179, Dig(0, 9), 178), E(179, {COLON}, 172), E(179, HEXALPHA, 169), EA(179, {US}, 9, {"ipv6"}),
   E(180, HEXDIG, 169), E(180, {COLON}, 172), EA(180, {US}, 9, {"ipv6"}),
   E(181, HEXDIG, 25), E(181, {COLON}, 28)}

Literal ==
  UNION {LiteralSt1to8, LiteralSt13to25, LiteralSt26to36,
         LiteralSt37to47, LiteralSt48to58, LiteralSt59to72,
         LiteralSt73to82, LiteralSt83to90, LiteralSt91to98,
         LiteralSt99to106, LiteralSt107to114, LiteralSt115to122,
         LiteralSt123to130, LiteralSt131to138, LiteralSt139to145,
         LiteralSt146to153, LiteralSt154to160, LiteralSt161to167,
         LiteralSt168to175, LiteralSt176to181}
====
