------------------------------- MODULE MC_Library -------------------------------
(***************************************************************************)
(* The stateless library calls of OverSIP's C extensions in one model.     *)
(* A behaviour makes one kind of call, named by fn:                        *)
(*   "haproxy"    parser_haproxy_protocol on a line of MC_Lines            *)
(*   "outbound"   parser_outbound_udp_flow_token on a token of MC_Tokens   *)
(*   "stun"       parse_request of the STUN responder, datagram after      *)
(*                datagram                                                 *)
(*   "headerize"  headerize on a name of MC_Names                          *)
(*   "uri_user"   the user-part conversion on MC_SipUsers / MC_TelUsers    *)
(*   "unmask"     FramingUtils.unmask on a masked payload                  *)
(*   "validator"  a Utf8Validator fed the chunks of MC_Chunks              *)
(* The calls share no state: the variables of the calls a behaviour does   *)
(* not make keep fixed idle values.  The IP utilities, which are of the    *)
(* same kind, are checked on their own (MC_IpUtils), their operators being *)
(* too deep to share this run.                                             *)
(***************************************************************************)
EXTENDS MC_HaproxyProtocol, MC_OutboundToken, MC_StunResponder,
        MC_HeaderName, MC_UriUser, MC_WsFraming

VARIABLE fn

library_vars ==
  <<fn, line, result, token, flow, request, source_ip, source_port,
    platform, outcome, hname, headerized, called, scheme, user, heap, user_result,
    unmask_call, unmasked, validator, fed, last_chunk, answer>>

\* The state of each component when the behaviour calls something else.
HaproxyIdle == line = <<>> /\ result = Pending
OutboundIdle == token = <<>> /\ flow = OutboundPending
StunIdle ==
  /\ request = <<>> /\ source_ip = [af |-> "none", addr |-> <<>>]
  /\ source_port = 0 /\ platform = CHOOSE p \in Platforms : TRUE
  /\ outcome = StunPending
HeaderizeIdle == hname = <<>> /\ headerized = <<>> /\ called = FALSE
UriUserIdle == scheme = "sip" /\ user = <<>> /\ heap = <<0, 0>> /\ user_result = UserPending
UnmaskIdle == unmask_call = [payload |-> <<>>, mask |-> <<>>, orig |-> <<>>] /\ unmasked = FPending
ValidatorIdle == ValidatorInit

\* fn's component starts in its initial state, every other one idle.
LibraryInit ==
  \/ /\ fn = "haproxy" /\ Init(MC_Lines)
     /\ OutboundIdle /\ StunIdle /\ HeaderizeIdle /\ UriUserIdle /\ UnmaskIdle /\ ValidatorIdle
  \/ /\ fn = "outbound" /\ OutboundInit(MC_Tokens)
     /\ HaproxyIdle /\ StunIdle /\ HeaderizeIdle /\ UriUserIdle /\ UnmaskIdle /\ ValidatorIdle
  \/ /\ fn = "stun" /\ StunInit
     /\ HaproxyIdle /\ OutboundIdle /\ HeaderizeIdle /\ UriUserIdle /\ UnmaskIdle /\ ValidatorIdle
  \/ /\ fn = "headerize" /\ HeaderizeInit
     /\ HaproxyIdle /\ OutboundIdle /\ StunIdle /\ UriUserIdle /\ UnmaskIdle /\ ValidatorIdle
  \/ /\ fn = "uri_user" /\ UriUserInit
     /\ HaproxyIdle /\ OutboundIdle /\ StunIdle /\ HeaderizeIdle /\ UnmaskIdle /\ ValidatorIdle
  \/ /\ fn = "unmask" /\ UnmaskInit(MC_UnmaskCalls)
     /\ HaproxyIdle /\ OutboundIdle /\ StunIdle /\ HeaderizeIdle /\ UriUserIdle /\ ValidatorIdle
  \/ /\ fn = "validator" /\ ValidatorInit
     /\ HaproxyIdle /\ OutboundIdle /\ StunIdle /\ HeaderizeIdle /\ UriUserIdle /\ UnmaskIdle

LibraryNext ==
  \/ /\ fn = "haproxy" /\ Next
     /\ UNCHANGED <<fn, <<token, flow>>, stun_vars, hname_vars, uri_vars, unmask_vars, validator_vars>>
  \/ /\ fn = "outbound" /\ OutboundNext
     /\ UNCHANGED <<fn, <<line, result>>, stun_vars, hname_vars, uri_vars, unmask_vars, validator_vars>>
  \/ /\ fn = "stun" /\ StunNext
     /\ UNCHANGED <<fn, <<line, result>>, <<token, flow>>, hname_vars, uri_vars, unmask_vars, validator_vars>>
  \/ /\ fn = "headerize" /\ HeaderizeNext
     /\ UNCHANGED <<fn, <<line, result>>, <<token, flow>>, stun_vars, uri_vars, unmask_vars, validator_vars>>
  \/ /\ fn = "uri_user" /\ UriUserNext
     /\ UNCHANGED <<fn, <<line, result>>, <<token, flow>>, stun_vars, hname_vars, unmask_vars, validator_vars>>
  \/ /\ fn = "unmask" /\ UnmaskNext
     /\ UNCHANGED <<fn, <<line, result>>, <<token, flow>>, stun_vars, hname_vars, uri_vars, validator_vars>>
  \/ /\ fn = "validator" /\ ValidatorNext
     /\ UNCHANGED <<fn, <<line, result>>, <<token, flow>>, stun_vars, hname_vars, uri_vars, unmask_vars>>

LibrarySpec == LibraryInit /\ [][LibraryNext]_library_vars

\* Every call's result has the shape its C function builds: the parsers'
\* Ruby arrays with ports of at most 65535, a STUN response of 32 or 44
\* bytes, a headerized name of letters, '-' and '_', the framing results,
\* whichever call the behaviour makes.
LibraryTypeOK ==
  /\ TypeOK /\ OutboundTypeOK /\ StunTypeOK
  /\ HeaderizeTypeOK /\ UriUserTypeOK /\ FramingTypeOK
====
