-------------------------- MODULE TransformerRules ---------------------------
(***************************************************************************)
(* internal/services/transformer: how a wallet transaction of each type    *)
(* becomes child transactions between accounts.  The form of a rule, and   *)
(* the rules for administration fees, balances, cash-out, disbursement,    *)
(* insurance, investment and merchants; TransformerTable has the rest.     *)
(*                                                                         *)
(* A rule is a record:                                                     *)
(*   needs   what Transform refuses to do without                          *)
(*   entity  the cached entity of the wallet's account is "ignored",       *)
(*           "read" (refused when empty) or also "written" to the metadata *)
(*   keys    other metadata keys it writes                                 *)
(*   fee     amount types whose presence makes it write metadata           *)
(*   moves   the children: type, account debited, account credited; every  *)
(*           one of them carries the whole amount                          *)
(* An account is a tuple of strings: <<"account", number>>, a field of     *)
(* AccountConfig, or a configured or external account with the keys it is  *)
(* found by.  "wallet" and "destination" are the transaction's own.        *)
(* Wording (descriptions, dates, currency, the order type) is left out.    *)
(***************************************************************************)
EXTENDS Integers, Sequences

System == "SystemAccountNumber"

Moves(type, from, to) ==
    [needs |-> {}, entity |-> "ignored", keys |-> {}, fee |-> {},
     moves |-> <<[type |-> type, from |-> from, to |-> to]>>]

FromSystem(type)       == Moves(type, System, "wallet")
ToSystem(type)         == Moves(type, "wallet", System)
Needing(needs, r)      == [r EXCEPT !.needs = @ \union needs]
ToDestination(type)    == Needing({"destination"}, Moves(type, "wallet", "destination"))
ReadingEntity(r)       == [r EXCEPT !.entity = "read"]
WithEntity(r)          == [r EXCEPT !.entity = "written"]
Writing(key, r)        == [r EXCEPT !.keys = @ \union {key}]
NamingLoan(r)          == Writing("loanAccountNumber", r)
NotingFee(types, r)    == [r EXCEPT !.fee = types]
Then(r, s)             == [r EXCEPT !.moves = @ \o s.moves]

-----------------------------------------------------------------------------
ADJAF == Needing({"description", "debit", "credit"},
                 Moves("ADJAF", "wallet", "destination"))
ADMAF == ToSystem("ADMAF")
ADMBI == ToSystem("ADMBI")
ADMBT == FromSystem("ADMBT")
ADMCB == FromSystem("ADMCB")
ADMCE == Needing({"in master data"}, Writing("adminFee", ToSystem("ADMCE")))
ADMCV == FromSystem("ADMCV")
ADMDA == Moves("ADMDA", System, "OperationalReceivableDigiasia")
ADMDD == ToSystem("ADMDD")
ADMDE == ToSystem("ADMDE")
ADMDU == ToSystem("ADMDU")
ADMDV == FromSystem("ADMDV")
ADMFA == Moves("ADMFA", System, "AccountNumberBankForADMFA")
ADMFE == Needing({"in master data"},
                 WithEntity(Moves("ADMFE", "receivable", System)))
ADMFM == ToSystem("ADMFM")
ADMFP == ToSystem("ADMFP")
ADMFU == ToSystem("ADMFU")
ADMMA == Needing({"in master data"},
                 ReadingEntity(Moves("ADMMA", "receivable", System)))
ADMMD == Moves("ADMMD", "RemittanceAdminFeeBudget", "wallet")
ADMME == Needing({"entity", "in master data"},
                 Writing("adminFee", Moves("ADMME", "receivable of metadata", System)))
ADMMV == Moves("ADMMV", "wallet", "RemittanceAdminFeeRevenue")
ADMOB == FromSystem("ADMOB")
ADMOC == FromSystem("ADMOC")
ADMPB == ToDestination("ADMPB")
ADMPE == ToSystem("ADMPE")
ADMPF == ToSystem("ADMPF")
ADMPN == FromSystem("ADMPN")
ADMPP == FromSystem("ADMPP")
ADMPT == FromSystem("ADMPT")
ADMRA == Moves("ADMRA", "OperationalReceivableDigiasia", System)
ADMRD == Moves("ADMRD", "RemittanceAdminFeeBudget", "wallet")
ADMRF == ToSystem("ADMRF")
ADMRP == Moves("ADMRP", "OperationalReceivableDigiasia", System)
ADMRV == Moves("ADMRV", "wallet", "RemittanceAdminFeeRevenue")
ADMTD == Moves("ADMTD", "OperationalReceivableDiscountAdminFeeAFA", "wallet")
ADMTP == FromSystem("ADMTP")
ADMTV == Moves("ADMTV", "wallet", "AmarthaRevenueAdminFeeAFA")
ADMVI == FromSystem("ADMVI")
ADMWP == ToSystem("ADMWP")
BBLDN == Needing({"destination", "loanAccountNumber"},
                 Moves("BBLDN", "invested", "invested of destination"))
BBLEN == Needing({"loanAccountNumber"}, Moves("BBLEN", "wallet", "invested"))
BBLTF == Needing({"cashin"}, Moves("BBLTF", System, "invested"))
COTAI == ToSystem("COTAI")
COTAM == ToSystem("COTAM")
COTBM == ToSystem("COTBM")
COTDA == ToSystem("COTDA")
COTFP == ToSystem("COTFP")
COTGC == Moves("COTGC", "wallet", "GeneralCashOutHoldingAccountNumber")
COTLR == NotingFee({"ADMFE"}, ToSystem("COTLR"))
COTMF == ToSystem("COTMF")
COTPB == ToDestination("COTPB")
COTPR == NotingFee({"ADMFE", "ADMCE"}, ToSystem("COTPR"))
COTRC == ToSystem("COTRC")
COTRJ == FromSystem("COTRJ")
COTRQ == ToSystem("COTRQ")
COTRT == FromSystem("COTRT")
COTWC == ToSystem("COTWC")
DBFAA == Moves("DBFAA", "invested", "wallet")
DBFAB == Needing({"disbursementDate"}, ToDestination("DBFAB"))
DBFAC == Needing({"disbursementDate", "virtualAccountPoint"},
                 Moves("DBFAC", "wallet", "BPE"))
DBFEA == Needing({"loanAccountNumber"}, Moves("DBFEA", "invested", "wallet"))
DSBAA == WithEntity(ToSystem("DSBAA"))
DSBAB == WithEntity(NamingLoan(FromSystem("DSBAB")))
DSBAO == ToSystem("DSBAO")
DSBAP == ToDestination("DSBAP")
DSBBA == Moves("DSBBA", "BPE", "wallet")
DSBBB == ToDestination("DSBBB")
DSBBC == ToDestination("DSBBC")
DSBBD == ToSystem("DSBBD")
DSBBE == ToDestination("DSBBE")
DSBED == FromSystem("DSBED")
DSBFD == ToDestination("DSBFD")
DSBLB == ToDestination("DSBLB")
DSBLD == Moves("DSBLD", System, "loan advance")
DSBMR == Then(Moves("DSBMR", "BPE", System),
              Moves("DSBLR", System, "wallet"))
DSBPD == Needing({"oldLoanAccountNumber", "newLoanAccountNumber"},
                 Writing("newEntityLoanAccountNumber", Moves("DSBPD", System, System)))
DSBPI == WithEntity(Moves("DSBPI", System, "insurance premium"))
DSBPO == ToSystem("DSBPO")
DSBRD == ToSystem("DSBRD")
DSBTF == Moves("DSBTF", "wallet", "destination")
DSBTI == Needing({"entity", "productType"}, ToSystem("DSBTI"))
FPEPD == ToDestination("FPEPD")
FPEPT == ToDestination("FPEPT")
INSCA == FromSystem("INSCA")
INSCL == FromSystem("INSCL")
INSDL == ToDestination("INSDL")
INSHN == FromSystem("INSHN")
INSLL == Moves("INSLL", "invested", System)
INSLR == Needing({"destination"},
                 Moves("INSLR", "invested", "invested of destination"))
INSPA == FromSystem("INSPA")
INSPI == ToSystem("INSPI")
INSPL == ToSystem("INSPL")
INSPN == ToSystem("INSPN")
INVMT == Moves("INVMT", "wallet", "invested")
INVVO == Moves("INVVO", "OperationalReceivableVoucher", "invested")
ITDED == ToDestination("ITDED")
ITDEP == ToDestination("ITDEP")
ITDPH == Needing({"productType"}, Moves("ITDPH", "wallet", "WHT2326Loan"))
ITRTF == Moves("ITRTF", "wallet", "destination")
ITRTP == ToDestination("ITRTP")
MFAAJ == FromSystem("MFAAJ")
MFAQR == ToSystem("MFAQR")
MFFEP == ToDestination("MFFEP")
MFFGL == Moves("MFFGL", "BRIEscrowAFAAccountNumber", "wallet")
MFFMD == Moves("MFFMD", "BRIEscrowAFAAccountNumber", "wallet")
MFFWC == ToSystem("MFFWC")
MFGPI == FromSystem("MFGPI")
MFMEP == Needing({"entity"},
                 Moves("MFMEP", "wallet", "BRIEscrowAFAAccountNumber"))
MFMMP == Moves("MFMMP", "wallet", "BRIEscrowAFAAccountNumber")
MFMPP == Needing({"entity"}, ToDestination("MFMPP"))
MFMRP == Moves("MFMRP", "wallet", "BRIEscrowAFAAccountNumber")
MFMTP == Moves("MFMTP", "wallet", "BRIEscrowAFAAccountNumber")
MFMWC == ToDestination("MFMWC")
MFNPC == ToSystem("MFNPC")
MFNPR == ToSystem("MFNPR")
MFWAF == ToSystem("MFWAF")
MFWIT == ToSystem("MFWIT")
MFWLF == ToSystem("MFWLF")
MFWPH == ToSystem("MFWPH")
MFWPN == ToSystem("MFWPN")
MFWRP == WithEntity(ToSystem("MFWRP"))
MFWRQ == WithEntity(ToSystem("MFWRQ"))
MMWPD == Moves("MMWPD", "wallet", "destination")
MMWPI == ToSystem("MMWPI")
MWMPD == Moves("MWMPD", "wallet", "destination")
MWMPI == ToSystem("MWMPI")
=============================================================================
