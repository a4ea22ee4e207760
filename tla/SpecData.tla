------------------------------- MODULE SpecData -------------------------------
(***************************************************************************)
(* What the program knows of the specifications of self-encrypting drives: *)
(* the names and the UIDs of tables, methods, types and predefined objects *)
(* (the core specification, the Opal classes, the PSID feature), the       *)
(* columns of the tables and the shapes of the types.                      *)
(*                                                                         *)
(* A UID is the pair of its upper and its lower half.  A name is the tuple *)
(* of its sections ("Authority::SID" is <<"Authority", "SID">>); the name  *)
(* of a numbered object is the tuple of its table, its format and its      *)
(* number ("Locking::Range3" is <<"Locking", "Range{}", 3>>).              *)
(***************************************************************************)
EXTENDS Integers, SequencesExt

Numbered(table, base, format) == [table |-> table, base |-> base, format |-> format]

\* The tables of the core specification and the upper half of their UIDs.
TableIds ==
    [Table |-> \h1, SPInfo |-> \h2, SPTemplates |-> \h3, Column |-> \h4, Type |-> \h5,
     MethodID |-> \h6, AccessControl |-> \h7, ACE |-> \h8, Authority |-> \h9,
     Certificates |-> \hA, C_PIN |-> \hB, C_RSA_1024 |-> \hC, C_RSA_2048 |-> \hD,
     C_AES_128 |-> \hE, C_AES_256 |-> \hF, C_EC_160 |-> \h10, C_EC_192 |-> \h11,
     C_EC_224 |-> \h12, C_EC_256 |-> \h13, C_EC_384 |-> \h14, C_EC_521 |-> \h15,
     C_EC_163 |-> \h16, C_EC_233 |-> \h17, C_EC_283 |-> \h18, C_HMAC_160 |-> \h19,
     C_HMAC_256 |-> \h1A, C_HMAC_384 |-> \h1B, C_HMAC_512 |-> \h1C, SecretProtect |-> \h1D,
     TPerInfo |-> \h201, CryptoSuite |-> \h203, Template |-> \h204, SP |-> \h205,
     ClockTime |-> \h401, H_SHA_1 |-> \h601, H_SHA_256 |-> \h602, H_SHA_384 |-> \h603,
     H_SHA_512 |-> \h604, Log |-> \hA01, LogList |-> \hA02, LockingInfo |-> \h801,
     Locking |-> \h802, MBRControl |-> \h803, MBR |-> \h804, K_AES_128 |-> \h805,
     K_AES_256 |-> \h806]

\* The methods of a control session, whose UIDs belong to no table.
ManagerMethods ==
    [Properties |-> \hFF01, StartSession |-> \hFF02, SyncSession |-> \hFF03,
     StartTrustedSession |-> \hFF04, SyncTrustedSession |-> \hFF05, CloseSession |-> \hFF06]

\* The methods of a session's tables and objects.
Methods ==
    [DeleteSP |-> \h1, CreateTable |-> \h2, Delete |-> \h3, CreateRow |-> \h4,
     DeleteRow |-> \h5, Next |-> \h8, GetFreeSpace |-> \h9, GetFreeRows |-> \hA,
     DeleteMethod |-> \hB, GetACL |-> \hD, AddACE |-> \hE, RemoveACE |-> \hF, GenKey |-> \h10,
     GetPackage |-> \h12, SetPackage |-> \h13, Get |-> \h16, Set |-> \h17,
     Authenticate |-> \h1C, Obsolete_0 |-> \h6, Obsolete_1 |-> \h7, Obsolete_2 |-> \hC,
     IssueSP |-> \h201, GetClock |-> \h401, ResetClock |-> \h402, SetClockHigh |-> \h403,
     SetLagHigh |-> \h404, SetClockLow |-> \h405, SetLagLow |-> \h406,
     IncrementCounter |-> \h407, Random |-> \h601, Salt |-> \h602, DecryptInit |-> \h603,
     Decrypt |-> \h604, DecryptFinalize |-> \h605, EncryptInit |-> \h606, Encrypt |-> \h607,
     EncryptFinalize |-> \h608, HMACInit |-> \h609, HMAC |-> \h60A, HMACFinalize |-> \h60B,
     HashInit |-> \h60C, Hash |-> \h60D, HashFinalize |-> \h60E, Sign |-> \h60F,
     Verify |-> \h610, XOR |-> \h611, AddLog |-> \hA01, CreateLog |-> \hA02,
     ClearLog |-> \hA03, FlushLog |-> \hA04, Reserved_0 |-> \h11, Reserved_1 |-> \h202,
     Reserved_2 |-> \h203, Reserved_3 |-> \h803]

\* The types; the first one's lower half has all bits set.
TypeIds ==
    [unknown_type |-> -1, boolean |-> \h401, integer_1 |-> \h210, integer_2 |-> \h213,
     uinteger_1 |-> \h211, uinteger_2 |-> \h215, uinteger_4 |-> \h220, uinteger_8 |-> \h225,
     max_bytes_32 |-> \h20D, max_bytes_64 |-> \h20E, bytes_4 |-> \h238, bytes_12 |-> \h201,
     bytes_16 |-> \h202, bytes_32 |-> \h205, bytes_64 |-> \h206, key_128 |-> \h602,
     key_256 |-> \h603, type_def |-> \h203, name |-> \h20B, password |-> \h20C,
     year_enum |-> \h416, month_enum |-> \h417, day_enum |-> \h418, Year |-> \h1401,
     Month |-> \h1402, Day |-> \h1403, date |-> \h1804, messaging_type |-> \h404,
     hash_protocol |-> \h40D, auth_method |-> \h408, log_select |-> \h40C,
     protect_types |-> \h1A05, reencrypt_request |-> \h413, reencrypt_state |-> \h414,
     reset_types |-> \h1A01, adv_key_mode |-> \h40F, verify_mode |-> \h412,
     last_reenc_stat |-> \h411, gen_status |-> \h1A02, enc_supported |-> \h41D,
     keys_avail_conds |-> \h410, symmetric_mode_media |-> \h403, uid |-> \h209,
     table_kind |-> \h415, object_ref |-> \hF02, table_ref |-> \hF03,
     byte_table_ref |-> \h1001, table_or_object_ref |-> \h606, Authority_object_ref |-> \hC05,
     Table_object_ref |-> \hC09, MethodID_object_ref |-> \hC03, SPTemplates_object |-> \hC01,
     Column_object_ref |-> \hC07, Template_object_ref |-> \hC08, LogList_object_ref |-> \hC0D,
     cred_object_uidref |-> \hC0B, mediakey_object_uidref |-> \hC0C, boolean_ACE |-> \h40E,
     ACE_expression |-> \h601, AC_element |-> \h801, ACE_object_ref |-> \hC04, ACL |-> \h802,
     ACE_columns |-> \h1A03, life_cycle_state |-> \h405, SSC |-> \h803]

CoreAuthorities ==
    [Anybody |-> \h1, Admins |-> \h2, Makers |-> \h3, MakerSymK |-> \h4, MakerPuK |-> \h5,
     SID |-> \h6, TPerSign |-> \h7, TPerExch |-> \h8, AdminExch |-> \h9, Issuers |-> \h201,
     Editors |-> \h202, Deleters |-> \h203, Servers |-> \h204, Reserve0 |-> \h205,
     Reserve1 |-> \h206, Reserve2 |-> \h207, Reserve3 |-> \h208]

\* The objects the Opal class adds to the Admin security provider, by table.
AdminObjects ==
    [SPInfo |-> [Admin |-> \h1],
     SPTemplates |-> [Base |-> \h1, Admin |-> \h2],
     ACE |-> [Anybody |-> \h1, Admin |-> \h2, Set_Enabled |-> \h30001,
              C_PIN_SID_Get_NOPIN |-> \h8C02, C_PIN_SID_Set_PIN |-> \h8C03,
              C_PIN_MSID_Get_PIN |-> \h8C04, C_PIN_Admins_Set_PIN |-> \h3A001,
              TPerInfo_Set_ProgrammaticResetEnable |-> \h30003, SP_SID |-> \h30002,
              DataRemovalMechanism_Set_ActiveDataRemovalMechanism |-> \h50001],
     Authority |-> [Anybody |-> \h1, Admins |-> \h2, Makers |-> \h3, SID |-> \h6],
     C_PIN |-> [SID |-> \h1, MSID |-> \h8402],
     Template |-> [Base |-> \h1, Admin |-> \h2, Locking |-> \h6]]

AdminSequences ==
    <<Numbered("Authority", \h201, "Admin{}"), Numbered("C_PIN", \h201, "Admin{}")>>

\* The objects the Opal class adds to the Locking security provider, by table.
LockingObjects ==
    [SPInfo |-> [Locking |-> \h1],
     SPTemplates |-> [Base |-> \h1, Locking |-> \h2],
     ACE |-> [Anybody |-> \h1, Admin |-> \h2, Anybody_Get_CommonName |-> \h3,
              Admins_Set_CommonName |-> \h4, ACE_Get_All |-> \h38000,
              ACE_Set_BooleanExpression |-> \h38001, Authority_Get_All |-> \h39000,
              Authority_Set_Enabled |-> \h39001, C_PIN_Admins_Get_All_NOPIN |-> \h3A000,
              C_PIN_Admins_Set_PIN |-> \h3A001, K_AES_Mode |-> \h3BFFF,
              K_AES_128_GlobalRange_GenKey |-> \h3B000,
              K_AES_256_GlobalRange_GenKey |-> \h3B800,
              Locking_GlobalRange_Get_RangeStartToActiveKey |-> \h3D000,
              Locking_GlobalRange_Set_RdLocked |-> \h3E000,
              Locking_GlobalRange_Set_WrLocked |-> \h3E800,
              Locking_GlblRng_Admins_Set |-> \h3F000,
              Locking_Admins_RangeStartToLOR |-> \h3F001, MBRControl_Admins_Set |-> \h3F800,
              MBRControl_Set_DoneToDOR |-> \h3F801, DataStore_Get_All |-> \h3FC00,
              DataStore_Set_All |-> \h3FC01, Set_Enabled |-> \h30001,
              C_PIN_SID_Get_NOPIN |-> \h8C02, C_PIN_SID_Set_PIN |-> \h8C03,
              C_PIN_MSID_Get_PIN |-> \h8C04, TPerInfo_Set_ProgrammaticResetEnable |-> \h30003,
              SP_SID |-> \h30002,
              DataRemovalMechanism_Set_ActiveDataRemovalMechanism |-> \h50001],
     Authority |-> [Anybody |-> \h1, Admins |-> \h2, Users |-> \h30000],
     SecretProtect |-> [K_AES_128 |-> \h1D, K_AES_256 |-> \h1E],
     Locking |-> [GlobalRange |-> \h1],
     K_AES_128 |-> [GlobalRange |-> \h1],
     K_AES_256 |-> [GlobalRange |-> \h1]]

LockingSequences ==
    <<Numbered("ACE", \h44001, "User{}_Set_CommonName"),
      Numbered("ACE", \h3A801, "C_PIN_User{}_Set_PIN"),
      Numbered("ACE", \h3B001, "K_AES_128_Range{}_GenKey"),
      Numbered("ACE", \h3B801, "K_AES_256_Range{}_GenKey"),
      Numbered("ACE", \h3D001, "Locking_Range{}_Get_RangeStartToActiveKey"),
      Numbered("ACE", \h3E001, "Locking_Range{}_Set_RdLocked"),
      Numbered("ACE", \h3E801, "Locking_Range{}_Set_WrLocked"),
      Numbered("Authority", \h10001, "Admin{}"), Numbered("Authority", \h30001, "User{}"),
      Numbered("C_PIN", \h10001, "Admin{}"), Numbered("C_PIN", \h30001, "User{}"),
      Numbered("Locking", \h30001, "Range{}"), Numbered("K_AES_128", \h30001, "Range{}"),
      Numbered("K_AES_256", \h30001, "Range{}")>>

\* The columns of the described tables, each with its type: the tables every
\* security provider may have, and those of one template.
BaseColumns ==
    [Table |->
         <<<<"UID", "uid">>, <<"Name", "name">>, <<"CommonName", "name">>,
           <<"TemplateID", "Template_object_ref">>, <<"Kind", "table_kind">>,
           <<"Column", "Column_object_ref">>, <<"NumColumns", "uinteger_4">>,
           <<"Rows", "uinteger_4">>, <<"RowsFree", "uinteger_4">>,
           <<"RowBytes", "uinteger_4">>, <<"LastID", "uid">>, <<"MinSize", "uinteger_4">>,
           <<"MaxSize", "uinteger_4">>>>,
     Authority |->
         <<<<"UID", "uid">>, <<"Name", "name">>, <<"CommonName", "name">>,
           <<"IsClass", "boolean">>, <<"Class", "Authority_object_ref">>,
           <<"Enabled", "boolean">>, <<"Secure", "messaging_type">>,
           <<"HashAndSign", "hash_protocol">>, <<"PresentCertificate", "boolean">>,
           <<"Operation", "auth_method">>, <<"Credential", "cred_object_uidref">>,
           <<"ResponseSign", "Authority_object_ref">>,
           <<"ResponseExch", "Authority_object_ref">>, <<"ClockStart", "date">>,
           <<"ClockEnd", "date">>, <<"Limit", "uinteger_4">>, <<"Uses", "uinteger_4">>,
           <<"Log", "log_select">>, <<"LogTo", "LogList_object_ref">>>>,
     AccessControl |->
         <<<<"UID", "uid">>, <<"InvokingID", "table_or_object_ref">>,
           <<"MethodID", "MethodID_object_ref">>, <<"CommonName", "name">>, <<"ACL", "ACL">>,
           <<"Log", "log_select">>, <<"AddACEACL", "ACL">>, <<"RemoveACEACL", "ACL">>,
           <<"GetACLACL", "ACL">>, <<"DeleteMethodACL", "ACL">>,
           <<"AddACELog", "log_select">>, <<"RemoveACELog", "log_select">>,
           <<"GetACLLog", "log_select">>, <<"DeleteMethodLog", "log_select">>,
           <<"LogTo", "LogList_object_ref">>>>,
     ACE |->
         <<<<"UID", "uid">>, <<"Name", "name">>, <<"CommonName", "name">>,
           <<"BooleanExpr", "AC_element">>, <<"Columns", "ACE_columns">>>>,
     MethodID |->
         <<<<"UID", "uid">>, <<"Name", "name">>, <<"CommonName", "name">>,
           <<"TemplateID", "Template_object_ref">>>>,
     SecretProtect |->
         <<<<"UID", "uid">>, <<"Table", "Table_object_ref">>,
           <<"ColumnNumber", "uinteger_4">>, <<"ProtectMechanisms", "protect_types">>>>,
     C_PIN |->
         <<<<"UID", "uid">>, <<"Name", "name">>, <<"CommonName", "name">>,
           <<"PIN", "password">>, <<"CharSet", "byte_table_ref">>,
           <<"TryLimit", "uinteger_4">>, <<"Tries", "uinteger_4">>,
           <<"Persistence", "boolean">>>>,
     SP |->
         <<<<"UID", "uid">>, <<"Name", "name">>, <<"ORG", "Authority_object_ref">>,
           <<"EffectiveAuth", "max_bytes_32">>, <<"DateofIssue", "date">>,
           <<"Bytes", "uinteger_8">>, <<"LifeCycleState", "life_cycle_state">>,
           <<"Frozen", "boolean">>>>]

OtherColumns ==
    [Locking |->
         <<<<"UID", "uid">>, <<"Name", "name">>, <<"CommonName", "name">>,
           <<"RangeStart", "uinteger_8">>, <<"RangeLength", "uinteger_8">>,
           <<"ReadLockEnabled", "boolean">>, <<"WriteLockEnabled", "boolean">>,
           <<"ReadLocked", "boolean">>, <<"WriteLocked", "boolean">>,
           <<"LockOnReset", "reset_types">>, <<"ActiveKey", "mediakey_object_uidref">>,
           <<"NextKey", "mediakey_object_uidref">>, <<"ReEncryptState", "reencrypt_state">>,
           <<"ReEncryptRequest", "reencrypt_request">>, <<"AdvKeyMode", "adv_key_mode">>,
           <<"VerifyMode", "verify_mode">>, <<"ContOnReset", "reset_types">>,
           <<"LastReEncryptLBA", "uinteger_8">>, <<"LastReEncStat", "last_reenc_stat">>,
           <<"GeneralStatus", "gen_status">>>>,
     MBRControl |->
         <<<<"UID", "uid">>, <<"Enable", "boolean">>, <<"Done", "boolean">>,
           <<"MBRDoneOnReset", "reset_types">>>>,
     LockingInfo |->
         <<<<"UID", "uid">>, <<"Name", "name">>, <<"Version", "uinteger_4">>,
           <<"EncryptSupport", "enc_supported">>, <<"MaxRanges", "uinteger_4">>,
           <<"MaxReEncryptions", "uinteger_4">>, <<"KeysAvailableCfg", "keys_avail_conds">>>>,
     SPInfo |->
         <<<<"UID", "uid">>, <<"SPID", "uid">>, <<"Name", "name">>, <<"Size", "uinteger_8">>,
           <<"SizeInUse", "uinteger_8">>, <<"SPSessionTimeout", "uinteger_4">>,
           <<"Enabled", "boolean">>>>,
     TPerInfo |->
         <<<<"UID", "uid">>, <<"Bytes", "uinteger_8">>, <<"GUDID", "bytes_12">>,
           <<"Generation", "uinteger_4">>, <<"FirmwareVersion", "uinteger_4">>,
           <<"ProtocolVersion", "uinteger_4">>, <<"SpaceForIssuance", "uinteger_8">>,
           <<"SSC", "SSC">>>>,
     SPTemplates |->
         <<<<"UID", "uid">>, <<"TemplateID", "Template_object_ref">>, <<"Name", "name">>,
           <<"Version", "bytes_4">>>>,
     Type |->
         <<<<"UID", "uid">>, <<"Name", "name">>, <<"CommonName", "name">>,
           <<"Format", "type_def">>, <<"Size", "uinteger_2">>>>,
     Template |->
         <<<<"UID", "uid">>, <<"Name", "name">>, <<"RevisionNumber", "uinteger_4">>,
           <<"Instances", "uinteger_2">>, <<"MaxInstances", "uinteger_2">>>>,
     K_AES_128 |->
         <<<<"UID", "uid">>, <<"Name", "name">>, <<"CommonName", "name">>,
           <<"Key", "key_128">>, <<"Mode", "symmetric_mode_media">>>>,
     K_AES_256 |->
         <<<<"UID", "uid">>, <<"Name", "name">>, <<"CommonName", "name">>,
           <<"Key", "key_256">>, <<"Mode", "symmetric_mode_media">>>>]

\* The descriptions do not count the UID column, for the mutant.
ColumnsAfterUid ==
    LET all == BaseColumns @@ OtherColumns IN [t \in DOMAIN all |-> Tail(all[t])]

\* Every table's description: object tables whose columns are not given have none.
Columns == BaseColumns @@ OtherColumns @@ [t \in DOMAIN TableIds |-> <<>>]

\* The columns the Opal classes add.
OpalColumns ==
    [TPerInfo |-> <<<<"ProgrammaticResetEnable", "boolean">>>>,
     Table |-> <<<<"MandatoryWriteGranularity", "uinteger_4">>,
                 <<"RecommendedAccessGranularity", "uinteger_4">>>>]

-----------------------------------------------------------------------------
(* Types: bounds and sizes are left out, what a value of the type looks like
   is kept. *)

Numbers ==
    {"boolean", "integer_1", "integer_2", "uinteger_1", "uinteger_2", "uinteger_4",
     "uinteger_8", "year_enum", "month_enum", "day_enum", "messaging_type", "hash_protocol",
     "auth_method", "log_select", "reencrypt_request", "reencrypt_state", "adv_key_mode",
     "verify_mode", "last_reenc_stat", "enc_supported", "keys_avail_conds",
     "symmetric_mode_media", "table_kind", "boolean_ACE", "life_cycle_state"}

ByteStrings ==
    {"max_bytes_32", "max_bytes_64", "bytes_4", "bytes_12", "bytes_16", "bytes_32",
     "bytes_64", "type_def", "name", "password", "uid"}

\* A type is declared and used, but not defined, for the mutant.
NumberSetsButOne == {"protect_types", "reset_types", "gen_status"}

NumberSets == {"protect_types", "reset_types", "gen_status", "ACE_columns"}

\* Lists and the type of their elements; structures and their fields.
Lists == [AC_element |-> "ACE_expression", ACL |-> "ACE_object_ref", SSC |-> "name"]
Structs == [date |-> {"Year", "Month", "Day"}]
NameValues == [Year |-> "year_enum", Month |-> "month_enum", Day |-> "day_enum"]

\* A value of an alternative names the option it is of.
Alternatives ==
    [key_128 |-> {"bytes_16", "bytes_32"}, key_256 |-> {"bytes_32", "bytes_64"},
     table_or_object_ref |-> {"object_ref", "table_ref"},
     ACE_expression |-> {"Authority_object_ref", "boolean_ACE"}]

GeneralReferences == {"object_ref", "table_ref", "byte_table_ref"}

\* The tables a restricted reference may point into.
References ==
    [Authority_object_ref |-> {"Authority"}, Table_object_ref |-> {"Table"},
     MethodID_object_ref |-> {"MethodID"}, SPTemplates_object |-> {"SPTemplates"},
     Column_object_ref |-> {"Column"}, Template_object_ref |-> {"Template"},
     LogList_object_ref |-> {"LogList"}, ACE_object_ref |-> {"ACE"},
     mediakey_object_uidref |-> {"K_AES_128", "K_AES_256"},
     cred_object_uidref |->
         {"C_PIN", "C_AES_128", "C_AES_256", "C_RSA_1024", "C_RSA_2048", "C_EC_160",
          "C_EC_192", "C_EC_224", "C_EC_256", "C_EC_384", "C_EC_521", "C_EC_163", "C_EC_233",
          "C_EC_283", "C_HMAC_160", "C_HMAC_256", "C_HMAC_384", "C_HMAC_512"}]

DefinedTypes ==
    {"unknown_type"} \union Numbers \union ByteStrings \union NumberSets
        \union GeneralReferences
        \union UNION {DOMAIN Lists, DOMAIN Structs, DOMAIN NameValues, DOMAIN Alternatives,
                      DOMAIN References}

-----------------------------------------------------------------------------
(* Names and UIDs, as the modules list them *)

\* Objects by table as pairs of UID and name.
PairsOf(objects) ==
    UNION {{<<<<TableIds[t], objects[t][o]>>, <<t, o>>>> : o \in DOMAIN objects[t]} :
           t \in DOMAIN objects}

\* Tables and the rows that describe them in the table of tables (UID::ToDescriptor).
TablePairs(tables) ==
    {<<<<tables[t], 0>>, <<t>>>> : t \in DOMAIN tables}
        \union {<<<<TableIds.Table, tables[t]>>, <<"Table", t>>>> : t \in DOMAIN tables}

\* The single rows of the tables that have only one.
SingleRows ==
    [SPInfo |-> [SPInfo |-> \h1], TPerInfo |-> [TPerInfo |-> \h1],
     LockingInfo |-> [LockingInfo |-> \h1], MBRControl |-> [MBRControl |-> \h1]]

CorePairs ==
    TablePairs(TableIds) \union PairsOf(SingleRows)
        \union {<<<<0, ManagerMethods[x]>>, <<"MethodID", x>>>> : x \in DOMAIN ManagerMethods}
        \union PairsOf([MethodID |-> Methods, Authority |-> CoreAuthorities, Type |-> TypeIds])

\* What the Opal classes name whatever the security provider.
OpalTableIds == [DataStore |-> \h1001, DataRemovalMechanism |-> \h1101]

GlobalPairs ==
    TablePairs(OpalTableIds)
        \union PairsOf([MethodID |-> [Activate |-> \h203, Revert |-> \h202, RevertSP |-> \h11],
                        SP |-> [Admin |-> \h1, Locking |-> \h2]])

PsidPairs ==
    PairsOf([Authority |-> [PSID |-> \h1FF01], C_PIN |-> [PSID |-> \h1FF01],
             ACE |-> [C_PIN_Get_PSID_NoPIN |-> \h100E1, SP_PSID |-> \h100E0]])
=============================================================================
