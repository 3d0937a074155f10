CONSTANTS
    Comparison <- TheComparisons
    Null = Null
    JsonNull = JsonNull
    MaxPageSize = 2
    DefaultRole = "user"
    NoOne = NoOne
    Filters <- TheFilters
    Rows <- TheRows
    Texts <- TheTexts
    Counts <- TheCounts
    Connections <- TheConnections
    ClaimSets <- TheClaimSets
    Provisioned <- TheProvisioned
    Identifiers <- TheIdentifiers
    Patterns <- ThePatterns
    TokenTables <- TheTokenTables
    Sessions <- TheSessions
    Bearers <- TheBearers
    Scopes <- TheScopes
    AccessTokens <- TheAccessTokens
    Audiences <- TheAudiences
SPECIFICATION Spec
INVARIANTS FilterIsExact LikeIsLiteral PagesPartition RoleIsFirstMatch ExpectationsAgree CredentialsDecide VerdictIsExplained
