SPECIFICATION Spec
CONSTANTS
    EntityLimit = 2
    EvidenceLimit = 6
    PartyLimit = 2
    Orders <- MCOrders
    ItemSets <- MCItemSets
    PaymentSets <- MCPaymentSets
INVARIANTS
    SelfVerifies
    ClassifiedAsDocumented
    RefundJustified
    EvidenceGrounded
    BlamedSellersLate
