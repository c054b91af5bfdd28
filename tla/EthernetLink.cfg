SPECIFICATION LinkSpec
PROPERTY AddressRemoved
